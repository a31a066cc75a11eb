---------------------------- MODULE FigureProofs ----------------------------
(* What the figures of an account promise, whatever its repositories and the  *)
(* fetches that failed; and what a score and a standing promise, whatever was *)
(* measured.                                                                  *)
EXTENDS Figures, Scores, FiniteSetTheorems, TLAPS

-----------------------------------------------------------------------------
(* Sums over finite sets.                                                     *)

\* What holds of a subset once it holds of it without any one element holds of
\* every subset.
LEMMA SubsetInduction ==
  ASSUME NEW S, IsFiniteSet(S), NEW G,
         \A T \in SUBSET S : (\A x \in T : T \ {x} \in G) => T \in G
  PROVE  \A T \in SUBSET S : T \in G
<1> DEFINE Rest == (SUBSET S) \ G
<1> SUFFICES ASSUME Rest # {} PROVE FALSE
  OBVIOUS
<1>1. Rest \subseteq FiniteSubsetsOf(S)
  BY FS_FiniteSubsetsOfFinite
<1>2. IsWellFoundedOn(StrictSubsetOrdering(S), FiniteSubsetsOf(S))
  BY FS_StrictSubsetOrderingWellFounded
<1>3. PICK T \in Rest : \A U \in Rest : <<U, T>> \notin StrictSubsetOrdering(S)
  <2> HIDE DEF Rest
  <2> QED
    BY <1>1, <1>2, WFMin
<1>4. ASSUME NEW x \in T PROVE T \ {x} \in G
  <2>1. T \in SUBSET S /\ T \ {x} \in SUBSET S /\ T \ {x} \subseteq T /\ T \ {x} # T
    BY <1>3
  <2>2. <<T \ {x}, T>> \in StrictSubsetOrdering(S)
    BY <2>1 DEF StrictSubsetOrdering
  <2>3. T \ {x} \notin Rest
    BY <1>3, <2>2
  <2> QED
    BY <2>1, <2>3
<1> QED
  BY <1>3, <1>4

\* The function that a sum over the subsets of S unfolds into.
Adds(w, S, it) ==
  it = [s \in SUBSET S |-> IF s = {} THEN 0
                           ELSE w[CHOOSE x \in s : TRUE] + it[s \ {CHOOSE x \in s : TRUE}]]

LEMMA AddsUnfold ==
  ASSUME NEW S, NEW w, NEW it, Adds(w, S, it), NEW s \in SUBSET S, s # {}
  PROVE  \E x \in s : x = (CHOOSE y \in s : TRUE) /\ it[s] = w[x] + it[s \ {x}]
<1> DEFINE x == CHOOSE y \in s : TRUE
<1>1. x \in s
  OBVIOUS
<1>2. it[s] = w[x] + it[s \ {x}]
  BY DEF Adds
<1> QED
  BY <1>1, <1>2

LEMMA AddsEmpty == ASSUME NEW S, NEW w, NEW it, Adds(w, S, it) PROVE it[{}] = 0
BY DEF Adds

\* Two of them agree where their sets and weights do.
LEMMA AddsAgree ==
  ASSUME NEW S, NEW R, NEW w, NEW v, NEW a, NEW b, Adds(w, S, a), Adds(v, R, b),
         NEW T \in SUBSET (S \cap R), IsFiniteSet(T), \A x \in T : w[x] = v[x]
  PROVE  a[T] = b[T]
<1> DEFINE G == {U \in SUBSET T : a[U] = b[U]}
<1>1. ASSUME NEW U \in SUBSET T, \A x \in U : U \ {x} \in G PROVE U \in G
  <2>1. CASE U = {}
    BY <2>1, AddsEmpty
  <2>2. CASE U # {}
    <3> HIDE DEF G
    <3>1. PICK x \in U : x = (CHOOSE y \in U : TRUE) /\ a[U] = w[x] + a[U \ {x}]
      BY <2>2, AddsUnfold
    <3>2. PICK z \in U : z = (CHOOSE y \in U : TRUE) /\ b[U] = v[z] + b[U \ {z}]
      BY <2>2, AddsUnfold
    <3>3. a[U \ {x}] = b[U \ {x}]
      BY <1>1 DEF G
    <3>4. a[U] = b[U]
      BY <3>1, <3>2, <3>3
    <3> QED
      BY <3>4 DEF G
  <2> QED
    BY <2>1, <2>2
<1>2. T \in G
  <2> HIDE DEF G
  <2> QED
    BY <1>1, SubsetInduction
<1> QED
  BY <1>2

\* There is one for every finite set.
LEMMA AddsExist == ASSUME NEW S, IsFiniteSet(S), NEW w PROVE \E it : Adds(w, S, it)
<1> DEFINE G == {T \in SUBSET S : \A U \in SUBSET T : \E it : Adds(w, U, it)}
<1>1. ASSUME NEW T \in SUBSET S, \A x \in T : T \ {x} \in G PROVE T \in G
  <2> DEFINE c(s) == CHOOSE x \in s : TRUE
             K(u) == CHOOSE k : Adds(w, u, k)
             V(s) == IF s = {} THEN 0 ELSE w[c(s)] + K(s \ {c(s)})[s \ {c(s)}]
             it == [s \in SUBSET T |-> V(s)]
  <2>1. \A s : s # {} => c(s) \in s
    OBVIOUS
  <2>2. ASSUME NEW u \in SUBSET T, u # T PROVE Adds(w, u, K(u))
    <3>1. PICK x \in T : u \in SUBSET (T \ {x})
      BY <2>2
    <3>2. \E k : Adds(w, u, k)
      BY <1>1, <3>1
    <3> QED
      BY <3>2
  <2>3. ASSUME NEW s \in SUBSET T, s # {}
        PROVE  V(s \ {c(s)}) = K(s \ {c(s)})[s \ {c(s)}]
    <3> DEFINE u == s \ {c(s)}
               r == u \ {c(u)}
    <3> HIDE DEF c, K
    <3>1. u \in SUBSET T /\ u # T /\ r \in SUBSET T /\ (u # {} => r # T)
      BY <2>1, <2>3
    <3>2. Adds(w, u, K(u))
      BY <2>2, <3>1
    <3>3. CASE u = {}
      BY <3>2, <3>3, AddsEmpty
    <3>4. CASE u # {}
      <4>1. Adds(w, r, K(r))
        BY <2>2, <3>1, <3>4
      <4>2. K(u)[u] = w[c(u)] + K(u)[r]
        BY <3>2, <3>4, AddsUnfold DEF c
      <4>3. IsFiniteSet(r)
        BY <3>1, FS_Subset
      <4>4. r \in SUBSET (u \cap r)
        OBVIOUS
      <4>5. K(u)[r] = K(r)[r]
        <5> HIDE DEF u, r
        <5> QED
          BY <3>2, <4>1, <4>3, <4>4, AddsAgree
      <4> QED
        BY <3>4, <4>2, <4>5
    <3> QED
      BY <3>3, <3>4
  <2>4. \A s \in SUBSET T : it[s] = V(s)
    OBVIOUS
  <2>5. ASSUME NEW s \in SUBSET T, s # {}
        PROVE  it[s] = w[c(s)] + it[s \ {c(s)}]
    <3>1. s \ {c(s)} \in SUBSET T
      OBVIOUS
    <3>2. it[s \ {c(s)}] = K(s \ {c(s)})[s \ {c(s)}]
      <4> HIDE DEF it, c, K, V
      <4> QED
        BY <2>3, <2>4, <2>5, <3>1
    <3>3. V(s) = w[c(s)] + K(s \ {c(s)})[s \ {c(s)}]
      <4> HIDE DEF K
      <4> QED
        BY <2>5
    <3> HIDE DEF it, c, K, V
    <3> QED
      BY <2>4, <3>2, <3>3
  <2>6. Adds(w, T, it)
    <3>1. it[{}] = 0
      OBVIOUS
    <3>2. it = [s \in SUBSET T |-> IF s = {} THEN 0 ELSE w[c(s)] + it[s \ {c(s)}]]
      <4>1. it = [s \in SUBSET T |-> it[s]]
        OBVIOUS
      <4> HIDE DEF it, K, c
      <4> QED
        BY <2>5, <3>1, <4>1
    <3> HIDE DEF it
    <3> QED
      BY <3>2 DEF Adds
  <2>7. \A U \in SUBSET T : \E k : Adds(w, U, k)
    <3> HIDE DEF it, K
    <3> QED
      BY <2>2, <2>6
  <2> QED
    BY <2>7
<1>2. S \in G
  <2> HIDE DEF G
  <2> QED
    BY <1>1, SubsetInduction
<1> QED
  BY <1>2

\* With weights that are numbers, any element may be taken out first.
LEMMA AddsNumber ==
  ASSUME NEW S, NEW w, NEW it, Adds(w, S, it), NEW T \in SUBSET S, IsFiniteSet(T),
         \A x \in T : w[x] \in Nat
  PROVE  it[T] \in Nat
<1> DEFINE G == {U \in SUBSET T : it[U] \in Nat}
<1>1. ASSUME NEW U \in SUBSET T, \A x \in U : U \ {x} \in G PROVE U \in G
  <2>1. CASE U = {}
    BY <2>1, AddsEmpty
  <2>2. CASE U # {}
    <3>1. PICK x \in U : it[U] = w[x] + it[U \ {x}]
      BY <2>2, AddsUnfold
    <3>2. it[U \ {x}] \in Nat /\ w[x] \in Nat
      BY <1>1
    <3> QED
      BY <3>1, <3>2
  <2> QED
    BY <2>1, <2>2
<1>2. T \in G
  <2> HIDE DEF G
  <2> QED
    BY <1>1, SubsetInduction
<1> QED
  BY <1>2

LEMMA AddsOne ==
  ASSUME NEW S, NEW w, NEW it, Adds(w, S, it), NEW T \in SUBSET S, IsFiniteSet(T),
         \A x \in T : w[x] \in Nat
  PROVE  \A x \in T : it[T] = w[x] + it[T \ {x}]
<1> DEFINE G == {U \in SUBSET T : \A x \in U : it[U] = w[x] + it[U \ {x}]}
<1>1. ASSUME NEW U \in SUBSET T, \A x \in U : U \ {x} \in G PROVE U \in G
  <2> SUFFICES ASSUME NEW x \in U PROVE it[U] = w[x] + it[U \ {x}]
    OBVIOUS
  <2>1. PICK z \in U : it[U] = w[z] + it[U \ {z}]
    BY AddsUnfold
  <2>2. CASE z = x
    BY <2>1, <2>2
  <2>3. CASE z # x
    <3> DEFINE both == (U \ {x}) \ {z}
    <3>1. both = (U \ {z}) \ {x}
      OBVIOUS
    <3>2. it[U \ {z}] = w[x] + it[both]
      BY <1>1, <2>3, <3>1
    <3>3. it[U \ {x}] = w[z] + it[both]
      BY <1>1, <2>3
    <3>4. both \in SUBSET S /\ IsFiniteSet(both) /\ \A y \in both : w[y] \in Nat
      BY FS_Subset
    <3>5. it[both] \in Nat
      <4> HIDE DEF both
      <4> QED
        BY <3>4, AddsNumber
    <3> HIDE DEF both
    <3> QED
      BY <2>1, <3>2, <3>3, <3>5
  <2> QED
    BY <2>2, <2>3
<1>2. T \in G
  <2> HIDE DEF G
  <2> QED
    BY <1>1, SubsetInduction
<1> QED
  BY <1>2

\* The sum of the weights of a set, and the total of its counts.
Sum(w, S) == MapThenSumSet(LAMBDA x : w[x], S)

LEMMA SumAdds ==
  ASSUME NEW S, IsFiniteSet(S), NEW w
  PROVE  \E it : Adds(w, S, it) /\ Sum(w, S) = it[S]
<1> DEFINE it == CHOOSE k : Adds(w, S, k)
<1>1. Adds(w, S, it)
  BY AddsExist
<1>2. Sum(w, S) = it[S]
  BY DEF Sum, MapThenSumSet, MapThenFoldSet, Adds
<1> QED
  BY <1>1, <1>2

All(counts, repos) == [r \in repos |-> counts[r].all]
Recently(counts, repos) == [r \in repos |-> counts[r].recent]

LEMMA TotalAll ==
  ASSUME NEW S, IsFiniteSet(S), NEW counts
  PROVE  Total(counts, S).all = Sum(All(counts, S), S)
<1> DEFINE w == All(counts, S)
           F(k) == [s \in SUBSET S |-> IF s = {} THEN 0
                       ELSE counts[CHOOSE x \in s : TRUE].all + k[s \ {CHOOSE x \in s : TRUE}]]
           it == CHOOSE k : k = F(k)
<1>1. ASSUME NEW k PROVE k = F(k) <=> Adds(w, S, k)
  BY DEF Adds, All
<1>2. \E k : k = F(k)
  <2> HIDE DEF F, w
  <2> QED
    BY <1>1, AddsExist
<1>3. Adds(w, S, it)
  <2> HIDE DEF F, w
  <2> QED
    BY <1>1, <1>2
<1>4. Total(counts, S).all = it[S]
  BY DEF Total, MapThenSumSet, MapThenFoldSet
<1>5. PICK k : Adds(w, S, k) /\ Sum(w, S) = k[S]
  BY SumAdds
<1> HIDE DEF it, w
<1> QED
  BY <1>3, <1>4, <1>5, AddsAgree DEF w

LEMMA TotalRecent ==
  ASSUME NEW S, IsFiniteSet(S), NEW counts
  PROVE  Total(counts, S).recent = Sum(Recently(counts, S), S)
<1> DEFINE w == Recently(counts, S)
           F(k) == [s \in SUBSET S |-> IF s = {} THEN 0
                       ELSE counts[CHOOSE x \in s : TRUE].recent + k[s \ {CHOOSE x \in s : TRUE}]]
           it == CHOOSE k : k = F(k)
<1>1. ASSUME NEW k PROVE k = F(k) <=> Adds(w, S, k)
  BY DEF Adds, Recently
<1>2. \E k : k = F(k)
  <2> HIDE DEF F, w
  <2> QED
    BY <1>1, AddsExist
<1>3. Adds(w, S, it)
  <2> HIDE DEF F, w
  <2> QED
    BY <1>1, <1>2
<1>4. Total(counts, S).recent = it[S]
  BY DEF Total, MapThenSumSet, MapThenFoldSet
<1>5. PICK k : Adds(w, S, k) /\ Sum(w, S) = k[S]
  BY SumAdds
<1> HIDE DEF it, w
<1> QED
  BY <1>3, <1>4, <1>5, AddsAgree DEF w

\* Sums of numbers: nothing, one weight out, fewer or smaller weights, two parts.
LEMMA SumNone == ASSUME NEW w PROVE Sum(w, {}) = 0
BY SumAdds, AddsEmpty, FS_EmptySet

LEMMA SumNumber ==
  ASSUME NEW S, IsFiniteSet(S), NEW w, \A x \in S : w[x] \in Nat
  PROVE  Sum(w, S) \in Nat
<1>1. PICK it : Adds(w, S, it) /\ Sum(w, S) = it[S]
  BY SumAdds
<1> QED
  BY <1>1, AddsNumber

LEMMA SumOne ==
  ASSUME NEW S, IsFiniteSet(S), NEW w, \A x \in S : w[x] \in Nat, NEW e \in S
  PROVE  Sum(w, S) = w[e] + Sum(w, S \ {e})
<1>1. PICK it : Adds(w, S, it) /\ Sum(w, S) = it[S]
  BY SumAdds
<1>2. it[S] = w[e] + it[S \ {e}]
  BY <1>1, AddsOne
<1>3. IsFiniteSet(S \ {e})
  BY FS_RemoveElement
<1>4. PICK k : Adds(w, S \ {e}, k) /\ Sum(w, S \ {e}) = k[S \ {e}]
  BY <1>3, SumAdds
<1>5. it[S \ {e}] = k[S \ {e}]
  <2> DEFINE R == S \ {e}
  <2>1. R \in SUBSET (S \cap R)
    OBVIOUS
  <2> HIDE DEF R
  <2>2. Adds(w, R, k) /\ IsFiniteSet(R)
    BY <1>3, <1>4 DEF R
  <2>3. it[R] = k[R]
    BY <1>1, <2>1, <2>2, AddsAgree
  <2> QED
    BY <2>3 DEF R
<1> QED
  BY <1>1, <1>2, <1>4, <1>5

LEMMA SumAgree ==
  ASSUME NEW S, IsFiniteSet(S), NEW w, NEW v, \A x \in S : w[x] = v[x]
  PROVE  Sum(w, S) = Sum(v, S)
<1>1. PICK a : Adds(w, S, a) /\ Sum(w, S) = a[S]
  BY SumAdds
<1>2. PICK b : Adds(v, S, b) /\ Sum(v, S) = b[S]
  BY SumAdds
<1> QED
  BY <1>1, <1>2, AddsAgree

LEMMA SumAtMost ==
  ASSUME NEW S, IsFiniteSet(S), NEW w, NEW v, NEW R \in SUBSET S,
         \A x \in S : w[x] \in Nat /\ v[x] \in Nat /\ w[x] <= v[x]
  PROVE  Sum(w, R) <= Sum(v, S)
<1> DEFINE G == {U \in SUBSET S : Sum(w, U \cap R) <= Sum(v, U)}
<1>1. ASSUME NEW U \in SUBSET S, \A x \in U : U \ {x} \in G PROVE U \in G
  <2>0. /\ IsFiniteSet(U) /\ IsFiniteSet(U \cap R)
        /\ \A x \in U : IsFiniteSet(U \ {x}) /\ IsFiniteSet((U \ {x}) \cap R)
    BY FS_Subset
  <2>1. CASE U = {}
    <3>1. U \cap R = {}
      BY <2>1
    <3>2. Sum(w, U \cap R) = 0 /\ Sum(v, U) = 0
      BY <2>1, <3>1, SumNone
    <3> QED
      BY <3>2
  <2>2. CASE U # {}
    <3>1. PICK x \in U : TRUE
      BY <2>2
    <3> DEFINE I == U \cap R
               O == U \ {x}
               OI == O \cap R
    <3>2. Sum(w, OI) <= Sum(v, O)
      BY <1>1
    <3>3. /\ x \in R => x \in I /\ OI = I \ {x}
          /\ x \notin R => OI = I
      OBVIOUS
    <3>4. /\ IsFiniteSet(I) /\ IsFiniteSet(O) /\ IsFiniteSet(OI)
          /\ \A y \in I : w[y] \in Nat
          /\ \A y \in OI : w[y] \in Nat
          /\ \A y \in O : v[y] \in Nat
      BY <2>0
    <3>5. Sum(v, U) = v[x] + Sum(v, O)
      BY <2>0, SumOne
    <3>6. Sum(v, O) \in Nat /\ Sum(w, OI) \in Nat
      <4> HIDE DEF I, O, OI
      <4> QED
        BY <3>4, SumNumber
    <3>7. x \in R => Sum(w, I) = w[x] + Sum(w, OI)
      <4> HIDE DEF I, O, OI
      <4> QED
        BY <3>3, <3>4, SumOne
    <3>8. Sum(w, I) <= Sum(v, U)
      <4> HIDE DEF I, O, OI
      <4> QED
        BY <3>2, <3>3, <3>5, <3>6, <3>7
    <3> QED
      BY <3>8
  <2> QED
    BY <2>1, <2>2
<1>2. S \in G
  <2> HIDE DEF G
  <2> QED
    BY <1>1, SubsetInduction
<1>3. S \cap R = R
  OBVIOUS
<1> QED
  BY <1>2, <1>3

LEMMA SumParts ==
  ASSUME NEW S, IsFiniteSet(S), NEW w, \A x \in S : w[x] \in Nat, NEW R \in SUBSET S
  PROVE  Sum(w, S) = Sum(w, R) + Sum(w, S \ R)
<1> DEFINE G == {U \in SUBSET S : Sum(w, U) = Sum(w, U \cap R) + Sum(w, U \ R)}
<1>1. ASSUME NEW U \in SUBSET S, \A x \in U : U \ {x} \in G PROVE U \in G
  <2>1. CASE U = {}
    <3>1. U \cap R = {} /\ U \ R = {}
      BY <2>1
    <3>2. Sum(w, U) = 0 /\ Sum(w, U \cap R) = 0 /\ Sum(w, U \ R) = 0
      BY <2>1, <3>1, SumNone
    <3> QED
      BY <3>2
  <2>2. CASE U # {}
    <3>1. PICK x \in U : TRUE
      BY <2>2
    <3> DEFINE I == U \cap R
               O == U \ R
               V == U \ {x}
               VI == V \cap R
               VO == V \ R
    <3>2. Sum(w, V) = Sum(w, VI) + Sum(w, VO)
      BY <1>1
    <3>3. /\ x \in R => x \in I /\ VI = I \ {x} /\ VO = O
          /\ x \notin R => x \in O /\ VO = O \ {x} /\ VI = I
      OBVIOUS
    <3>4. \A Z \in {U, I, O, V, VI, VO} : IsFiniteSet(Z) /\ \A y \in Z : w[y] \in Nat
      BY FS_Subset
    <3>5. Sum(w, U) = w[x] + Sum(w, V)
      BY <3>4, SumOne
    <3>6. Sum(w, V) \in Nat /\ Sum(w, VI) \in Nat /\ Sum(w, VO) \in Nat
      <4> HIDE DEF I, O, V, VI, VO
      <4> QED
        BY <3>4, SumNumber
    <3>7. /\ x \in R => Sum(w, I) = w[x] + Sum(w, VI)
          /\ x \notin R => Sum(w, O) = w[x] + Sum(w, VO)
      <4> HIDE DEF I, O, V, VI, VO
      <4> QED
        BY <3>3, <3>4, SumOne
    <3>8. Sum(w, U) = Sum(w, I) + Sum(w, O)
      <4> HIDE DEF I, O, V, VI, VO
      <4> QED
        BY <3>2, <3>3, <3>5, <3>6, <3>7
    <3> QED
      BY <3>8
  <2> QED
    BY <2>1, <2>2
<1>2. S \in G
  <2> HIDE DEF G
  <2> QED
    BY <1>1, SubsetInduction
<1>3. S \cap R = R
  OBVIOUS
<1> QED
  BY <1>2, <1>3

AtMost(a, b) == a.all <= b.all /\ a.recent <= b.recent

\* Totals of counts, with fewer repositories or smaller counts, and in two parts.
LEMMA TotalShape ==
  ASSUME NEW counts, NEW S
  PROVE  Total(counts, S) = [all |-> Total(counts, S).all, recent |-> Total(counts, S).recent]
BY DEF Total

LEMMA TotalCounts ==
  ASSUME NEW S, IsFiniteSet(S), NEW counts, \A r \in S : counts[r] \in Counts
  PROVE  Total(counts, S) \in Counts
<1>1. \A r \in S : All(counts, S)[r] \in Nat /\ Recently(counts, S)[r] \in Nat
  BY DEF Counts, All, Recently
<1>2. Sum(All(counts, S), S) \in Nat /\ Sum(Recently(counts, S), S) \in Nat
  BY <1>1, SumNumber
<1>3. Total(counts, S).all \in Nat /\ Total(counts, S).recent \in Nat
  BY <1>2, TotalAll, TotalRecent
<1> QED
  BY <1>3, TotalShape DEF Counts

LEMMA TotalNone == ASSUME NEW counts PROVE Total(counts, {}) = Zero
<1>1. IsFiniteSet({})
  BY FS_EmptySet
<1>2. Total(counts, {}).all = 0 /\ Total(counts, {}).recent = 0
  BY <1>1, TotalAll, TotalRecent, SumNone
<1> QED
  BY <1>2, TotalShape DEF Zero

LEMMA TotalAtMost ==
  ASSUME NEW S, IsFiniteSet(S), NEW R \in SUBSET S, NEW small, NEW large,
         \A r \in R : small[r] \in Counts /\ AtMost(small[r], large[r]),
         \A r \in S : large[r] \in Counts
  PROVE  AtMost(Total(small, R), Total(large, S))
<1> DEFINE a == [r \in S |-> IF r \in R THEN small[r].all ELSE 0]
           b == [r \in S |-> IF r \in R THEN small[r].recent ELSE 0]
<1>0. IsFiniteSet(R)
  BY FS_Subset
<1>1. /\ \A r \in R : All(small, R)[r] = a[r] /\ Recently(small, R)[r] = b[r]
      /\ \A r \in S : /\ a[r] \in Nat /\ All(large, S)[r] \in Nat /\ a[r] <= All(large, S)[r]
                      /\ b[r] \in Nat /\ Recently(large, S)[r] \in Nat
                      /\ b[r] <= Recently(large, S)[r]
  BY DEF All, Recently, Counts, AtMost
<1> HIDE DEF a, b
<1>2. Sum(All(small, R), R) = Sum(a, R) /\ Sum(Recently(small, R), R) = Sum(b, R)
  BY <1>0, <1>1, SumAgree
<1>3. Sum(a, R) <= Sum(All(large, S), S) /\ Sum(b, R) <= Sum(Recently(large, S), S)
  BY <1>1, SumAtMost
<1> QED
  BY <1>0, <1>2, <1>3, TotalAll, TotalRecent DEF AtMost

\* A total of all time grows with its counts, whatever the months do.
LEMMA TotalGrows ==
  ASSUME NEW S, IsFiniteSet(S), NEW small, NEW large,
         \A r \in S : small[r] \in Counts /\ large[r] \in Counts /\ small[r].all <= large[r].all
  PROVE  Total(small, S).all <= Total(large, S).all
<1>1. \A r \in S : /\ All(small, S)[r] \in Nat /\ All(large, S)[r] \in Nat
                   /\ All(small, S)[r] <= All(large, S)[r]
  BY DEF All, Counts
<1>2. S \in SUBSET S
  OBVIOUS
<1>3. Sum(All(small, S), S) <= Sum(All(large, S), S)
  BY <1>1, <1>2, SumAtMost
<1> QED
  BY <1>3, TotalAll

\* The months are no more than all time in a total if they are in its counts.
LEMMA TotalMonths ==
  ASSUME NEW S, IsFiniteSet(S), NEW counts,
         \A r \in S : counts[r] \in Counts /\ counts[r].recent <= counts[r].all
  PROVE  Total(counts, S).recent <= Total(counts, S).all
<1>1. \A r \in S : /\ Recently(counts, S)[r] \in Nat /\ All(counts, S)[r] \in Nat
                   /\ Recently(counts, S)[r] <= All(counts, S)[r]
  BY DEF All, Recently, Counts
<1>2. S \in SUBSET S
  OBVIOUS
<1>3. Sum(Recently(counts, S), S) <= Sum(All(counts, S), S)
  BY <1>1, <1>2, SumAtMost
<1> QED
  BY <1>3, TotalAll, TotalRecent

LEMMA TotalParts ==
  ASSUME NEW S, IsFiniteSet(S), NEW R \in SUBSET S, NEW counts, \A r \in S : counts[r] \in Counts
  PROVE  Total(counts, S).all = Total(counts, R).all + Total(counts, S \ R).all
<1> DEFINE w == All(counts, S)
           O == S \ R
<1>0. IsFiniteSet(R) /\ IsFiniteSet(O)
  BY FS_Subset
<1>1. /\ \A r \in S : w[r] \in Nat
      /\ \A r \in R : All(counts, R)[r] = w[r]
      /\ \A r \in O : All(counts, O)[r] = w[r]
  BY DEF All, Counts
<1>2. Sum(w, S) = Sum(w, R) + Sum(w, O)
  <2> HIDE DEF w
  <2> QED
    BY <1>1, SumParts
<1> HIDE DEF w, O
<1>3. Sum(All(counts, R), R) = Sum(w, R) /\ Sum(All(counts, O), O) = Sum(w, O)
  BY <1>0, <1>1, SumAgree
<1>4. Total(counts, S).all = Sum(w, S)
  BY TotalAll DEF w
<1>5. Total(counts, R).all = Sum(w, R) /\ Total(counts, O).all = Sum(w, O)
  BY <1>0, <1>3, TotalAll
<1> QED
  BY <1>2, <1>4, <1>5 DEF O
-----------------------------------------------------------------------------
(* The figures of an account.                                                 *)

Commits(repos) == {c \in [repos -> Counts] : \A r \in repos : c[r].recent <= c[r].all}
Github == [own : Commits(Own), team : Commits(Teams), prs : Nat]

FiguresTypeOK ==
  /\ github \in Github
  /\ renamed \in BOOLEAN
  /\ pushed \subseteq Own
  /\ row \in Row \cup {NoRow}
  /\ held \in [Syncs -> Held \cup {NoSync}]
  /\ pushes \in Nat

\* What a sync is about to store is no more than what GitHub has, and no lower than
\* what is stored but for what it says that it lost; before it has asked for the
\* counts of the repositories, it has none of them.
HeldTrue(s) ==
  held[s] # NoSync =>
    /\ Covered(held[s].row, github)
    /\ held[s].stage = "begun" => held[s].row # NoRow
    /\ NoLower(row, held[s].row,
               IF held[s].stage = "begun" THEN held[s].lost \cup {"counts"} ELSE held[s].lost)

FiguresInv == FiguresTypeOK /\ NeverMore /\ \A s \in Syncs : HeldTrue(s)

LEMMA Ordered ==
  ASSUME NEW a \in Counts, NEW b \in Counts, NEW c \in Counts
  PROVE  AtMost(a, a) /\ AtMost(Zero, a) /\ (AtMost(a, b) /\ AtMost(b, c) => AtMost(a, c))
BY DEF Counts, AtMost, Zero

LEMMA RowFields ==
  ASSUME NEW of \in Row
  PROVE  /\ of # NoRow
         /\ DOMAIN of.repos \subseteq Own
         /\ \A r \in DOMAIN of.repos : of.repos[r] \in Counts \cup {None}
         /\ \A r \in Own : Known(of, r) => of.repos[r] \in Counts
         /\ of.owned \in Counts \cup {None} /\ of.prs \in Nat /\ of.team \in Counts
<1>1. PICK s \in SUBSET Own : of.repos \in [s -> Counts \cup {None}]
  BY DEF Row
<1> QED
  BY <1>1, FiguresAssumption DEF Row, Known

LEMMA GithubFields ==
  ASSUME NEW g \in Github
  PROVE  /\ \A r \in Own : g.own[r] \in Counts /\ g.own[r].recent <= g.own[r].all
         /\ \A t \in Teams : g.team[t] \in Counts /\ g.team[t].recent <= g.team[t].all
         /\ g.prs \in Nat
         /\ Total(g.own, Own) \in Counts /\ Total(g.team, Teams) \in Counts
         /\ Total(g.own, Own).recent <= Total(g.own, Own).all
         /\ Total(g.team, Teams).recent <= Total(g.team, Teams).all
<1>1. /\ \A r \in Own : g.own[r] \in Counts /\ g.own[r].recent <= g.own[r].all
      /\ \A t \in Teams : g.team[t] \in Counts /\ g.team[t].recent <= g.team[t].all
      /\ g.prs \in Nat
  BY DEF Github, Commits
<1> QED
  BY <1>1, FiguresAssumption, TotalCounts, TotalMonths

\* What GitHub covers once it covers as long as no count of all time shrinks.
LEMMA CoveredLonger ==
  ASSUME NEW of \in Row \cup {NoRow}, NEW g \in Github, NEW h \in Github, Covered(of, g),
         \A r \in Own : g.own[r].all <= h.own[r].all,
         \A t \in Teams : g.team[t].all <= h.team[t].all, g.prs = h.prs
  PROVE  Covered(of, h)
<1>1. CASE of = NoRow
  BY <1>1 DEF Covered
<1>2. CASE of \in Row
  <2>1. /\ \A r \in Own : g.own[r] \in Counts /\ h.own[r] \in Counts
        /\ \A t \in Teams : g.team[t] \in Counts /\ h.team[t] \in Counts
        /\ Total(g.own, Own) \in Counts /\ Total(h.own, Own) \in Counts
        /\ Total(g.team, Teams) \in Counts /\ Total(h.team, Teams) \in Counts
    BY GithubFields
  <2>2. /\ Total(g.own, Own).all <= Total(h.own, Own).all
        /\ Total(g.team, Teams).all <= Total(h.team, Teams).all
    BY <2>1, TotalGrows, FiguresAssumption
  <2>3. \A r \in Own : Known(of, r) => /\ of.repos[r].all <= h.own[r].all
                                      /\ of.repos[r].recent <= of.repos[r].all
    BY <1>2, <2>1, RowFields DEF Covered, Counts
  <2>4. /\ of.owned # None => /\ of.owned.all <= Total(h.own, Own).all
                              /\ of.owned.recent <= of.owned.all
        /\ of.team.all <= Total(h.team, Teams).all /\ of.team.recent <= of.team.all
        /\ of.prs <= h.prs
    BY <1>2, <2>1, <2>2, RowFields DEF Covered, Counts
  <2> QED
    BY <2>3, <2>4 DEF Covered
<1> QED
  BY <1>1, <1>2

LEMMA FiguresInitially == FiguresInit => FiguresInv
<1> SUFFICES ASSUME FiguresInit PROVE FiguresInv
  OBVIOUS
<1>1. /\ github.own \in [Own -> {[all |-> 1, recent |-> 0]}]
      /\ github.team \in [Teams -> {[all |-> 1, recent |-> 1]}]
      /\ github = [own |-> github.own, team |-> github.team, prs |-> 1]
  BY DEF FiguresInit
<1>2. github.own \in Commits(Own) /\ github.team \in Commits(Teams)
  BY <1>1 DEF Commits, Counts
<1>3. github \in Github
  BY <1>1, <1>2 DEF Github
<1>4. \A s \in Syncs : held[s] = NoSync
  BY DEF FiguresInit
<1> QED
  BY <1>3, <1>4 DEF FiguresInit, FiguresInv, FiguresTypeOK, NeverMore, Covered, HeldTrue

\* A push, and a commit that leaves the window, make no count of all time smaller.
LEMMA RecountGrows ==
  ASSUME FiguresTypeOK, NEW r \in Own \cup Teams, Push(r) \/ Leave(r)
  PROVE  /\ github' \in Github /\ github'.prs = github.prs
         /\ \A o \in Own : github.own[o].all <= github'.own[o].all
         /\ \A t \in Teams : github.team[t].all <= github'.team[t].all
<1>0. /\ \A o \in Own : github.own[o] \in Counts /\ github.own[o].recent <= github.own[o].all
      /\ \A t \in Teams : github.team[t] \in Counts /\ github.team[t].recent <= github.team[t].all
      /\ github.own \in [Own -> Counts] /\ github.team \in [Teams -> Counts]
      /\ github = [own |-> github.own, team |-> github.team, prs |-> github.prs]
      /\ github.prs \in Nat
  BY DEF FiguresTypeOK, Github, Commits
<1> DEFINE now == IF r \in Own THEN github.own[r] ELSE github.team[r]
           more == [all |-> now.all + 1, recent |-> now.recent + 1]
           less == [now EXCEPT !.recent = @ - 1]
<1>1. now \in Counts /\ now.recent <= now.all
  BY <1>0
<1>2. PICK c \in Counts : /\ c.recent <= c.all /\ now.all <= c.all
                           /\ github' = IF r \in Own THEN [github EXCEPT !.own[r] = c]
                                                     ELSE [github EXCEPT !.team[r] = c]
  <2>1. CASE Push(r)
    <3>1. more \in Counts /\ more.recent <= more.all /\ now.all <= more.all
      BY <1>1 DEF Counts
    <3>2. github' = IF r \in Own THEN [github EXCEPT !.own[r] = more] ELSE [github EXCEPT !.team[r] = more]
      BY <2>1 DEF Push, Recount, CommitsOf
    <3> QED
      BY <3>1, <3>2
  <2>2. CASE Leave(r)
    <3>1. now.recent > 0
      BY <2>2 DEF Leave, CommitsOf
    <3>2. less \in Counts /\ less.recent <= less.all /\ now.all <= less.all
      BY <1>1, <3>1 DEF Counts
    <3>3. github' = IF r \in Own THEN [github EXCEPT !.own[r] = less] ELSE [github EXCEPT !.team[r] = less]
      BY <2>2 DEF Leave, Recount, CommitsOf
    <3> QED
      BY <3>2, <3>3
  <2> QED
    BY <2>1, <2>2
<1>3. CASE r \in Own
  <2>1. github' = [own |-> [github.own EXCEPT ![r] = c], team |-> github.team, prs |-> github.prs]
    BY <1>0, <1>2, <1>3
  <2>2. \A o \in Own : /\ github'.own[o] \in Counts /\ github'.own[o].recent <= github'.own[o].all
                       /\ github.own[o].all <= github'.own[o].all
    BY <1>0, <1>2, <1>3, <2>1 DEF Counts
  <2>3. github'.own \in Commits(Own) /\ github'.team \in Commits(Teams)
    BY <1>0, <2>1, <2>2 DEF Commits
  <2>4. \A t \in Teams : github.team[t].all <= github'.team[t].all
    BY <1>0, <2>1 DEF Counts
  <2> QED
    BY <1>0, <2>1, <2>2, <2>3, <2>4 DEF Github
<1>4. CASE r \notin Own
  <2>1. github' = [own |-> github.own, team |-> [github.team EXCEPT ![r] = c], prs |-> github.prs]
    BY <1>0, <1>2, <1>4
  <2>2. \A t \in Teams : /\ github'.team[t] \in Counts /\ github'.team[t].recent <= github'.team[t].all
                         /\ github.team[t].all <= github'.team[t].all
    BY <1>0, <1>2, <1>4, <2>1 DEF Counts
  <2>3. github'.own \in Commits(Own) /\ github'.team \in Commits(Teams)
    BY <1>0, <2>1, <2>2 DEF Commits
  <2>4. \A o \in Own : github.own[o].all <= github'.own[o].all
    BY <1>0, <2>1 DEF Counts
  <2> QED
    BY <1>0, <2>1, <2>2, <2>3, <2>4 DEF Github
<1> QED
  BY <1>3, <1>4

LEMMA RecountKeeps ==
  ASSUME FiguresInv, NEW r \in Own \cup Teams, Push(r) \/ Leave(r)
  PROVE  FiguresInv'
<1> USE DEF FiguresInv
<1>1. row' = row /\ renamed' = renamed /\ pushed' \subseteq Own /\ pushes' \in Nat
  BY DEF Push, Leave, Recount, FiguresTypeOK
<1>2. /\ held' \in [Syncs -> Held \cup {NoSync}]
      /\ \A s \in Syncs : held'[s] # NoSync =>
            /\ held[s] # NoSync
            /\ held'[s].row = held[s].row /\ held'[s].stage = held[s].stage /\ held'[s].lost = held[s].lost
  <2>1. CASE Leave(r)
    BY <2>1 DEF Leave, FiguresTypeOK
  <2>2. CASE Push(r)
    <3>1. \A s \in Syncs : held'[s] = IF held[s] = NoSync THEN NoSync
                                      ELSE [held[s] EXCEPT !.since = @ \cup ({r} \cap Own)]
      BY <2>2 DEF Push
    <3>2. held' = [s \in Syncs |-> held'[s]]
      BY <2>2 DEF Push
    <3>3. ASSUME NEW s \in Syncs, held[s] # NoSync
          PROVE  /\ held'[s] \in Held /\ held'[s].row = held[s].row
                 /\ held'[s].stage = held[s].stage /\ held'[s].lost = held[s].lost
      <4>1. held[s] \in Held
        BY <3>3 DEF FiguresTypeOK
      <4>2. held[s] = [stage |-> held[s].stage, row |-> held[s].row, seen |-> held[s].seen,
                       since |-> held[s].since, lost |-> held[s].lost]
        BY <4>1 DEF Held
      <4>3. held'[s] = [stage |-> held[s].stage, row |-> held[s].row, seen |-> held[s].seen,
                        since |-> held[s].since \cup ({r} \cap Own), lost |-> held[s].lost]
        BY <3>1, <3>3, <4>2
      <4> QED
        BY <4>1, <4>3 DEF Held
    <3> QED
      BY <3>1, <3>2, <3>3
  <2> QED
    BY <2>1, <2>2
<1>3. FiguresTypeOK'
  BY <1>1, <1>2, RecountGrows DEF FiguresTypeOK
<1>4. NeverMore'
  <2>1. Covered(row, github')
    BY RecountGrows, CoveredLonger DEF FiguresTypeOK, NeverMore
  <2> QED
    BY <1>1, <2>1 DEF NeverMore
<1>5. ASSUME NEW s \in Syncs PROVE HeldTrue(s)'
  <2>1. CASE held'[s] = NoSync
    BY <2>1 DEF HeldTrue
  <2>2. CASE held'[s] # NoSync
    <3>1. held[s] \in Held /\ held[s] # NoSync
      BY <1>2, <2>2 DEF FiguresTypeOK
    <3>2. held[s].row \in Row \cup {NoRow}
      BY <3>1 DEF Held
    <3>3. Covered(held[s].row, github')
      BY <3>1, <3>2, RecountGrows, CoveredLonger DEF FiguresTypeOK, HeldTrue
    <3> QED
      BY <1>1, <1>2, <2>2, <3>1, <3>3 DEF HeldTrue, NoLower
  <2> QED
    BY <2>1, <2>2
<1> QED
  BY <1>3, <1>4, <1>5

\* Whatever events tell and whatever was listed, no commit of a team is counted
\* twice: a repository counts its listed commits, or else its events.
LEMMA ReconciledOnce ==
  ASSUME FiguresTypeOK, NEW feed \in Feeds, NEW got \in SUBSET Teams
  PROVE  LET team == Reconciled(feed, got)
         IN  /\ team \in Counts /\ AtMost(team, Total(github.team, Teams))
             /\ team.recent <= team.all
<1>1. \A t \in Teams : github.team[t] \in Counts /\ github.team[t].recent <= github.team[t].all
  BY DEF FiguresTypeOK, Github, Commits
<1>2. PICK s \in SUBSET Teams, telling \in SUBSET Teams :
         feed = [t \in s |-> IF t \in telling THEN github.team[t] ELSE Zero]
  BY DEF Feeds
<1> DEFINE by == DOMAIN feed \cap got
           rest == s \ by
           others == Teams \ by
<1>3. DOMAIN feed = s
  BY <1>2
<1>4. \A t \in s : /\ feed[t] \in Counts /\ feed[t].recent <= feed[t].all
                   /\ AtMost(feed[t], github.team[t])
  BY <1>1, <1>2 DEF Counts, Zero, AtMost
<1>5. /\ IsFiniteSet(s) /\ IsFiniteSet(by) /\ IsFiniteSet(rest) /\ IsFiniteSet(others)
      /\ IsFiniteSet(Teams)
  BY <1>3, FiguresAssumption, FS_Subset
<1>6. by \in SUBSET Teams /\ rest \in SUBSET s /\ rest \in SUBSET others /\ others \in SUBSET Teams
  BY <1>3
<1>7. CASE by = {}
  <2>1. Reconciled(feed, got) = Total(feed, s)
    BY <1>3, <1>7 DEF Reconciled
  <2>2. AtMost(Total(feed, s), Total(github.team, Teams))
    BY <1>1, <1>4, <1>5, TotalAtMost
  <2>3. Total(feed, s) \in Counts /\ Total(feed, s).recent <= Total(feed, s).all
    BY <1>4, <1>5, TotalCounts, TotalMonths
  <2> QED
    BY <2>1, <2>2, <2>3
<1>8. CASE by # {}
  <2> DEFINE listed == Total(github.team, by)
             told == Total(feed, rest)
             left == Total(github.team, others)
             every == Total(github.team, Teams)
  <2>1. Reconciled(feed, got) = [all |-> listed.all + told.all, recent |-> listed.recent]
    BY <1>3, <1>8 DEF Reconciled
  <2> HIDE DEF by, rest, others
  <2>2. every.all = listed.all + left.all
    BY <1>1, <1>5, <1>6, TotalParts DEF others
  <2>3. AtMost(told, left)
    BY <1>1, <1>4, <1>5, <1>6, TotalAtMost
  <2>4. AtMost(listed, every) /\ listed.recent <= listed.all
    <3>1. \A t \in by : AtMost(github.team[t], github.team[t])
      BY <1>1, <1>6 DEF Counts, AtMost
    <3>2. AtMost(listed, every)
      BY <1>1, <1>5, <1>6, <3>1, TotalAtMost
    <3>3. listed.recent <= listed.all
      BY <1>1, <1>5, <1>6, TotalMonths
    <3> QED
      BY <3>2, <3>3
  <2>5. listed \in Counts /\ told \in Counts /\ left \in Counts /\ every \in Counts
    BY <1>1, <1>4, <1>5, <1>6, TotalCounts
  <2> HIDE DEF listed, told, left, every
  <2>6. LET team == [all |-> listed.all + told.all, recent |-> listed.recent]
        IN  team \in Counts /\ AtMost(team, every) /\ team.recent <= team.all
    BY <2>2, <2>3, <2>4, <2>5 DEF Counts, AtMost
  <2> QED
    BY <2>1, <2>6 DEF every
<1> QED
  BY <1>7, <1>8

LEMMA TeamTrue ==
  ASSUME FiguresTypeOK, NEW ok \in BOOLEAN, NEW team \in Team(ok)
  PROVE  /\ team \in Counts /\ AtMost(team, Total(github.team, Teams))
         /\ team.recent <= team.all
<1>1. CASE ok
  <2>1. PICK feed \in Feeds, got \in SUBSET Teams : team = Reconciled(feed, got)
    BY <1>1 DEF Team
  <2> QED
    BY <2>1, ReconciledOnce
<1>2. CASE ~ok
  <2>1. team = Zero
    BY <1>2 DEF Team
  <2>2. Zero \in Counts /\ Zero.recent <= Zero.all
    BY DEF Zero, Counts
  <2> QED
    BY <2>1, <2>2, GithubFields, Ordered DEF FiguresTypeOK
<1> QED
  BY <1>1, <1>2

\* The repositories that were answered have the counts of GitHub, the others none;
\* nothing is short only if every repository was answered.
LEMMA OwnedTrue ==
  ASSUME FiguresTypeOK, NEW ok \in BOOLEAN, NEW owned \in OwnedFrom(Listed(ok))
  PROVE  /\ owned.repos \in [Listed(ok) -> Counts]
         /\ \A r \in Listed(ok) : /\ AtMost(owned.repos[r], github.own[r])
                                 /\ owned.repos[r].recent <= owned.repos[r].all
         /\ owned.total \in Counts /\ AtMost(owned.total, Total(github.own, Own))
         /\ owned.total.recent <= owned.total.all
         /\ ok /\ ~owned.short => /\ \A r \in Own : owned.repos[r] = github.own[r]
                                  /\ owned.total = Total(github.own, Own)
<1>1. \A r \in Own : github.own[r] \in Counts /\ github.own[r].recent <= github.own[r].all
  BY DEF FiguresTypeOK, Github, Commits
<1>2. PICK fetch \in Fetch(Own) : owned = OwnedBy(Listed(ok), fetch)
  BY DEF OwnedFrom
<1> DEFINE answered == Listed(ok) \cap fetch.got
<1>3. /\ owned.repos = [r \in Listed(ok) |-> IF r \in fetch.got THEN github.own[r] ELSE Zero]
      /\ owned.total = IF fetch.cut THEN Zero ELSE Total(github.own, answered)
      /\ owned.short = (Listed(ok) # {} /\ (fetch.cut \/ ~(Listed(ok) \subseteq fetch.got)))
  BY <1>2 DEF OwnedBy
<1>4. Listed(ok) \in SUBSET Own /\ (ok => Listed(ok) = Own)
  BY DEF Listed
<1>5. /\ answered \in SUBSET Own /\ IsFiniteSet(answered) /\ IsFiniteSet(Own)
      /\ \A r \in answered : AtMost(github.own[r], github.own[r])
  <2>1. answered \in SUBSET Own
    BY <1>4
  <2> QED
    BY <1>1, <2>1, FiguresAssumption, FS_Subset DEF Counts, AtMost
<1>6. Zero \in Counts /\ Zero.recent <= Zero.all
  BY DEF Zero, Counts
<1>7. /\ owned.repos \in [Listed(ok) -> Counts]
      /\ \A r \in Listed(ok) : /\ AtMost(owned.repos[r], github.own[r])
                              /\ owned.repos[r].recent <= owned.repos[r].all
  BY <1>1, <1>3, <1>4, <1>6, Ordered DEF AtMost
<1>8. /\ Total(github.own, answered) \in Counts
      /\ AtMost(Total(github.own, answered), Total(github.own, Own))
      /\ Total(github.own, answered).recent <= Total(github.own, answered).all
  <2> HIDE DEF answered
  <2>1. \A r \in answered : github.own[r] \in Counts /\ github.own[r].recent <= github.own[r].all
    BY <1>1, <1>5
  <2> QED
    BY <1>1, <1>5, <2>1, TotalCounts, TotalAtMost, TotalMonths
<1>9. /\ owned.total \in Counts /\ AtMost(owned.total, Total(github.own, Own))
      /\ owned.total.recent <= owned.total.all
  <2> HIDE DEF answered
  <2> QED
    BY <1>3, <1>6, <1>8, GithubFields, Ordered DEF FiguresTypeOK
<1>10. ASSUME ok, ~owned.short PROVE /\ \A r \in Own : owned.repos[r] = github.own[r]
                                     /\ owned.total = Total(github.own, Own)
  <2>1. CASE Own = {}
    <3>1. answered = {}
      BY <1>4, <2>1
    <3>2. Total(github.own, answered) = Zero /\ Total(github.own, Own) = Zero
      BY <2>1, <3>1, TotalNone
    <3> QED
      BY <1>3, <2>1, <3>2
  <2>2. CASE Own # {}
    <3>1. ~fetch.cut /\ answered = Own
      BY <1>3, <1>4, <1>10, <2>2
    <3> QED
      BY <1>3, <1>4, <1>10, <3>1
  <2> QED
    BY <2>1, <2>2
<1> QED
  BY <1>7, <1>9, <1>10

-----------------------------------------------------------------------------
(* The steps of the syncs.                                                    *)

\* What a sync takes up.
LEMMA HoldKeeps ==
  ASSUME FiguresInv, NEW s \in Syncs, NEW stage \in {"begun", "ready"}, NEW to \in Row \cup {NoRow},
         NEW seen \in SUBSET Own, NEW lost \in SUBSET Losses, Hold(s, stage, to, seen, lost),
         Covered(to, github), stage = "begun" => to # NoRow,
         NoLower(row, to, IF stage = "begun" THEN lost \cup {"counts"} ELSE lost),
         UNCHANGED <<github, renamed, pushed, row, pushes>>
  PROVE  FiguresInv'
<1> USE DEF FiguresInv
<1> DEFINE h == [stage |-> stage, row |-> to, seen |-> seen, since |-> {}, lost |-> lost]
<1>1. h \in Held
  BY DEF Held
<1>2. held' = [held EXCEPT ![s] = h]
  BY DEF Hold
<1>3. held'[s] = h /\ \A t \in Syncs \ {s} : held'[t] = held[t]
  BY <1>2 DEF FiguresTypeOK
<1>4. FiguresTypeOK'
  BY <1>1, <1>2 DEF FiguresTypeOK
<1>5. NeverMore'
  BY DEF NeverMore, Covered
<1>6. HeldTrue(s)'
  BY <1>3 DEF HeldTrue, NoLower, Covered
<1>7. ASSUME NEW t \in Syncs \ {s} PROVE HeldTrue(t)'
  BY <1>3 DEF HeldTrue, NoLower, Covered
<1> QED
  BY <1>4, <1>5, <1>6, <1>7

LEMMA HeavyKeeps ==
  ASSUME FiguresInv, NEW s \in Syncs, NEW listOk \in BOOLEAN, NEW contribOk \in BOOLEAN,
         NEW teamOk \in BOOLEAN, HeavyFetch(s, listOk, contribOk, teamOk)
  PROVE  FiguresInv'
<1> USE DEF FiguresInv
<1>1. PICK owned \in OwnedFrom(Listed(listOk)), team \in Team(teamOk) :
         Hold(s, "ready",
              [repos |-> IF renamed THEN <<>> ELSE owned.repos,
               owned |-> owned.total,
               prs   |-> Contributions(contribOk),
               team  |-> team],
              {}, {k \in Losses : \/ k = "repos" /\ ~listOk
                                  \/ k = "owned" /\ owned.short
                                  \/ k = "contrib" /\ ~contribOk})
  BY DEF HeavyFetch
<1> DEFINE repos == IF renamed THEN <<>> ELSE owned.repos
           to == [repos |-> repos, owned |-> owned.total, prs |-> Contributions(contribOk), team |-> team]
           lost == {k \in Losses : \/ k = "repos" /\ ~listOk
                                   \/ k = "owned" /\ owned.short
                                   \/ k = "contrib" /\ ~contribOk}
<1>2. /\ owned.repos \in [Listed(listOk) -> Counts]
      /\ \A r \in Listed(listOk) : AtMost(owned.repos[r], github.own[r])
      /\ \A r \in Listed(listOk) : owned.repos[r].recent <= owned.repos[r].all
      /\ owned.total \in Counts /\ AtMost(owned.total, Total(github.own, Own))
      /\ owned.total.recent <= owned.total.all
      /\ listOk /\ ~owned.short => /\ \A r \in Own : owned.repos[r] = github.own[r]
                                   /\ owned.total = Total(github.own, Own)
  BY OwnedTrue
<1>3. /\ team \in Counts /\ AtMost(team, Total(github.team, Teams))
      /\ team.recent <= team.all
  BY TeamTrue
<1>4. Contributions(contribOk) \in Nat /\ Contributions(contribOk) <= github.prs
  BY GithubFields DEF Contributions, FiguresTypeOK
<1>5. Listed(listOk) \in SUBSET Own /\ (listOk => Listed(listOk) = Own)
  BY DEF Listed
<1>6. repos \in UNION {[d -> Counts \cup {None}] : d \in SUBSET Own}
  <2>1. CASE renamed
    <3>1. repos \in [{} -> Counts \cup {None}]
      BY <2>1
    <3> QED
      BY <3>1
  <2>2. CASE ~renamed
    <3>1. repos \in [Listed(listOk) -> Counts \cup {None}]
      BY <1>2, <2>2
    <3> QED
      BY <1>5, <3>1
  <2> QED
    BY <2>1, <2>2
<1>7. to \in Row
  BY <1>2, <1>3, <1>4, <1>6 DEF Row
<1>8. Covered(to, github)
  <2>1. renamed => DOMAIN repos = {}
    OBVIOUS
  <2>2. ~renamed => repos = owned.repos /\ DOMAIN repos = Listed(listOk)
    BY <1>2
  <2>3. \A r \in Own : Known(to, r) => /\ to.repos[r].all <= github.own[r].all
                                      /\ to.repos[r].recent <= to.repos[r].all
    BY <1>2, <2>1, <2>2 DEF Known, AtMost
  <2> QED
    BY <1>2, <1>3, <1>4, <2>3 DEF Covered, AtMost
<1>9. NoLower(row, to, lost)
  <2>1. ASSUME row # NoRow, lost \cap {"repos", "owned"} = {}
        PROVE  /\ ~renamed => \A r \in Own : Known(row, r) =>
                                  Known(to, r) /\ row.repos[r].all <= to.repos[r].all
               /\ row.owned # None => to.owned # None /\ row.owned.all <= to.owned.all
    <3>1. listOk /\ ~owned.short
      <4>1. "repos" \in Losses /\ "owned" \in Losses
        BY DEF Losses
      <4> QED
        BY <2>1, <4>1
    <3>2. /\ \A r \in Own : owned.repos[r] = github.own[r] /\ owned.repos[r] \in Counts
          /\ DOMAIN owned.repos = Own
          /\ owned.total = Total(github.own, Own)
      BY <1>2, <1>5, <3>1
    <3>3. ~renamed => \A r \in Own : Known(row, r) =>
                         Known(to, r) /\ row.repos[r].all <= to.repos[r].all
      BY <1>7, <2>1, <3>2, RowFields, FiguresAssumption DEF Known, NeverMore, Covered
    <3>4. row.owned # None => to.owned # None /\ row.owned.all <= to.owned.all
      BY <1>2, <2>1, <3>2, FiguresAssumption DEF NeverMore, Covered
    <3> QED
      BY <3>3, <3>4
  <2>2. ASSUME row # NoRow, "contrib" \notin lost PROVE row.prs <= to.prs
    <3>1. contribOk
      BY <2>2 DEF Losses
    <3> QED
      BY <2>2, <3>1 DEF Contributions, NeverMore, Covered
  <2> HIDE DEF to, lost
  <2> QED
    BY <2>1, <2>2 DEF NoLower
<1>10. UNCHANGED <<github, renamed, pushed, row, pushes>>
  BY DEF HeavyFetch
<1>11. lost \in SUBSET Losses /\ Hold(s, "ready", to, {}, lost)
  BY <1>1
<1> HIDE DEF to, lost
<1> QED
  BY <1>7, <1>8, <1>9, <1>10, <1>11, HoldKeeps

LEMMA FailsKeeps == ASSUME FiguresInv, NEW s \in Syncs, Fails(s) PROVE FiguresInv'
<1>1. NoLower(row, NoRow, Losses)
  BY DEF NoLower, Losses
<1>2. Covered(NoRow, github)
  BY DEF Covered
<1>3. Hold(s, "ready", NoRow, {}, Losses) /\ UNCHANGED <<github, renamed, pushed, row, pushes>>
  BY DEF Fails
<1> QED
  BY <1>1, <1>2, <1>3, HoldKeeps

LEMMA BeginKeeps ==
  ASSUME FiguresInv, NEW s \in Syncs, NEW ok \in BOOLEAN, LightBegin(s, ok)
  PROVE  FiguresInv'
<1> USE DEF FiguresInv
<1> DEFINE to == [repos |-> <<>>,
                  owned |-> IF Read(ok) = NoRow THEN None ELSE row.owned,
                  prs   |-> IF Read(ok) = NoRow THEN 0 ELSE row.prs,
                  team  |-> IF Read(ok) = NoRow THEN Zero ELSE row.team]
           lost == IF ok THEN {} ELSE {"figures"}
<1>1. /\ Hold(s, "begun", to, pushed, lost)
      /\ UNCHANGED <<github, renamed, pushed, row, pushes>>
  BY DEF LightBegin
<1>2. <<>> \in UNION {[d -> Counts \cup {None}] : d \in SUBSET Own}
  <2>1. <<>> \in [{} -> Counts \cup {None}]
    OBVIOUS
  <2> QED
    BY <2>1
<1>3. Read(ok) # NoRow => ok /\ row \in Row
  BY DEF Read, FiguresTypeOK
<1>4. Zero \in Counts /\ Zero.recent <= Zero.all /\ Zero.all = 0
  BY DEF Zero, Counts
<1>5. to \in Row
  <2>1. to.owned \in Counts \cup {None} /\ to.prs \in Nat /\ to.team \in Counts
    BY <1>3, <1>4, RowFields
  <2> QED
    BY <1>2, <2>1 DEF Row
<1>6. Covered(to, github)
  <2>1. \A r \in Own : ~Known(to, r)
    BY DEF Known
  <2>2. 0 <= Total(github.own, Own).all /\ 0 <= Total(github.team, Teams).all /\ 0 <= github.prs
    BY GithubFields DEF FiguresTypeOK, Counts
  <2>3. CASE Read(ok) = NoRow
    BY <1>4, <2>1, <2>2, <2>3 DEF Covered
  <2>4. CASE Read(ok) # NoRow
    <3>1. row # NoRow
      BY <2>4 DEF Read
    <3>2. to.owned = row.owned /\ to.prs = row.prs /\ to.team = row.team
      BY <2>4
    <3> HIDE DEF to
    <3> QED
      BY <2>1, <3>1, <3>2 DEF Covered, NeverMore
  <2> QED
    BY <2>3, <2>4
<1>7. NoLower(row, to, lost \cup {"counts"})
  <2>1. ASSUME row # NoRow, "figures" \notin lost
        PROVE  to.owned = row.owned /\ to.prs = row.prs
    BY <2>1 DEF Read
  <2>2. row # NoRow => row.prs \in Nat /\ row.owned \in Counts \cup {None}
    BY RowFields DEF FiguresTypeOK
  <2> HIDE DEF to, lost
  <2> QED
    BY <2>1, <2>2 DEF NoLower, Counts
<1>8. to # NoRow /\ lost \in SUBSET Losses /\ pushed \in SUBSET Own
  BY <1>5, FiguresAssumption DEF Losses, FiguresTypeOK
<1> HIDE DEF to, lost
<1> QED
  BY <1>1, <1>5, <1>6, <1>7, <1>8, HoldKeeps

LEMMA CountKeeps ==
  ASSUME FiguresInv, NEW s \in Syncs, NEW ok \in BOOLEAN, NEW got \in SUBSET Own,
         LightCount(s, ok, got)
  PROVE  FiguresInv'
<1> USE DEF FiguresInv
<1> DEFINE seen == held[s].seen \cap pushed
           repos == [r \in Own |-> Carried(Read(ok), r, got, seen)]
           to == [held[s].row EXCEPT !.repos = repos]
           lost == IF ok THEN held[s].lost ELSE held[s].lost \cup {"counts"}
           h == [stage |-> "ready", row |-> to, seen |-> {}, since |-> held[s].since, lost |-> lost]
<1>1. held[s] \in Held /\ held[s].stage = "begun" /\ held[s] # NoSync
  BY DEF LightCount, FiguresTypeOK
<1>2. held[s].row \in Row /\ HeldTrue(s)
  BY <1>1 DEF HeldTrue, Held
<1>3. UNCHANGED <<github, renamed, pushed, row, pushes>>
  BY DEF LightCount
<1>4. held' = [held EXCEPT ![s] = h]
  BY <1>1 DEF LightCount
<1>5. held'[s] = h /\ \A t \in Syncs \ {s} : held'[t] = held[t]
  BY <1>4 DEF FiguresTypeOK
<1>6. \A r \in Own : github.own[r] \in Counts /\ github.own[r].recent <= github.own[r].all
  BY GithubFields DEF FiguresTypeOK
<1>7. Read(ok) \in Row \cup {NoRow} /\ Covered(Read(ok), github)
  BY DEF Read, FiguresTypeOK, NeverMore, Covered
<1>8. \A r \in Own : /\ repos[r] \in Counts \cup {None}
                     /\ repos[r] # None => /\ repos[r].all <= github.own[r].all
                                            /\ repos[r].recent <= repos[r].all
  <2> TAKE r \in Own
  <2>1. \/ repos[r] = github.own[r]
        \/ Known(Read(ok), r) /\ repos[r] = Read(ok).repos[r]
        \/ repos[r] = None
    BY DEF Carried
  <2>2. Known(Read(ok), r) => /\ Read(ok).repos[r] \in Counts
                              /\ Read(ok).repos[r].all <= github.own[r].all
                              /\ Read(ok).repos[r].recent <= Read(ok).repos[r].all
    BY <1>7, RowFields DEF Known, Covered
  <2> HIDE DEF repos
  <2> QED
    BY <1>6, <2>1, <2>2 DEF Counts
<1>9. repos \in [Own -> Counts \cup {None}]
  BY <1>8
<1>10. /\ to = [repos |-> repos, owned |-> held[s].row.owned, prs |-> held[s].row.prs, team |-> held[s].row.team]
       /\ to \in Row
  <2> HIDE DEF repos
  <2>1. to = [repos |-> repos, owned |-> held[s].row.owned, prs |-> held[s].row.prs, team |-> held[s].row.team]
    BY <1>2 DEF Row
  <2> QED
    BY <1>2, <1>9, <2>1, RowFields DEF Row
<1>11. Covered(to, github)
  <2>1. held[s].row # NoRow
    BY <1>2, FiguresAssumption
  <2>2. \A r \in Own : Known(to, r) => /\ to.repos[r].all <= github.own[r].all
                                      /\ to.repos[r].recent <= to.repos[r].all
    <3> HIDE DEF repos
    <3> QED
      BY <1>8, <1>10 DEF Known
  <2> HIDE DEF to
  <2> QED
    BY <1>1, <1>2, <1>10, <2>1, <2>2 DEF Covered, HeldTrue
<1>12. NoLower(row, to, lost)
  <2>1. NoLower(row, held[s].row, held[s].lost \cup {"counts"})
    BY <1>1, <1>2 DEF HeldTrue
  <2>2. ASSUME row # NoRow, "counts" \notin lost, NEW r \in Own, Known(row, r)
        PROVE  Known(to, r) /\ row.repos[r].all <= to.repos[r].all
    <3>1. Read(ok) = row
      BY <2>2 DEF Read
    <3>2. repos[r] = github.own[r] \/ repos[r] = row.repos[r]
      BY <2>2, <3>1 DEF Carried
    <3>3. row.repos[r] \in Counts /\ row.repos[r].all <= github.own[r].all
      BY <2>2, RowFields DEF NeverMore, Covered, FiguresTypeOK
    <3>4. repos[r] # None /\ row.repos[r].all <= repos[r].all
      <4> HIDE DEF repos
      <4> QED
        BY <1>6, <3>2, <3>3, FiguresAssumption DEF Counts
    <3>5. DOMAIN to.repos = Own /\ to.repos = repos /\ to # NoRow
      BY <1>10, FiguresAssumption
    <3> HIDE DEF repos, to
    <3> QED
      BY <3>4, <3>5 DEF Known
  <2>3. to.owned = held[s].row.owned /\ to.prs = held[s].row.prs
    BY <1>10
  <2>4. held[s].lost \subseteq lost
    OBVIOUS
  <2> HIDE DEF to, lost
  <2> QED
    BY <2>1, <2>2, <2>3, <2>4 DEF NoLower
<1>13. h \in Held
  BY <1>1, <1>10 DEF Held, Losses
<1>14. FiguresTypeOK'
  BY <1>3, <1>4, <1>13 DEF FiguresTypeOK
<1>15. NeverMore'
  BY <1>3 DEF NeverMore, Covered
<1>16. HeldTrue(s)'
  <2> HIDE DEF to, lost
  <2> QED
    BY <1>3, <1>5, <1>11, <1>12 DEF HeldTrue, NoLower, Covered
<1>17. ASSUME NEW t \in Syncs \ {s} PROVE HeldTrue(t)'
  <2> HIDE DEF h
  <2> QED
    BY <1>3, <1>5 DEF HeldTrue, NoLower, Covered
<1> QED
  BY <1>14, <1>15, <1>16, <1>17

LEMMA StoreKeeps == ASSUME FiguresInv, NEW s \in Syncs, Store(s) PROVE FiguresInv'
<1> USE DEF FiguresInv
<1>1. held[s] \in Held /\ held[s] # NoSync /\ row' = held[s].row /\ pushed' = held[s].since
  BY DEF Store, FiguresTypeOK
<1>2. UNCHANGED <<github, renamed, pushes>>
  BY DEF Store
<1>3. NeverMore'
  BY <1>1, <1>2 DEF NeverMore, HeldTrue, Covered
<1>4. \A t \in Syncs : held'[t] = IF t = s \/ held[t] = NoSync THEN NoSync
                                  ELSE [held[t] EXCEPT !.lost = @ \cup {"overtaken"}]
  BY DEF Store
<1>5. ASSUME NEW t \in Syncs, held'[t] # NoSync
      PROVE  /\ held[t] # NoSync /\ held'[t] \in Held
             /\ held'[t].row = held[t].row /\ held'[t].stage = held[t].stage
             /\ held'[t].lost = held[t].lost \cup {"overtaken"}
  <2>1. held[t] \in Held /\ held[t] # NoSync
    BY <1>4, <1>5 DEF FiguresTypeOK
  <2>2. held[t] = [stage |-> held[t].stage, row |-> held[t].row, seen |-> held[t].seen,
                   since |-> held[t].since, lost |-> held[t].lost]
    BY <2>1 DEF Held
  <2>3. held'[t] = [stage |-> held[t].stage, row |-> held[t].row, seen |-> held[t].seen,
                    since |-> held[t].since, lost |-> held[t].lost \cup {"overtaken"}]
    BY <1>4, <1>5, <2>2
  <2> QED
    BY <2>1, <2>3 DEF Held, Losses
<1>6. FiguresTypeOK'
  <2>1. held' = [t \in Syncs |-> held'[t]]
    BY DEF Store
  <2>2. held' \in [Syncs -> Held \cup {NoSync}]
    BY <1>5, <2>1
  <2> QED
    BY <1>1, <1>2, <2>2 DEF FiguresTypeOK, Held
<1>7. ASSUME NEW t \in Syncs PROVE HeldTrue(t)'
  <2>1. CASE held'[t] = NoSync
    BY <2>1 DEF HeldTrue
  <2>2. CASE held'[t] # NoSync
    <3>1. Covered(held'[t].row, github') /\ (held'[t].stage = "begun" => held'[t].row # NoRow)
      BY <1>2, <1>5, <2>2 DEF HeldTrue, Covered
    <3>2. "overtaken" \in held'[t].lost
      BY <1>5, <2>2
    <3>3. NoLower(row, held[t].row,
                  IF held[t].stage = "begun" THEN held[t].lost \cup {"counts"} ELSE held[t].lost)'
      BY <3>2 DEF NoLower
    <3> QED
      BY <3>1, <3>3 DEF HeldTrue
  <2> QED
    BY <2>1, <2>2
<1> QED
  BY <1>3, <1>6, <1>7

LEMMA GiveUpKeeps == ASSUME FiguresInv, NEW s \in Syncs, GiveUp(s) PROVE FiguresInv'
<1> USE DEF FiguresInv
<1>1. /\ UNCHANGED <<github, renamed, pushed, row, pushes>>
      /\ held' = [held EXCEPT ![s] = NoSync]
  BY DEF GiveUp
<1>2. \A t \in Syncs : held'[t] = IF t = s THEN NoSync ELSE held[t]
  BY <1>1 DEF FiguresTypeOK
<1>3. FiguresTypeOK' /\ NeverMore'
  BY <1>1 DEF FiguresTypeOK, NeverMore, Covered
<1>4. ASSUME NEW t \in Syncs PROVE HeldTrue(t)'
  BY <1>1, <1>2 DEF HeldTrue, NoLower, Covered
<1> QED
  BY <1>3, <1>4

LEMMA FiguresStep == FiguresInv /\ [FiguresNext]_figureVars => FiguresInv'
<1> SUFFICES ASSUME FiguresInv, [FiguresNext]_figureVars PROVE FiguresInv'
  OBVIOUS
<1> USE DEF Syncs
<1>1. CASE \E r \in Own \cup Teams : Push(r) \/ Leave(r)
  BY <1>1, RecountKeeps
<1>2. CASE \E s \in Heavies : Heavy(s)
  BY <1>2, HeavyKeeps, FailsKeeps DEF Heavy
<1>3. CASE \E s \in Lights : Light(s)
  BY <1>3, BeginKeeps, CountKeeps, FailsKeeps DEF Light
<1>4. CASE \E s \in Syncs : Store(s) \/ GiveUp(s)
  BY <1>4, StoreKeeps, GiveUpKeeps
<1>5. CASE UNCHANGED figureVars
  BY <1>5 DEF figureVars, FiguresInv, FiguresTypeOK, NeverMore, Covered, HeldTrue, NoLower
<1> QED
  BY <1>1, <1>2, <1>3, <1>4, <1>5 DEF FiguresNext

\* Whatever an account owns and pushes to, whichever fetches and reads fail and
\* however its syncs overlap, the table keeps the types of its figures
\* (build_dashboard_df, _student_row).
THEOREM FiguresTyped == FiguresSpec => []FiguresTypeOK
<1>1. FiguresInv => FiguresTypeOK
  BY DEF FiguresInv
<1> QED
  BY <1>1, FiguresInitially, FiguresStep, PTL DEF FiguresSpec

\* No figure of the table is more than what GitHub has of all time: no subset of
\* failed fetches, cut-off listings and carried-over counts adds a commit twice, and no
\* month count is more than its count of all time.
THEOREM FiguresTrue == FiguresSpec => []NeverMore
<1>1. FiguresInv => NeverMore
  BY DEF FiguresInv
<1> QED
  BY <1>1, FiguresInitially, FiguresStep, PTL DEF FiguresSpec
-----------------------------------------------------------------------------
(* What a step may lower.                                                     *)

Lowers == row' # row => \E s \in Syncs : /\ held[s] # NoSync /\ held'[s] = NoSync
                                         /\ NoLower(row, row', held[s].lost)

\* Only what a sync held is stored, and that was no lower when it was.
LEMMA StoreLowers == ASSUME FiguresInv, NEW s \in Syncs, Store(s) PROVE Lowers
<1>1. held[s] # NoSync /\ held[s].stage = "ready" /\ row' = held[s].row /\ held'[s] = NoSync
  BY DEF Store
<1>2. NoLower(row, held[s].row, held[s].lost)
  BY <1>1 DEF FiguresInv, HeldTrue
<1> QED
  BY <1>1, <1>2 DEF Lowers

LEMMA LoweredStep == FiguresInv /\ [FiguresNext]_figureVars => Lowers
<1> SUFFICES ASSUME FiguresInv, [FiguresNext]_figureVars, row' # row PROVE Lowers
  BY DEF Lowers
<1>1. \E s \in Syncs : Store(s)
  BY DEF FiguresNext, figureVars, Push, Leave, Heavy, Light, HeavyFetch, Fails, LightBegin, LightCount, GiveUp
<1> QED
  BY <1>1, StoreLowers

\* A count, a total or the pull requests of a row go down only when a sync stores that
\* did not fetch them, did not read them back, or was overtaken
\* (_carry_forward_repo_commits, sync_heavy_one).
THEOREM OnlyMissesLower == FiguresSpec => LoweredOnlyByMiss
<1>1. FiguresSpec => [][FiguresInv /\ [FiguresNext]_figureVars]_figureVars
  BY FiguresInitially, FiguresStep, PTL DEF FiguresSpec
<1> QED
  BY <1>1, LoweredStep, PTL DEF FiguresSpec, LoweredOnlyByMiss, Lowers
-----------------------------------------------------------------------------
(* The score of a repository.                                                 *)

LEMMA MaxReached ==
  ASSUME NEW S, IsFiniteSet(S), S # {}, S \subseteq Nat
  PROVE  Max(S) \in S /\ \A x \in S : x <= Max(S)
<1> DEFINE G == {T \in SUBSET S : T # {} => \E m \in T : \A x \in T : x <= m}
<1>1. ASSUME NEW T \in SUBSET S, \A x \in T : T \ {x} \in G PROVE T \in G
  <2> SUFFICES ASSUME T # {} PROVE \E m \in T : \A x \in T : x <= m
    OBVIOUS
  <2>1. PICK y \in T : TRUE
    OBVIOUS
  <2>2. CASE T \ {y} = {}
    BY <2>1, <2>2
  <2>3. CASE T \ {y} # {}
    <3>1. PICK m \in T \ {y} : \A x \in T \ {y} : x <= m
      BY <1>1, <2>1, <2>3
    <3>2. CASE m <= y
      <4>1. \A x \in T : x <= y
        BY <3>1, <3>2
      <4> QED
        BY <4>1
    <3>3. CASE y <= m
      <4>1. \A x \in T : x <= m
        BY <3>1, <3>3
      <4> QED
        BY <4>1
    <3> QED
      BY <3>2, <3>3
  <2> QED
    BY <2>2, <2>3
<1>2. S \in G
  <2> HIDE DEF G
  <2> QED
    BY <1>1, SubsetInduction
<1>3. PICK m \in S : \A x \in S : x <= m
  BY <1>2
<1>4. \E x \in S : \A y \in S : x >= y
  BY <1>3
<1>5. Max(S) \in S /\ \A y \in S : Max(S) >= y
  BY <1>4 DEF Max
<1> QED
  BY <1>5

\* A tier gives its points to whatever reaches it: never less for more.
LEMMA TierGrows ==
  ASSUME NEW tiers \in SUBSET (Nat \X Nat), NEW bound \in Nat,
         \A t \in tiers : t[2] <= bound
  PROVE  \A n \in Nat : /\ Tier(n, tiers) \in 0..bound
                        /\ \A m \in 0..n : Tier(m, tiers) <= Tier(n, tiers)
<1> DEFINE reached(n) == {t \in tiers : n >= t[1]}
           points(n) == {0} \cup {tier[2] : tier \in reached(n)}
<1>1. ASSUME NEW n \in Nat
      PROVE  /\ Tier(n, tiers) \in points(n)
             /\ \A x \in points(n) : x <= Tier(n, tiers)
             /\ \A x \in points(n) : x \in 0..bound
  <2>1. \A x \in points(n) : x \in 0..bound
    OBVIOUS
  <2>2. IsFiniteSet(points(n)) /\ points(n) # {} /\ points(n) \subseteq Nat
    <3>1. 0 \in points(n)
      OBVIOUS
    <3> HIDE DEF points
    <3>2. IsFiniteSet(0..bound)
      BY FS_Interval
    <3>3. points(n) \in SUBSET (0..bound)
      BY <2>1
    <3> QED
      BY <3>1, <3>2, <3>3, FS_Subset
  <2>3. Tier(n, tiers) = Max(points(n))
    BY DEF Tier
  <2> HIDE DEF points
  <2> QED
    BY <2>1, <2>2, <2>3, MaxReached
<1>2. ASSUME NEW n \in Nat, NEW m \in 0..n PROVE points(m) \subseteq points(n)
  <2>1. \A t \in tiers : t[1] \in Nat
    OBVIOUS
  <2>2. reached(m) \subseteq reached(n)
    BY <2>1
  <2> QED
    BY <2>2
<1> HIDE DEF points
<1>3. ASSUME NEW n \in Nat, NEW m \in 0..n PROVE Tier(m, tiers) <= Tier(n, tiers)
  BY <1>1, <1>2, <1>3
<1> QED
  BY <1>1, <1>3

\* A repository of which less was measured: the same listing, no number larger,
\* and the files as they are or not at all.
Poorer(q, r) ==
  /\ q.fork = r.fork /\ q.described = r.described /\ q.stars = r.stars /\ q.forks = r.forks
  /\ q.idle = r.idle
  /\ q.commits <= r.commits /\ q.days <= r.days /\ q.humans <= r.humans /\ q.pulls <= r.pulls
  /\ q.issues <= r.issues /\ q.postFork <= r.postFork /\ q.topics <= r.topics
  /\ (q.readme => r.readme)
  /\ q.files = 0 \/ (q.files = r.files /\ q.source = r.source)

LEMMA VolumeGrows ==
  ASSUME NEW q \in Repository, NEW r \in Repository, Poorer(q, r)
  PROVE  Volume(r) \in 0..15 /\ Volume(q) <= Volume(r)
<1> DEFINE tiers == {<<1, 2>>, <<5, 5>>, <<20, 8>>, <<50, 12>>, <<100, 15>>}
<1>1. tiers \in SUBSET (Nat \X Nat) /\ \A t \in tiers : t[2] <= 15
  OBVIOUS
<1>2. r.commits \in Nat /\ q.commits \in 0..(r.commits)
  BY DEF Poorer, Repository
<1> HIDE DEF tiers
<1>3. Tier(r.commits, tiers) \in 0..15 /\ Tier(q.commits, tiers) <= Tier(r.commits, tiers)
  BY <1>1, <1>2, TierGrows
<1> QED
  BY <1>3 DEF Volume, tiers

LEMMA SpreadGrows ==
  ASSUME NEW q \in Repository, NEW r \in Repository, Poorer(q, r)
  PROVE  Spread(r) \in 0..10 /\ Spread(q) <= Spread(r)
<1> DEFINE tiers == {<<2, 2>>, <<3, 5>>, <<5, 7>>, <<10, 10>>}
<1>1. tiers \in SUBSET (Nat \X Nat) /\ \A t \in tiers : t[2] <= 10
  OBVIOUS
<1>2. r.days \in Nat /\ q.days \in 0..(r.days)
  BY DEF Poorer, Repository
<1> HIDE DEF tiers
<1>3. Tier(r.days, tiers) \in 0..10 /\ Tier(q.days, tiers) <= Tier(r.days, tiers)
  BY <1>1, <1>2, TierGrows
<1> QED
  BY <1>3 DEF Spread, tiers

LEMMA CollaborationGrows ==
  ASSUME NEW q \in Repository, NEW r \in Repository, Poorer(q, r)
  PROVE  Collaboration(r) \in 0..12 /\ Collaboration(q) <= Collaboration(r)
<1> DEFINE tiers == {<<2, 4>>, <<3, 8>>, <<5, 12>>}
<1>1. tiers \in SUBSET (Nat \X Nat) /\ \A t \in tiers : t[2] <= 12
  OBVIOUS
<1>2. r.humans \in Nat /\ q.humans \in 0..(r.humans)
  BY DEF Poorer, Repository
<1> HIDE DEF tiers
<1>3. Tier(r.humans, tiers) \in 0..12 /\ Tier(q.humans, tiers) <= Tier(r.humans, tiers)
  BY <1>1, <1>2, TierGrows
<1> QED
  BY <1>3 DEF Collaboration, tiers

LEMMA ActivityGrows ==
  ASSUME NEW q \in Repository, NEW r \in Repository, Poorer(q, r)
  PROVE  Activity(r) \in 0..8 /\ Activity(q) <= Activity(r)
<1> DEFINE tiers == {<<1, 2>>, <<5, 5>>, <<10, 8>>}
<1>1. tiers \in SUBSET (Nat \X Nat) /\ \A t \in tiers : t[2] <= 8
  OBVIOUS
<1>2. r.pulls + r.issues \in Nat /\ q.pulls + q.issues \in 0..(r.pulls + r.issues)
  BY DEF Poorer, Repository
<1> HIDE DEF tiers
<1>3. Tier(r.pulls + r.issues, tiers) \in 0..8 /\ Tier(q.pulls + q.issues, tiers) <= Tier(r.pulls + r.issues, tiers)
  BY <1>1, <1>2, TierGrows
<1> QED
  BY <1>3 DEF Activity, tiers

LEMMA OriginalityGrows ==
  ASSUME NEW q \in Repository, NEW r \in Repository, Poorer(q, r)
  PROVE  Originality(r) \in 0..10 /\ Originality(q) <= Originality(r)
<1> DEFINE tiers == {<<1, 2>>, <<20, 6>>}
<1>1. tiers \in SUBSET (Nat \X Nat) /\ \A t \in tiers : t[2] <= 10
  OBVIOUS
<1>2. r.postFork \in Nat /\ q.postFork \in 0..r.postFork /\ q.fork = r.fork
  BY DEF Poorer, Repository
<1> HIDE DEF tiers
<1>3. Tier(r.postFork, tiers) \in 0..10 /\ Tier(q.postFork, tiers) <= Tier(r.postFork, tiers)
  BY <1>1, <1>2, TierGrows
<1>4. \A x \in {q, r} : Originality(x) = IF x.fork THEN Tier(x.postFork, tiers) ELSE 10
  BY DEF Originality, tiers
<1> QED
  BY <1>2, <1>3, <1>4

LEMMA DensityGrows ==
  ASSUME NEW q \in Repository, NEW r \in Repository, Poorer(q, r)
  PROVE  Density(r) \in 0..15 /\ Density(q) <= Density(r)
<1> DEFINE tiers == {<<0, 2>>, <<2, 5>>, <<4, 10>>, <<6, 15>>}
           tenths == (10 * r.source) \div r.files
<1>1. tiers \in SUBSET (Nat \X Nat) /\ \A t \in tiers : t[2] <= 15
  OBVIOUS
<1>2. r.files \in 0..5 /\ r.source \in 0..5
  BY DEF Repository
<1>3. r.files # 0 => tenths \in Nat
  <2>1. CASE r.files = 1
    BY <1>2, <2>1
  <2>2. CASE r.files = 2
    BY <1>2, <2>2
  <2>3. CASE r.files = 3
    BY <1>2, <2>3
  <2>4. CASE r.files = 4
    BY <1>2, <2>4
  <2>5. CASE r.files = 5
    BY <1>2, <2>5
  <2> QED
    BY <1>2, <2>1, <2>2, <2>3, <2>4, <2>5
<1>4. Density(r) = IF r.files = 0 \/ r.source = 0 THEN 0 ELSE Tier(tenths, tiers)
  BY DEF Density
<1> HIDE DEF tiers, tenths
<1>5. r.files # 0 => Tier(tenths, tiers) \in 0..15
  BY <1>1, <1>3, TierGrows
<1>6. Density(r) \in 0..15
  BY <1>4, <1>5
<1>7. Density(q) = 0 \/ Density(q) = Density(r)
  BY DEF Poorer, Density
<1> QED
  BY <1>6, <1>7

LEMMA HygieneGrows ==
  ASSUME NEW q \in Repository, NEW r \in Repository, Poorer(q, r)
  PROVE  Hygiene(r) \in 0..10 /\ Hygiene(q) <= Hygiene(r)
<1>1. /\ r.readme \in BOOLEAN /\ q.readme \in BOOLEAN /\ r.described \in BOOLEAN
      /\ r.topics \in Nat /\ q.topics \in Nat /\ q.topics <= r.topics
      /\ q.described = r.described /\ (q.readme => r.readme)
  BY DEF Poorer, Repository
<1> QED
  BY <1>1 DEF Hygiene

\* What a listing tells is the same for both.
LEMMA ListedSame ==
  ASSUME NEW q \in Repository, NEW r \in Repository, Poorer(q, r)
  PROVE  /\ Community(r) \in 0..10 /\ Community(q) = Community(r)
         /\ Maintenance(r) \in 0..10 /\ Maintenance(q) = Maintenance(r)
<1> DEFINE tiers == {<<1, 2>>, <<5, 5>>, <<10, 7>>}
<1>1. tiers \in SUBSET (Nat \X Nat) /\ \A t \in tiers : t[2] <= 7
  OBVIOUS
<1>2. r.stars \in Nat /\ q.stars = r.stars /\ q.forks = r.forks /\ q.idle = r.idle
  BY DEF Poorer, Repository
<1>3. Community(r) = Tier(r.stars, tiers) + IF r.forks > 0 THEN 3 ELSE 0
  BY DEF Community
<1> HIDE DEF tiers
<1>4. Tier(r.stars, tiers) \in 0..7
  BY <1>1, <1>2, TierGrows
<1>5. Community(r) \in 0..10 /\ Maintenance(r) \in 0..10
  BY <1>3, <1>4 DEF Maintenance
<1> QED
  BY <1>2, <1>5 DEF Community, Maintenance

LEMMA ScoreGrows ==
  ASSUME NEW q \in Repository, NEW r \in Repository, Poorer(q, r)
  PROVE  Score(r) \in 0..100 /\ Score(q) <= Score(r)
<1>1. Poorer(q, q)
  BY DEF Poorer, Repository
<1> DEFINE first(x) == Volume(x) + Spread(x) + Collaboration(x)
           second(x) == Activity(x) + Originality(x) + Density(x)
           third(x) == Hygiene(x) + Community(x) + Maintenance(x)
<1>2. first(q) \in 0..37 /\ first(r) \in 0..37 /\ first(q) <= first(r)
  <2>1. /\ Volume(q) \in 0..15 /\ Volume(r) \in 0..15 /\ Volume(q) <= Volume(r)
        /\ Spread(q) \in 0..10 /\ Spread(r) \in 0..10 /\ Spread(q) <= Spread(r)
        /\ Collaboration(q) \in 0..12 /\ Collaboration(r) \in 0..12
        /\ Collaboration(q) <= Collaboration(r)
    BY <1>1, VolumeGrows, SpreadGrows, CollaborationGrows
  <2> QED
    BY <2>1
<1>3. second(q) \in 0..33 /\ second(r) \in 0..33 /\ second(q) <= second(r)
  <2>1. /\ Activity(q) \in 0..8 /\ Activity(r) \in 0..8 /\ Activity(q) <= Activity(r)
        /\ Originality(q) \in 0..10 /\ Originality(r) \in 0..10 /\ Originality(q) <= Originality(r)
        /\ Density(q) \in 0..15 /\ Density(r) \in 0..15 /\ Density(q) <= Density(r)
    BY <1>1, ActivityGrows, OriginalityGrows, DensityGrows
  <2> QED
    BY <2>1
<1>4. third(q) \in 0..30 /\ third(r) \in 0..30 /\ third(q) <= third(r)
  <2>1. /\ Hygiene(q) \in 0..10 /\ Hygiene(r) \in 0..10 /\ Hygiene(q) <= Hygiene(r)
        /\ Community(r) \in 0..10 /\ Community(q) = Community(r)
        /\ Maintenance(r) \in 0..10 /\ Maintenance(q) = Maintenance(r)
    BY <1>1, HygieneGrows, ListedSame
  <2> QED
    BY <2>1
<1>5. \A x \in {q, r} : Score(x) = first(x) + second(x) + third(x)
  <2> SUFFICES ASSUME NEW x \in {q, r} PROVE Score(x) = first(x) + second(x) + third(x)
    OBVIOUS
  <2>1. /\ Volume(x) \in Nat /\ Spread(x) \in Nat /\ Collaboration(x) \in Nat
        /\ Activity(x) \in Nat /\ Originality(x) \in Nat /\ Density(x) \in Nat
        /\ Hygiene(x) \in Nat /\ Community(x) \in Nat /\ Maintenance(x) \in Nat
    <3>1. x \in Repository /\ Poorer(x, x)
      BY DEF Poorer, Repository
    <3> QED
      BY <3>1, VolumeGrows, SpreadGrows, CollaborationGrows, ActivityGrows, OriginalityGrows,
         DensityGrows, HygieneGrows, ListedSame
  <2> QED
    BY <2>1 DEF Score
<1> HIDE DEF first, second, third
<1>6. /\ Score(q) = first(q) + second(q) + third(q)
      /\ Score(r) = first(r) + second(r) + third(r)
  BY <1>5
<1>7. Score(r) \in 0..100
  BY <1>2, <1>3, <1>4, <1>6
<1>8. Score(q) <= Score(r)
  <2>1. \A a, b, c, d, e, f \in Nat : a <= b /\ c <= d /\ e <= f => a + c + e <= b + d + f
    OBVIOUS
  <2>2. \A x \in {q, r} : first(x) \in Nat /\ second(x) \in Nat /\ third(x) \in Nat
    BY <1>2, <1>3, <1>4
  <2> QED
    BY <1>2, <1>3, <1>4, <1>6, <2>1, <2>2
<1> QED
  BY <1>7, <1>8

\* What is left of a repository when calls are not answered.
LEMMA MeasuredPoorer ==
  ASSUME NEW r \in Repository, NEW answered \in SUBSET Calls
  PROVE  Measured(r, answered) \in Repository /\ Poorer(Measured(r, answered), r)
<1> DEFINE of(call, n) == IF call \in answered THEN n ELSE 0
           m == Measured(r, answered)
<1>1. m = [r EXCEPT !.pulls = of("pulls", r.pulls), !.issues = of("issues", r.issues),
                    !.humans = of("contributors", r.humans), !.topics = of("topics", r.topics),
                    !.readme = r.readme /\ "readme" \in answered,
                    !.commits = of("commits", r.commits), !.days = of("commits", r.days),
                    !.postFork = of("commits", r.postFork),
                    !.source = of("tree", r.source), !.files = of("tree", r.files)]
  BY DEF Measured, Repository
<1>2. /\ m.fork = r.fork /\ m.described = r.described /\ m.stars = r.stars
      /\ m.forks = r.forks /\ m.idle = r.idle
      /\ m.pulls = of("pulls", r.pulls) /\ m.issues = of("issues", r.issues)
      /\ m.humans = of("contributors", r.humans) /\ m.topics = of("topics", r.topics)
      /\ m.readme = (r.readme /\ "readme" \in answered)
      /\ m.commits = of("commits", r.commits) /\ m.days = of("commits", r.days)
      /\ m.postFork = of("commits", r.postFork)
      /\ m.source = of("tree", r.source) /\ m.files = of("tree", r.files)
  BY <1>1 DEF Repository
<1>3. m \in Repository
  <2>1. /\ of("pulls", r.pulls) \in 0..10 /\ of("issues", r.issues) \in 0..10
        /\ of("contributors", r.humans) \in 0..5 /\ of("topics", r.topics) \in 0..1
        /\ of("commits", r.commits) \in 0..100 /\ of("commits", r.days) \in 0..10
        /\ of("commits", r.postFork) \in 0..20
        /\ of("tree", r.source) \in 0..5 /\ of("tree", r.files) \in 0..5
        /\ (r.readme /\ "readme" \in answered) \in BOOLEAN
    BY DEF Repository
  <2> HIDE DEF of
  <2>2. m = [fork |-> r.fork, described |-> r.described, stars |-> r.stars, forks |-> r.forks,
             idle |-> r.idle, pulls |-> of("pulls", r.pulls), issues |-> of("issues", r.issues),
             humans |-> of("contributors", r.humans),
             readme |-> r.readme /\ "readme" \in answered,
             topics |-> of("topics", r.topics), commits |-> of("commits", r.commits),
             days |-> of("commits", r.days), postFork |-> of("commits", r.postFork),
             source |-> of("tree", r.source), files |-> of("tree", r.files)]
    BY <1>1 DEF Repository
  <2>3. /\ r.fork \in BOOLEAN /\ r.described \in BOOLEAN /\ r.stars \in 0..10 /\ r.forks \in 0..1
        /\ r.idle \in 0..31
    BY DEF Repository
  <2> HIDE DEF m
  <2> QED
    BY <2>1, <2>2, <2>3 DEF Repository
<1>4. Poorer(m, r)
  <2> HIDE DEF m
  <2> QED
    BY <1>2 DEF Poorer, Repository
<1> QED
  BY <1>3, <1>4

\* The score of a repository is out of 100; calls that are not answered never
\* raise it, and a light sync of a repository that did not change leaves it
\* (add_repository_quality_metrics, _carry_forward_repo_quality).
THEOREM ScoresHold == \A r \in Repository : ScoreHolds(r)
<1> SUFFICES ASSUME NEW r \in Repository PROVE ScoreHolds(r)
  OBVIOUS
<1>1. Score(r) \in 0..100
  <2>1. Poorer(r, r)
    BY DEF Poorer, Repository
  <2> QED
    BY <2>1, ScoreGrows
<1>2. ASSUME NEW answered \in SUBSET Calls
      PROVE  LET stored == Measured(r, answered)
             IN  /\ Score(stored) <= Score(r)
                 /\ Score(Rescored(Measured(r, {}), stored)) = Score(stored)
  <2> DEFINE stored == Measured(r, answered)
             listed == Measured(r, {})
  <2>1. /\ stored \in Repository /\ Poorer(stored, r)
        /\ listed \in Repository /\ Poorer(listed, r)
    BY MeasuredPoorer
  <2> HIDE DEF stored, listed
  <2>2. Score(stored) <= Score(r)
    BY <2>1, ScoreGrows
  <2>3. /\ listed.described = stored.described /\ listed.stars = stored.stars
        /\ listed.forks = stored.forks /\ listed.idle = stored.idle /\ listed.fork = stored.fork
    BY <2>1 DEF Poorer
  <2>4. Rescored(listed, stored) = stored
    BY <2>1, <2>3 DEF Rescored, Repository
  <2> QED
    BY <2>2, <2>4 DEF stored, listed
<1> QED
  BY <1>1, <1>2 DEF ScoreHolds
-----------------------------------------------------------------------------
(* The standing of a student.                                                 *)

\* A student of whom less was fetched: nothing more, and a quality that is the
\* same, or unknown with no repositories.
Fewer(q, s) ==
  /\ q.repos <= s.repos /\ q.contributed <= s.contributed
  /\ q.owned30 <= s.owned30 /\ q.ownedBefore <= s.ownedBefore
  /\ q.team30 <= s.team30 /\ q.teamBefore <= s.teamBefore
  /\ q.prs <= s.prs /\ q.external <= s.external /\ q.issues <= s.issues
  /\ q.active <= s.active /\ q.teamActive <= s.teamActive
  /\ q.linked = s.linked /\ q.profile = s.profile
  /\ q.quality = s.quality \/ (q.quality = "unknown" /\ q.repos = 0)

LEMMA StudentFields ==
  ASSUME NEW s \in Student
  PROVE  /\ s.repos \in 0..1 /\ s.contributed \in 0..1 /\ s.owned30 \in 0..1
         /\ s.ownedBefore \in 0..1 /\ s.team30 \in 0..1 /\ s.teamBefore \in 0..1
         /\ s.prs \in 0..1 /\ s.external \in 0..1 /\ s.issues \in 0..1
         /\ s.active \in 0..1 /\ s.teamActive \in 0..1
         /\ s.linked \in BOOLEAN /\ s.profile \in BOOLEAN
         /\ s.quality \in {"unknown", "low", "fair"}
BY DEF Student

LEMMA WithoutFewer ==
  ASSUME NEW s \in Student, NEW missing \in SUBSET Fetches
  PROVE  Without(s, missing) \in Student /\ Fewer(Without(s, missing), s)
<1> DEFINE q == Without(s, missing)
           own == missing \cap {"repos", "owned"} # {}
           of(gone, n) == IF gone THEN 0 ELSE n
           level == IF "repos" \in missing THEN "unknown" ELSE s.quality
<1>1. q = [s EXCEPT !.repos = of("repos" \in missing, s.repos),
                    !.active = of("repos" \in missing, s.active),
                    !.quality = level,
                    !.owned30 = of(own, s.owned30), !.ownedBefore = of(own, s.ownedBefore),
                    !.prs = of("contrib" \in missing, s.prs),
                    !.external = of("contrib" \in missing, s.external),
                    !.issues = of("contrib" \in missing, s.issues),
                    !.contributed = of("team" \in missing, s.contributed),
                    !.team30 = of("team" \in missing, s.team30),
                    !.teamActive = of("team" \in missing, s.teamActive),
                    !.teamBefore = of("team" \in missing, s.teamBefore)]
  BY DEF Without, Student
<1>2. /\ level \in {"unknown", "low", "fair"}
      /\ level = s.quality \/ (level = "unknown" /\ of("repos" \in missing, s.repos) = 0)
  BY StudentFields
<1> HIDE DEF level, own, q
<1>3. /\ of("repos" \in missing, s.repos) \in 0..1 /\ of("repos" \in missing, s.repos) <= s.repos
      /\ of("repos" \in missing, s.active) \in 0..1 /\ of("repos" \in missing, s.active) <= s.active
      /\ of(own, s.owned30) \in 0..1 /\ of(own, s.owned30) <= s.owned30
      /\ of(own, s.ownedBefore) \in 0..1 /\ of(own, s.ownedBefore) <= s.ownedBefore
  BY StudentFields
<1>4. /\ of("contrib" \in missing, s.prs) \in 0..1 /\ of("contrib" \in missing, s.prs) <= s.prs
      /\ of("contrib" \in missing, s.external) \in 0..1
      /\ of("contrib" \in missing, s.external) <= s.external
      /\ of("contrib" \in missing, s.issues) \in 0..1
      /\ of("contrib" \in missing, s.issues) <= s.issues
  BY StudentFields
<1>5. /\ of("team" \in missing, s.contributed) \in 0..1
      /\ of("team" \in missing, s.contributed) <= s.contributed
      /\ of("team" \in missing, s.team30) \in 0..1 /\ of("team" \in missing, s.team30) <= s.team30
      /\ of("team" \in missing, s.teamActive) \in 0..1
      /\ of("team" \in missing, s.teamActive) <= s.teamActive
      /\ of("team" \in missing, s.teamBefore) \in 0..1
      /\ of("team" \in missing, s.teamBefore) <= s.teamBefore
  BY StudentFields
<1>6. q = [repos |-> of("repos" \in missing, s.repos),
           contributed |-> of("team" \in missing, s.contributed),
           owned30 |-> of(own, s.owned30), ownedBefore |-> of(own, s.ownedBefore),
           team30 |-> of("team" \in missing, s.team30),
           teamBefore |-> of("team" \in missing, s.teamBefore),
           prs |-> of("contrib" \in missing, s.prs),
           external |-> of("contrib" \in missing, s.external),
           issues |-> of("contrib" \in missing, s.issues),
           active |-> of("repos" \in missing, s.active),
           teamActive |-> of("team" \in missing, s.teamActive),
           linked |-> s.linked, profile |-> s.profile, quality |-> level]
  BY <1>1 DEF Student
<1> HIDE DEF of
<1>7. q \in Student
  BY <1>2, <1>3, <1>4, <1>5, <1>6, StudentFields DEF Student
<1>8. Fewer(q, s)
  BY <1>2, <1>3, <1>4, <1>5, <1>6 DEF Fewer
<1> QED
  BY <1>7, <1>8 DEF q

\* Without a veto the criteria met always outweigh those missed.
LEMMA Outweighs ==
  ASSUME NEW s \in Student, ~Vetoed(s)
  PROVE  Points(s) >= Misses(s) /\ Standing(s) \in {1, 2}
<1>1. /\ s.repos + s.contributed > 0 /\ Recent(s) + Before(s) > 0
      /\ Recent(s) \in 0..2 /\ Before(s) \in 0..2
  BY DEF Vetoed, Recent, Before, Student
<1>2. Points(s) \in Nat /\ Points(s) >= 5
  BY <1>1 DEF Points, Weight
<1>3. Misses(s) \in 0..4
  BY DEF Misses, Weight
<1>4. Points(s) >= Misses(s)
  BY <1>2, <1>3
<1> QED
  BY <1>2, <1>3, <1>4 DEF Standing

LEMMA PointsGrow ==
  ASSUME NEW q \in Student, NEW s \in Student, Fewer(q, s), q.quality = s.quality
  PROVE  Points(q) \in Nat /\ Points(s) \in Nat /\ Points(q) <= Points(s)
<1> DEFINE first(x) == Weight(x.repos + x.contributed > 0, 3) + Weight(Recent(x) > 0, 3)
                         + Weight(Recent(x) + Before(x) > 0, 2)
           second(x) == Weight(Sustained(x), 3) + Weight(Collaborates(x), 2)
                          + Weight(x.prs > 0 \/ x.issues > 0, 1)
           third(x) == Weight(x.quality = "fair", 2) + Weight(x.active + x.teamActive > 0, 2)
                         + Weight(x.linked /\ x.profile, 1)
<1>1. /\ Recent(q) <= Recent(s) /\ Before(q) <= Before(s)
      /\ Recent(q) \in 0..2 /\ Recent(s) \in 0..2 /\ Before(q) \in 0..2 /\ Before(s) \in 0..2
  BY DEF Fewer, Recent, Before, Student
<1>2. first(q) \in 0..8 /\ first(s) \in 0..8 /\ first(q) <= first(s)
  <2>1. /\ q.repos + q.contributed > 0 => s.repos + s.contributed > 0
        /\ Recent(q) > 0 => Recent(s) > 0
        /\ Recent(q) + Before(q) > 0 => Recent(s) + Before(s) > 0
    BY <1>1, StudentFields DEF Fewer
  <2> QED
    BY <2>1 DEF Weight
<1>3. second(q) \in 0..6 /\ second(s) \in 0..6 /\ second(q) <= second(s)
  <2>1. /\ Sustained(q) => Sustained(s)
        /\ Collaborates(q) => Collaborates(s)
        /\ (q.prs > 0 \/ q.issues > 0) => (s.prs > 0 \/ s.issues > 0)
    BY <1>1, StudentFields DEF Fewer, Sustained, Collaborates
  <2> QED
    BY <2>1 DEF Weight
<1>4. third(q) \in 0..5 /\ third(s) \in 0..5 /\ third(q) <= third(s)
  <2>1. /\ q.active + q.teamActive > 0 => s.active + s.teamActive > 0
        /\ (q.linked /\ q.profile) => (s.linked /\ s.profile)
    BY StudentFields DEF Fewer
  <2> QED
    BY <2>1 DEF Weight
<1>5. /\ Points(q) = first(q) + second(q) + third(q)
      /\ Points(s) = first(s) + second(s) + third(s)
  BY DEF Points, Weight
<1> HIDE DEF first, second, third
<1>6. \A a, b, c, d, e, f \in Nat : a <= b /\ c <= d /\ e <= f => a + c + e <= b + d + f
  OBVIOUS
<1>7. /\ first(q) \in Nat /\ second(q) \in Nat /\ third(q) \in Nat
      /\ first(s) \in Nat /\ second(s) \in Nat /\ third(s) \in Nat
  BY <1>2, <1>3, <1>4
<1> QED
  BY <1>2, <1>3, <1>4, <1>5, <1>6, <1>7

LEMMA MissesShrink ==
  ASSUME NEW q \in Student, NEW s \in Student, Fewer(q, s), q.quality = s.quality
  PROVE  Misses(q) \in Nat /\ Misses(s) \in Nat /\ Misses(s) <= Misses(q)
<1>1. Recent(q) <= Recent(s) /\ Recent(q) \in 0..2 /\ Recent(s) \in 0..2
  BY DEF Fewer, Recent, Student
<1>2. /\ Recent(s) = 0 => Recent(q) = 0
      /\ (~Collaborates(s) /\ s.prs = 0) => (~Collaborates(q) /\ q.prs = 0)
  BY <1>1, StudentFields DEF Fewer, Collaborates
<1> QED
  BY <1>2 DEF Misses, Weight

LEMMA StandingGrows ==
  ASSUME NEW q \in Student, NEW s \in Student, Fewer(q, s)
  PROVE  Standing(q) <= Standing(s)
<1>0. \A x \in Student : Standing(x) \in 0..2
  BY DEF Standing
<1>1. CASE Vetoed(q)
  BY <1>0, <1>1 DEF Standing
<1>2. CASE ~Vetoed(q)
  <2>1. /\ Recent(q) <= Recent(s) /\ Before(q) <= Before(s)
        /\ Recent(q) \in 0..2 /\ Recent(s) \in 0..2 /\ Before(q) \in 0..2 /\ Before(s) \in 0..2
    BY DEF Fewer, Recent, Before, Student
  <2>2. ~Vetoed(s)
    BY <1>2, <2>1 DEF Vetoed, Fewer, Student
  <2>3. CASE Standing(q) # 2
    <3>1. Standing(q) \in {1, 2} /\ Standing(s) \in {1, 2}
      BY <1>2, <2>2, Outweighs
    <3> QED
      BY <2>3, <3>1
  <2>4. CASE Standing(q) = 2
    <3>1. Sustained(q) /\ Points(q) >= Misses(q) + 10
      BY <2>4 DEF Standing
    <3>2. Sustained(s)
      BY <2>1, <3>1 DEF Sustained
    <3>3. Points(s) >= Misses(s) + 10
      <4>1. CASE q.quality = s.quality
        <5>1. Points(q) \in Nat /\ Points(s) \in Nat /\ Points(q) <= Points(s)
          BY <4>1, PointsGrow
        <5>2. Misses(q) \in Nat /\ Misses(s) \in Nat /\ Misses(s) <= Misses(q)
          BY <4>1, MissesShrink
        <5> QED
          BY <3>1, <5>1, <5>2
      <4>2. CASE q.repos = 0
        <5>1. s.contributed > 0
          BY <1>2, <4>2 DEF Vetoed, Fewer, Student
        <5>2. Collaborates(s)
          BY <5>1 DEF Collaborates
        <5>3. Points(s) \in Nat /\ Points(s) >= 13
          <6>1. /\ s.repos + s.contributed > 0 /\ Recent(s) > 0 /\ Recent(s) + Before(s) > 0
            BY <2>1, <2>2, <3>2, StudentFields DEF Vetoed, Sustained
          <6> QED
            BY <3>2, <5>2, <6>1 DEF Points, Weight
        <5>4. Misses(s) \in 0..1
          BY <3>2, <5>2 DEF Misses, Weight, Sustained
        <5> QED
          BY <5>3, <5>4
      <4> QED
        BY <4>1, <4>2 DEF Fewer
    <3>4. Standing(s) = 2
      <4>1. Points(s) >= Misses(s) /\ Points(s) \in Nat /\ Misses(s) \in Nat
        BY <2>2, Outweighs DEF Points, Misses, Weight
      <4> QED
        BY <2>2, <3>2, <3>3, <4>1 DEF Standing
    <3> QED
      BY <2>4, <3>4
  <2> QED
    BY <2>3, <2>4
<1> QED
  BY <1>1, <1>2

\* A fetch that fails never raises the standing of a student: what is not fetched
\* counts as none, and a missed repository list never does better than a bad one
\* (classify_consistency, build_dashboard_df).
THEOREM StandingsHold == \A s \in Student : StandingHolds(s)
BY WithoutFewer, StandingGrows DEF StandingHolds

\* Whatever is scored, in whichever order, what was not measured or fetched never
\* helps (add_repository_quality_metrics, classify_consistency).
THEOREM NothingRaises == ScoresSpec => []NeverRaised
<1> DEFINE Scored == repo \in Repository \cup {Unscored} /\ student \in Student \cup {Unscored}
<1>1. ScoresInit => Scored
  BY DEF ScoresInit
<1>2. Scored /\ [Assess(Repository, Student)]_scoreVars => Scored'
  BY DEF Assess, scoreVars
<1>3. Scored => NeverRaised
  BY ScoresHold, StandingsHold DEF NeverRaised
<1> QED
  BY <1>1, <1>2, <1>3, PTL DEF ScoresSpec
=============================================================================
