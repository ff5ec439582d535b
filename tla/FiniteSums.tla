----------------------------- MODULE FiniteSums -----------------------------
(***************************************************************************)
(* Facts about finite sets, the greatest and the least of their elements   *)
(* and sums over them (MapThenSumSet), on which the proofs about heartbeat *)
(* gaps, rollups and reading time rest.                                    *)
(*                                                                         *)
(* The induction theorems of the library take an operator as a parameter,  *)
(* which no prover here can instantiate.  SmallestSubset replaces them: a  *)
(* nonempty family of subsets of a finite set has a smallest one, so that  *)
(* a counterexample may be taken to be a smallest one.                     *)
(***************************************************************************)
EXTENDS Integers, FiniteSets, FiniteSetsExt, FiniteSetTheorems,
        WellFoundedInduction, TLAPS

\* A nonempty family of subsets of a finite set has a member none of whose
\* proper subsets is in the family.
LEMMA SmallestSubset ==
  ASSUME NEW S, IsFiniteSet(S), NEW Q \in SUBSET (SUBSET S), Q # {}
  PROVE  \E T \in Q : \A U \in Q : U \subseteq T => U = T
<1> DEFINE R == StrictSubsetOrdering(S)
<1>1. IsWellFoundedOn(R, SUBSET S)
  BY FS_StrictSubsetOrderingWellFounded, FS_FiniteSubsetsOfFinite
<1>2. PICK T \in Q : \A U \in Q : ~ (<<U, T>> \in R)
  <2> HIDE DEF R
  <2> QED BY <1>1, WFMin
<1>3. ASSUME NEW U \in Q, U \subseteq T, U # T PROVE FALSE
  <2>1. <<U, T>> \in R
    BY <1>3 DEF StrictSubsetOrdering
  <2> QED BY <2>1, <1>2
<1> QED BY <1>2, <1>3

\* A finite, nonempty set of integers has a greatest and a least element.
LEMMA FiniteHasExtremes ==
  ASSUME NEW S, \A x \in S : x \in Int, IsFiniteSet(S), S # {}
  PROVE  /\ \E x \in S : \A y \in S : x >= y
         /\ \E x \in S : \A y \in S : x <= y
<1> DEFINE Good(T) == /\ \E x \in T : \A y \in T : x >= y
                      /\ \E x \in T : \A y \in T : x <= y
           Q == {T \in SUBSET S : T # {} /\ ~ Good(T)}
<1>1. SUFFICES ASSUME Q # {} PROVE FALSE
  OBVIOUS
<1>2. PICK T \in Q : \A U \in Q : U \subseteq T => U = T
  <2>1. Q \in SUBSET (SUBSET S) /\ Q # {}
    BY <1>1
  <2> HIDE DEF Q
  <2> QED BY <2>1, SmallestSubset
<1>3. PICK t \in T : TRUE
  BY <1>2
<1>4. CASE T = {t}
  BY <1>2, <1>4
<1>5. CASE T # {t}
  <2>1. T \ {t} # {} /\ T \ {t} \in SUBSET S /\ T \ {t} # T
    BY <1>2, <1>3, <1>5
  <2>2. Good(T \ {t})
    <3>1. T \ {t} \notin Q
      <4> HIDE DEF Q
      <4> QED BY <2>1, <1>2
    <3> QED BY <3>1, <2>1
  <2>3. PICK x \in T \ {t} : \A y \in T \ {t} : x >= y
    BY <2>2
  <2>4. PICK z \in T \ {t} : \A y \in T \ {t} : z <= y
    BY <2>2
  <2>5. t \in Int /\ x \in Int /\ z \in Int /\ \A y \in T : y \in Int
    BY <1>2, <1>3, <2>3, <2>4
  <2>6. \E u \in T : \A y \in T : u >= y
    <3>1. CASE x >= t
      BY <3>1, <2>3, <2>5
    <3>2. CASE ~ (x >= t)
      <4>1. \A y \in T : t >= y
        BY <3>2, <2>3, <2>5
      <4> QED BY <4>1, <1>3
    <3> QED BY <3>1, <3>2
  <2>7. \E u \in T : \A y \in T : u <= y
    <3>1. CASE z <= t
      BY <3>1, <2>4, <2>5
    <3>2. CASE ~ (z <= t)
      <4>1. \A y \in T : t <= y
        BY <3>2, <2>4, <2>5
      <4> QED BY <4>1, <1>3
    <3> QED BY <3>1, <3>2
  <2> QED BY <2>6, <2>7, <1>2
<1> QED BY <1>4, <1>5

\* Max returns the greatest element, and only it.
LEMMA MaxOfFinite ==
  ASSUME NEW S, \A x \in S : x \in Int, IsFiniteSet(S), S # {}
  PROVE  /\ Max(S) \in S
         /\ \A y \in S : y <= Max(S)
         /\ \A x \in S : (\A y \in S : y <= x) => x = Max(S)
<1> DEFINE M == Max(S)
<1>1. Max(S) \in S /\ \A y \in S : Max(S) >= y
  BY FiniteHasExtremes DEF Max
<1>2. \A x \in S : (\A y \in S : y <= x) => x = M
  <2> HIDE DEF M
  <2> SUFFICES ASSUME NEW x \in S, \A y \in S : y <= x PROVE x = M
    OBVIOUS
  <2>1. M \in S /\ M \in Int /\ x \in Int
    BY <1>1 DEF M
  <2>2. x <= M /\ M <= x
    BY <1>1, <2>1 DEF M
  <2> QED BY <2>1, <2>2
<1> QED BY <1>1, <1>2

\* Min returns the least element, and only it.
LEMMA MinOfFinite ==
  ASSUME NEW S, \A x \in S : x \in Int, IsFiniteSet(S), S # {}
  PROVE  /\ Min(S) \in S
         /\ \A y \in S : Min(S) <= y
         /\ \A x \in S : (\A y \in S : x <= y) => x = Min(S)
<1> DEFINE M == Min(S)
<1>1. Min(S) \in S /\ \A y \in S : Min(S) <= y
  BY FiniteHasExtremes DEF Min
<1>2. \A x \in S : (\A y \in S : x <= y) => x = M
  <2> HIDE DEF M
  <2> SUFFICES ASSUME NEW x \in S, \A y \in S : x <= y PROVE x = M
    OBVIOUS
  <2>1. M \in S /\ M \in Int /\ x \in Int
    BY <1>1 DEF M
  <2>2. x <= M /\ M <= x
    BY <1>1, <2>1 DEF M
  <2> QED BY <2>1, <2>2
<1> QED BY <1>1, <1>2

\* The image of a finite set under a function is finite, and not larger.
LEMMA ImageIsFinite ==
  ASSUME NEW f, NEW S \in SUBSET DOMAIN f, IsFiniteSet(S)
  PROVE  /\ IsFiniteSet({f[x] : x \in S})
         /\ Cardinality({f[x] : x \in S}) <= Cardinality(S)
<1> DEFINE T == {f[x] : x \in S}
           g == [x \in S |-> f[x]]
<1>1. g \in Surjection(S, T)
  BY DEF Surjection
<1> HIDE DEF g, T
<1> QED BY <1>1, FS_Surjection DEF T

-----------------------------------------------------------------------------
(* Sums.  MapThenSumSet is the value at S of a function that is chosen to  *)
(* satisfy the equation of the recursion, `Unrolled`.                      *)

SumOf(F, S) == MapThenSumSet(LAMBDA x : F[x], S)

First(S) == CHOOSE x \in S : TRUE

Unrolled(F, S, g) ==
  [s \in SUBSET S |-> IF s = {} THEN 0 ELSE F[First(s)] + g[s \ {First(s)}]]

Solves(F, S, g) == g = Unrolled(F, S, g)

LEMMA SumIsChosen ==
  \A F, S : SumOf(F, S) = (CHOOSE g : Solves(F, S, g))[S]
BY DEF SumOf, MapThenSumSet, MapThenFoldSet, Solves, Unrolled, First

LEMMA FirstIsMember == \A S : S # {} => First(S) \in S
BY Zenon DEF First

\* Two solutions, for a set and for a subset of it, agree on the subset.
LEMMA SolutionsAgree ==
  ASSUME NEW F, NEW S, IsFiniteSet(S), NEW T \in SUBSET S, NEW g, NEW h,
         Solves(F, S, g), Solves(F, T, h)
  PROVE  \A s \in SUBSET T : g[s] = h[s]
<1> DEFINE Q == {s \in SUBSET T : g[s] # h[s]}
<1>1. SUFFICES ASSUME Q # {} PROVE FALSE
  OBVIOUS
<1>2. PICK s \in Q : \A u \in Q : u \subseteq s => u = s
  <2>1. Q \in SUBSET (SUBSET T) /\ Q # {} /\ IsFiniteSet(T)
    BY <1>1, FS_Subset
  <2> HIDE DEF Q
  <2> QED BY <2>1, SmallestSubset
<1>3. /\ g[s] = IF s = {} THEN 0 ELSE F[First(s)] + g[s \ {First(s)}]
      /\ h[s] = IF s = {} THEN 0 ELSE F[First(s)] + h[s \ {First(s)}]
  BY <1>2 DEF Solves, Unrolled
<1>4. s # {}
  BY <1>2, <1>3
<1>5. s \ {First(s)} \in SUBSET T /\ s \ {First(s)} \subseteq s /\ s \ {First(s)} # s
  BY <1>2, <1>4, FirstIsMember
<1>6. s \ {First(s)} \notin Q
  <2> HIDE DEF Q
  <2> QED BY <1>2, <1>5
<1> QED BY <1>2, <1>3, <1>4, <1>5, <1>6

\* The equation of the recursion has a solution on every finite set.
LEMMA SolutionExists ==
  ASSUME NEW F, NEW S, IsFiniteSet(S)
  PROVE  Solves(F, S, CHOOSE g : Solves(F, S, g))
<1> DEFINE Sol(s) == CHOOSE g : Solves(F, s, g)
           Q == {T \in SUBSET S : ~ Solves(F, T, Sol(T))}
<1>1. SUFFICES ASSUME Q # {} PROVE FALSE
  OBVIOUS
<1>2. PICK T \in Q : \A U \in Q : U \subseteq T => U = T
  <2>1. Q \in SUBSET (SUBSET S)
    OBVIOUS
  <2> HIDE DEF Q
  <2> QED BY <1>1, <2>1, SmallestSubset
<1>3. \A U \in SUBSET T : U # T => Solves(F, U, Sol(U))
  <2> SUFFICES ASSUME NEW U \in SUBSET T, U # T PROVE Solves(F, U, Sol(U))
    OBVIOUS
  <2>1. U \notin Q /\ U \in SUBSET S
    <3>1. U \in SUBSET S
      BY <1>2
    <3> HIDE DEF Q
    <3> QED BY <1>2, <3>1
  <2> QED BY <2>1
<1> DEFINE Val(s) == IF s = {} THEN 0 ELSE F[First(s)] + Sol(s \ {First(s)})[s \ {First(s)}]
           g == [s \in SUBSET T |-> Val(s)]
<1>4. \A u \in SUBSET T : u # T => Sol(u)[u] = Val(u)
  <2> SUFFICES ASSUME NEW u \in SUBSET T, u # T PROVE Sol(u)[u] = Val(u)
    OBVIOUS
  <2>1. Solves(F, u, Sol(u))
    BY <1>3
  <2>2. Sol(u)[u] = IF u = {} THEN 0 ELSE F[First(u)] + Sol(u)[u \ {First(u)}]
    <3> HIDE DEF Sol
    <3> QED BY <2>1 DEF Solves, Unrolled
  <2>3. ASSUME u # {} PROVE Sol(u)[u \ {First(u)}] = Sol(u \ {First(u)})[u \ {First(u)}]
    <3> DEFINE v == u \ {First(u)}
    <3>1. v \in SUBSET u /\ v \in SUBSET T /\ v # T /\ IsFiniteSet(u)
      BY <1>2, FS_Subset
    <3>2. Solves(F, v, Sol(v))
      BY <3>1, <1>3
    <3> HIDE DEF v, Sol
    <3>3. \A s \in SUBSET v : Sol(u)[s] = Sol(v)[s]
      BY <2>1, <3>1, <3>2, SolutionsAgree
    <3> QED BY <3>3 DEF v
  <2> QED BY <2>2, <2>3
<1>5. Solves(F, T, g)
  <2>1. ASSUME NEW s \in SUBSET T, s # {} PROVE g[s \ {First(s)}] = Sol(s \ {First(s)})[s \ {First(s)}]
    <3>1. s \ {First(s)} \in SUBSET T /\ s \ {First(s)} # T
      BY <2>1, FirstIsMember
    <3> QED BY <3>1, <1>4
  <2>2. \A s \in SUBSET T : g[s] = IF s = {} THEN 0 ELSE F[First(s)] + g[s \ {First(s)}]
    <3>1. \A s \in SUBSET T : g[s] = Val(s)
      OBVIOUS
    <3> HIDE DEF g
    <3> QED BY <2>1, <3>1
  <2>3. g = [s \in SUBSET T |-> g[s]]
    OBVIOUS
  <2> HIDE DEF g
  <2> QED BY <2>2, <2>3 DEF Solves, Unrolled
<1>6. Solves(F, T, Sol(T))
  <2> HIDE DEF g
  <2> QED BY <1>5, Zenon
<1> QED BY <1>2, <1>6

\* A sum over a nonempty finite set is the value at one element and the sum
\* over the others.
LEMMA SumUnfolds ==
  ASSUME NEW F, NEW S, IsFiniteSet(S)
  PROVE  SumOf(F, S) = IF S = {} THEN 0 ELSE F[First(S)] + SumOf(F, S \ {First(S)})
<1> DEFINE g == CHOOSE k : Solves(F, S, k)
           U == S \ {First(S)}
           h == CHOOSE k : Solves(F, U, k)
<1>1. Solves(F, S, g) /\ Solves(F, U, h) /\ IsFiniteSet(U) /\ U \in SUBSET S
  BY SolutionExists, FS_RemoveElement
<1>2. SumOf(F, S) = g[S] /\ SumOf(F, U) = h[U]
  BY SumIsChosen
<1> HIDE DEF g, h, U
<1>3. g[U] = h[U]
  BY <1>1, SolutionsAgree
<1>4. g[S] = IF S = {} THEN 0 ELSE F[First(S)] + g[U]
  BY <1>1 DEF Solves, Unrolled, U
<1> QED BY <1>2, <1>3, <1>4 DEF U

\* The sum over the empty set.
LEMMA SumOfNone == \A F : SumOf(F, {}) = 0
BY SumUnfolds, FS_EmptySet

\* A sum of naturals is a natural number.
LEMMA SumIsNat ==
  ASSUME NEW F, NEW S, IsFiniteSet(S), \A x \in S : F[x] \in Nat
  PROVE  SumOf(F, S) \in Nat
<1> DEFINE Q == {T \in SUBSET S : SumOf(F, T) \notin Nat}
<1>1. SUFFICES ASSUME Q # {} PROVE FALSE
  OBVIOUS
<1>2. PICK T \in Q : \A U \in Q : U \subseteq T => U = T
  <2>1. Q \in SUBSET (SUBSET S)
    OBVIOUS
  <2> HIDE DEF Q
  <2> QED BY <1>1, <2>1, SmallestSubset
<1> DEFINE U == T \ {First(T)}
<1>3. SumOf(F, T) = IF T = {} THEN 0 ELSE F[First(T)] + SumOf(F, U)
  BY <1>2, SumUnfolds, FS_Subset
<1>4. T # {}
  BY <1>2, <1>3
<1>5. U \in SUBSET S /\ U \subseteq T /\ U # T /\ First(T) \in S
  BY <1>2, <1>4, FirstIsMember
<1>6. U \notin Q
  <2> HIDE DEF Q, U
  <2> QED BY <1>2, <1>5
<1>7. SumOf(F, U) \in Nat /\ F[First(T)] \in Nat
  BY <1>5, <1>6
<1> HIDE DEF U
<1> QED BY <1>2, <1>3, <1>4, <1>7

\* The element that is taken first makes no difference.
LEMMA SumTakesOut ==
  ASSUME NEW F, NEW S, IsFiniteSet(S), \A x \in S : F[x] \in Nat, NEW x \in S
  PROVE  SumOf(F, S) = F[x] + SumOf(F, S \ {x})
<1> DEFINE Good(T) == \A y \in T : SumOf(F, T) = F[y] + SumOf(F, T \ {y})
           Q == {T \in SUBSET S : ~ Good(T)}
<1>1. SUFFICES ASSUME Q # {} PROVE FALSE
  OBVIOUS
<1>2. PICK T \in Q : \A U \in Q : U \subseteq T => U = T
  <2>1. Q \in SUBSET (SUBSET S)
    OBVIOUS
  <2> HIDE DEF Q
  <2> QED BY <1>1, <2>1, SmallestSubset
<1>3. PICK y \in T : SumOf(F, T) # F[y] + SumOf(F, T \ {y})
  BY <1>2
<1> DEFINE z == First(T)
<1>4. z \in T /\ T \in SUBSET S /\ y \in T /\ IsFiniteSet(T)
  BY <1>2, <1>3, FirstIsMember, FS_Subset
<1>5. SumOf(F, T) = F[z] + SumOf(F, T \ {z})
  BY <1>4, SumUnfolds
<1>6. \A U \in SUBSET T : U # T => Good(U)
  <2> SUFFICES ASSUME NEW U \in SUBSET T, U # T PROVE Good(U)
    OBVIOUS
  <2>1. U \in SUBSET S
    BY <1>4
  <2>2. U \notin Q
    <3> HIDE DEF Q
    <3> QED BY <1>2
  <2> QED BY <2>1, <2>2
<1> HIDE DEF z
<1>7. y # z
  BY <1>3, <1>5
<1>8. /\ SumOf(F, T \ {z}) = F[y] + SumOf(F, (T \ {z}) \ {y})
      /\ SumOf(F, T \ {y}) = F[z] + SumOf(F, (T \ {y}) \ {z})
  <2>1. Good(T \ {z}) /\ Good(T \ {y})
    <3>1. T \ {z} \in SUBSET T /\ T \ {y} \in SUBSET T /\ T \ {z} # T /\ T \ {y} # T
      BY <1>4
    <3> HIDE DEF Good
    <3> QED BY <3>1, <1>6
  <2> QED BY <2>1, <1>4, <1>7
<1>9. (T \ {z}) \ {y} = (T \ {y}) \ {z}
  OBVIOUS
<1>10. SumOf(F, (T \ {y}) \ {z}) \in Nat /\ F[y] \in Nat /\ F[z] \in Nat
  <2>1. IsFiniteSet((T \ {y}) \ {z}) /\ \A w \in (T \ {y}) \ {z} : F[w] \in Nat
    BY <1>4, FS_Subset
  <2> QED BY <2>1, <1>4, SumIsNat
<1> DEFINE rest == SumOf(F, (T \ {y}) \ {z})
<1>11. SumOf(F, T) = F[z] + (F[y] + rest) /\ SumOf(F, T \ {y}) = F[z] + rest
  BY <1>5, <1>8, <1>9, Zenon
<1>12. rest \in Nat
  BY <1>10
<1> HIDE DEF rest
<1>13. F[z] + (F[y] + rest) = F[y] + (F[z] + rest)
  BY <1>10, <1>12
<1> QED BY <1>3, <1>11, <1>13, Zenon

\* Adding an element adds its value.
LEMMA SumAdds ==
  ASSUME NEW F, NEW S, IsFiniteSet(S), NEW x, x \notin S,
         \A y \in S \cup {x} : F[y] \in Nat
  PROVE  SumOf(F, S \cup {x}) = F[x] + SumOf(F, S)
<1>1. IsFiniteSet(S \cup {x}) /\ x \in S \cup {x} /\ (S \cup {x}) \ {x} = S
  BY FS_AddElement
<1> QED BY <1>1, SumTakesOut

\* Only the values on the set count.
LEMMA SumDependsOnValues ==
  ASSUME NEW F, NEW G, NEW S, \A x \in S : F[x] = G[x]
  PROVE  SumOf(F, S) = SumOf(G, S)
<1>1. \A g : Unrolled(F, S, g) = Unrolled(G, S, g)
  BY FirstIsMember DEF Unrolled
<1>2. (CHOOSE g : Solves(F, S, g)) = (CHOOSE g : Solves(G, S, g))
  <2>1. \A g : Solves(F, S, g) <=> Solves(G, S, g)
    BY <1>1 DEF Solves
  <2> QED BY <2>1, Zenon
<1> QED BY <1>2, SumIsChosen

\* The sum over a union of disjoint sets.
LEMMA SumOfUnion ==
  ASSUME NEW F, NEW S, NEW T, IsFiniteSet(S), IsFiniteSet(T), S \cap T = {},
         \A x \in S \cup T : F[x] \in Nat
  PROVE  SumOf(F, S \cup T) = SumOf(F, S) + SumOf(F, T)
<1> DEFINE Good(V) == SumOf(F, S \cup V) = SumOf(F, S) + SumOf(F, V)
           Q == {V \in SUBSET T : ~ Good(V)}
<1>1. SUFFICES ASSUME Q # {} PROVE FALSE
  OBVIOUS
<1>2. PICK V \in Q : \A U \in Q : U \subseteq V => U = V
  <2>1. Q \in SUBSET (SUBSET T)
    OBVIOUS
  <2> HIDE DEF Q
  <2> QED BY <1>1, <2>1, SmallestSubset
<1>3. SumOf(F, S) \in Nat
  BY SumIsNat
<1>4. V # {}
  <2>1. S \cup {} = S
    OBVIOUS
  <2>2. Good({})
    BY <2>1, <1>3, SumOfNone
  <2> HIDE DEF Good
  <2> QED BY <1>2, <2>2
<1>5. PICK x \in V : TRUE
  BY <1>4
<1> DEFINE U == V \ {x}
<1>6. U \in SUBSET T /\ U \subseteq V /\ U # V /\ x \in T /\ x \notin S
  BY <1>2, <1>5
<1>7. Good(U)
  <2>1. U \notin Q
    <3> HIDE DEF Q, U
    <3> QED BY <1>2, <1>6
  <2> HIDE DEF U, Good
  <2> QED BY <2>1, <1>6
<1>8. SumOf(F, V) = F[x] + SumOf(F, U)
  <2>1. IsFiniteSet(V) /\ \A y \in V : F[y] \in Nat
    BY <1>2, FS_Subset
  <2> QED BY <2>1, <1>5, SumTakesOut
<1>9. SumOf(F, S \cup V) = F[x] + SumOf(F, S \cup U)
  <2>1. IsFiniteSet(S \cup V) /\ (\A y \in S \cup V : F[y] \in Nat) /\ x \in S \cup V
    BY <1>2, <1>5, FS_Subset, FS_Union
  <2>2. (S \cup V) \ {x} = S \cup U
    BY <1>6
  <2> QED BY <2>1, <2>2, SumTakesOut
<1>10. SumOf(F, U) \in Nat /\ F[x] \in Nat
  <2>1. IsFiniteSet(U) /\ \A y \in U : F[y] \in Nat
    BY <1>6, FS_Subset
  <2> HIDE DEF U
  <2> QED BY <2>1, <1>6, SumIsNat
<1> HIDE DEF U
<1>11. Good(V)
  BY <1>3, <1>7, <1>8, <1>9, <1>10
<1> QED BY <1>2, <1>11

\* Larger values have a larger sum.
LEMMA SumGrows ==
  ASSUME NEW F, NEW G, NEW S, IsFiniteSet(S),
         \A x \in S : F[x] \in Nat /\ G[x] \in Nat /\ F[x] <= G[x]
  PROVE  SumOf(F, S) <= SumOf(G, S)
<1> DEFINE Q == {T \in SUBSET S : ~ (SumOf(F, T) <= SumOf(G, T))}
<1>1. SUFFICES ASSUME Q # {} PROVE FALSE
  OBVIOUS
<1>2. PICK T \in Q : \A U \in Q : U \subseteq T => U = T
  <2>1. Q \in SUBSET (SUBSET S)
    OBVIOUS
  <2> HIDE DEF Q
  <2> QED BY <1>1, <2>1, SmallestSubset
<1>3. T # {}
  <2>1. SumOf(F, {}) <= SumOf(G, {})
    <3>1. SumOf(F, {}) = 0 /\ SumOf(G, {}) = 0
      BY SumOfNone, Zenon
    <3> QED BY <3>1
  <2>2. ~ (SumOf(F, T) <= SumOf(G, T))
    BY <1>2
  <2> QED BY <2>1, <2>2, Zenon
<1>4. PICK x \in T : TRUE
  BY <1>3
<1> DEFINE U == T \ {x}
<1>5. /\ U \in SUBSET S /\ U \subseteq T /\ U # T /\ x \in S /\ T \in SUBSET S
      /\ IsFiniteSet(T) /\ IsFiniteSet(U)
  BY <1>2, <1>4, FS_Subset
<1>6. SumOf(F, T) = F[x] + SumOf(F, U) /\ SumOf(G, T) = G[x] + SumOf(G, U)
  BY <1>4, <1>5, SumTakesOut
<1>7. SumOf(F, U) <= SumOf(G, U)
  <2>1. U \notin Q
    <3> HIDE DEF Q, U
    <3> QED BY <1>2, <1>5
  <2> HIDE DEF U
  <2> QED BY <2>1, <1>5
<1>8. SumOf(F, U) \in Nat /\ SumOf(G, U) \in Nat /\ F[x] \in Nat /\ G[x] \in Nat /\ F[x] <= G[x]
  BY <1>5, SumIsNat
<1> HIDE DEF U
<1>9. SumOf(F, T) <= SumOf(G, T)
  BY <1>6, <1>7, <1>8
<1> QED BY <1>2, <1>9

\* One value is no more than the sum.
LEMMA SumBoundsValues ==
  ASSUME NEW F, NEW S, IsFiniteSet(S), \A x \in S : F[x] \in Nat, NEW x \in S
  PROVE  F[x] <= SumOf(F, S)
<1>1. SumOf(F, S) = F[x] + SumOf(F, S \ {x})
  BY SumTakesOut
<1>2. SumOf(F, S \ {x}) \in Nat
  <2>1. IsFiniteSet(S \ {x}) /\ \A y \in S \ {x} : F[y] \in Nat
    BY FS_RemoveElement
  <2> QED BY <2>1, SumIsNat
<1> QED BY <1>1, <1>2

\* A sum that is not zero has a term that is not zero.
LEMMA SumHasTerm ==
  ASSUME NEW F, NEW S, IsFiniteSet(S), \A x \in S : F[x] \in Nat, SumOf(F, S) > 0
  PROVE  \E x \in S : F[x] > 0
<1> SUFFICES ASSUME \A x \in S : F[x] = 0 PROVE FALSE
  OBVIOUS
<1> DEFINE Q == {T \in SUBSET S : SumOf(F, T) # 0}
<1>1. Q # {}
  OBVIOUS
<1>2. PICK T \in Q : \A U \in Q : U \subseteq T => U = T
  <2>1. Q \in SUBSET (SUBSET S)
    OBVIOUS
  <2> HIDE DEF Q
  <2> QED BY <1>1, <2>1, SmallestSubset
<1>3. T # {}
  BY <1>2, SumOfNone
<1>4. PICK x \in T : TRUE
  BY <1>3
<1> DEFINE U == T \ {x}
<1>5. U \in SUBSET S /\ U \subseteq T /\ U # T /\ x \in S /\ T \in SUBSET S /\ IsFiniteSet(T)
  BY <1>2, <1>4, FS_Subset
<1>6. SumOf(F, T) = F[x] + SumOf(F, U)
  BY <1>4, <1>5, SumTakesOut
<1>7. SumOf(F, U) = 0
  <2>1. U \notin Q
    <3> HIDE DEF Q, U
    <3> QED BY <1>2, <1>5
  <2> HIDE DEF U
  <2> QED BY <2>1, <1>5
<1> HIDE DEF U
<1>8. SumOf(F, T) = 0
  BY <1>5, <1>6, <1>7
<1> QED BY <1>2, <1>8

\* A union of disjoint sets has as many elements as they have together.
LEMMA UnionCounts ==
  ASSUME NEW G, NEW C, NEW S, IsFiniteSet(S),
         \A x \in S : IsFiniteSet(G[x]) /\ C[x] = Cardinality(G[x]),
         \A x, y \in S : x # y => G[x] \cap G[y] = {}
  PROVE  /\ IsFiniteSet(UNION {G[x] : x \in S})
         /\ Cardinality(UNION {G[x] : x \in S}) = SumOf(C, S)
<1> DEFINE All(T) == UNION {G[x] : x \in T}
           Good(T) == IsFiniteSet(All(T)) /\ Cardinality(All(T)) = SumOf(C, T)
           Q == {T \in SUBSET S : ~ Good(T)}
<1>0. \A x \in S : C[x] \in Nat
  BY FS_CardinalityType
<1>1. SUFFICES ASSUME Q # {} PROVE FALSE
  OBVIOUS
<1>2. PICK T \in Q : \A U \in Q : U \subseteq T => U = T
  <2>1. Q \in SUBSET (SUBSET S)
    OBVIOUS
  <2> HIDE DEF Q
  <2> QED BY <1>1, <2>1, SmallestSubset
<1>3. T # {}
  <2>1. All({}) = {}
    OBVIOUS
  <2> HIDE DEF All
  <2>2. Good({})
    BY <2>1, SumOfNone, FS_EmptySet
  <2> HIDE DEF Good
  <2> QED BY <1>2, <2>2
<1>4. PICK x \in T : TRUE
  BY <1>3
<1> DEFINE U == T \ {x}
<1>5. U \in SUBSET S /\ U \subseteq T /\ U # T /\ x \in S /\ T \in SUBSET S /\ IsFiniteSet(T)
  BY <1>2, <1>4, FS_Subset
<1>6. SumOf(C, T) = C[x] + SumOf(C, U)
  BY <1>0, <1>4, <1>5, SumTakesOut
<1>7. Good(U)
  <2>1. U \notin Q
    <3> HIDE DEF Q, U
    <3> QED BY <1>2, <1>5
  <2> HIDE DEF U, Good
  <2> QED BY <2>1, <1>5
<1>8. All(T) = G[x] \cup All(U) /\ G[x] \cap All(U) = {}
  <2>1. ASSUME NEW e \in G[x] \cap All(U) PROVE FALSE
    <3>1. PICK y \in U : e \in G[y]
      OBVIOUS
    <3>2. y \in S /\ y # x
      BY <1>5
    <3> QED BY <3>1, <3>2, <1>5, <2>1
  <2>2. All(T) = G[x] \cup All(U)
    BY <1>4
  <2> HIDE DEF All, U
  <2> QED BY <2>1, <2>2
<1> HIDE DEF All, U
<1>9. /\ IsFiniteSet(All(T))
      /\ Cardinality(All(T)) = Cardinality(G[x]) + Cardinality(All(U)) - Cardinality({})
  <2>1. IsFiniteSet(G[x]) /\ IsFiniteSet(All(U))
    BY <1>5, <1>7
  <2> QED BY <1>8, <2>1, FS_Union
<1>10. Good(T)
  <2>1. Cardinality({}) = 0 /\ Cardinality(G[x]) \in Nat /\ Cardinality(All(U)) \in Nat /\ C[x] = Cardinality(G[x])
    BY <1>5, <1>7, FS_EmptySet, FS_CardinalityType
  <2> QED BY <2>1, <1>6, <1>7, <1>9
<1> HIDE DEF Good
<1> QED BY <1>2, <1>10
=============================================================================
