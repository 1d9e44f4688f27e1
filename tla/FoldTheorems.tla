---------------------------- MODULE FoldTheorems ---------------------------
(***************************************************************************)
(* What two operators of the community modules compute, whatever the size  *)
(* of what they are given: SumFunctionOnSet, which adds up a function on a *)
(* finite set, and FoldLeft, which follows a sequence.  Either is a        *)
(* recursive function on sets that CHOOSE picks.  That it is defined at    *)
(* all, and for sums that the order does not matter, rests on one          *)
(* principle of induction without an operator parameter: among the subsets *)
(* of a finite set that break a rule one is smallest.  The reservations of *)
(* a session, the commitments of a scope and the outputs of launches are   *)
(* such sums; the journals and histories that an inspection reads are such *)
(* folds.                                                                  *)
(***************************************************************************)
EXTENDS Integers, Functions, FiniteSetTheorems, WellFoundedInduction, TLAPS

\* g solves the recursion of the fold that adds up f, on the subsets of S.
Solves(g, f, S) ==
  g = [s \in SUBSET S |-> IF s = {} THEN 0
                          ELSE LET x == CHOOSE x \in s : TRUE IN f[x] + g[s \ {x}]]

\* A set of natural numbers has a least element.
LEMMA LeastNumber ==
  ASSUME NEW T, T \subseteq Nat, T # {}
  PROVE  \E n \in T : \A m \in T : n <= m
<1>1. PICK n \in T : \A m \in T : ~ (<<m, n>> \in OpToRel(<, Nat))
  BY NatLessThanWellFounded, WFMin, Zenon
<1>2. OpToRel(<, Nat) = {p \in Nat \X Nat : p[1] < p[2]}
  BY Zenon DEF OpToRel
<1>3. ASSUME NEW m \in T PROVE n <= m
  <2>1. <<m, n>> \in Nat \X Nat BY <1>3
  <2>2. ~ (m < n) BY <1>1, <1>2, <1>3, <2>1
  <2> QED BY <2>2, <2>1
<1> QED BY <1>3

\* Where the recursion has a solution the sum is the value of one.
LEMMA SumUnfolds ==
  ASSUME NEW f, NEW S, NEW h, Solves(h, f, S)
  PROVE  \E g : Solves(g, f, S) /\ SumFunctionOnSet(f, S) = g[S]
<1> DEFINE It == CHOOSE g : g = [s \in SUBSET S |-> IF s = {} THEN 0
                 ELSE LET x == CHOOSE x \in s : TRUE IN f[x] + g[s \ {x}]]
<1>1. Solves(It, f, S)
  BY Zenon DEF Solves
<1>2. SumFunctionOnSet(f, S) = It[S]
  BY DEF SumFunctionOnSet, FoldFunctionOnSet, MapThenFoldSet
<1> QED BY <1>1, <1>2

\* The recursion has a solution on a finite set, built size by size.
LEMMA SolutionExists ==
  ASSUME NEW f, NEW S, IsFiniteSet(S)
  PROVE  \E g : Solves(g, f, S)
<1> DEFINE Good(g, n) ==
      /\ g = [s \in SUBSET S |-> g[s]]
      /\ \A s \in SUBSET S : Cardinality(s) <= n =>
           g[s] = IF s = {} THEN 0
                  ELSE LET x == CHOOSE x \in s : TRUE IN f[x] + g[s \ {x}]
<1> DEFINE Solved(n) == \E g : Good(g, n)
<1> DEFINE T == {n \in Nat : ~ Solved(n)}
<1>1. \A s \in SUBSET S : IsFiniteSet(s) /\ Cardinality(s) \in Nat /\ Cardinality(s) <= Cardinality(S)
  BY FS_Subset, FS_CardinalityType
<1>2. T = {}
  <2> SUFFICES ASSUME T # {} PROVE FALSE
    OBVIOUS
  <2>1. PICK n \in T : \A m \in T : n <= m
    <3>1. T \subseteq Nat OBVIOUS
    <3> QED BY <3>1, LeastNumber, Zenon
  <2>2. n # 0
    <3> SUFFICES ASSUME n = 0 PROVE FALSE
      OBVIOUS
    <3> DEFINE g == [s \in SUBSET S |-> 0]
    <3>1. \A s \in SUBSET S : Cardinality(s) <= 0 => s = {}
      BY <1>1, FS_EmptySet
    <3>2. Good(g, 0)
      BY <3>1
    <3>3. Solved(0)
      <4> HIDE DEF Good, g
      <4> QED BY <3>2
    <3> QED 
      <4> HIDE DEF Solved
      <4> QED BY <3>3, <2>1
  <2>3. Solved(n - 1)
    <3> HIDE DEF Solved
    <3>1. n \in Nat /\ n - 1 \in Nat BY <2>2
    <3>2. n - 1 \notin T BY <2>1, <3>1
    <3> QED BY <3>1, <3>2
  <2>4. PICK g : Good(g, n - 1)
    BY <2>3
  <2> DEFINE h == [s \in SUBSET S |->
        IF s = {} THEN 0
        ELSE LET x == CHOOSE x \in s : TRUE IN f[x] + g[s \ {x}]]
  <2>5. \A s \in SUBSET S : Cardinality(s) <= n - 1 => h[s] = g[s]
    BY <2>4
  <2>6. ASSUME NEW s \in SUBSET S, Cardinality(s) <= n, s # {}
        PROVE  LET x == CHOOSE x \in s : TRUE
               IN  s \ {x} \in SUBSET S /\ Cardinality(s \ {x}) <= n - 1
    <3> DEFINE x == CHOOSE x \in s : TRUE
    <3>1. x \in s BY <2>6
    <3>2. Cardinality(s \ {x}) = Cardinality(s) - 1
      BY <3>1, <1>1, FS_RemoveElement
    <3>3. Cardinality(s) \in Nat /\ n \in Nat BY <1>1
    <3> QED BY <3>1, <3>2, <3>3, <2>6
  <2>7. Good(h, n)
    <3>1. h = [s \in SUBSET S |-> h[s]] OBVIOUS
    <3>2. ASSUME NEW s \in SUBSET S, Cardinality(s) <= n
          PROVE h[s] = IF s = {} THEN 0
                       ELSE LET x == CHOOSE x \in s : TRUE IN f[x] + h[s \ {x}]
      <4>1. CASE s = {} BY <4>1
      <4>2. CASE s # {}
        <5> DEFINE x == CHOOSE x \in s : TRUE
        <5>1. h[s] = f[x] + g[s \ {x}] BY <4>2
        <5>2. h[s \ {x}] = g[s \ {x}]
          <6>1. s \ {x} \in SUBSET S /\ Cardinality(s \ {x}) <= n - 1
            BY <3>2, <4>2, <2>6
          <6> HIDE DEF h, x
          <6> QED BY <6>1, <2>5
        <5>3. h[s] = f[x] + h[s \ {x}] BY <5>1, <5>2
        <5> HIDE DEF h
        <5> QED BY <5>3, <4>2
      <4> QED BY <4>1, <4>2
    <3> QED BY <3>1, <3>2
  <2>8. Solved(n) 
    <3> HIDE DEF Good, h
    <3> QED BY <2>7
  <2> QED 
    <3> HIDE DEF Solved
    <3> QED BY <2>8
<1>3. Solved(Cardinality(S))
  <2> HIDE DEF Solved
  <2> QED BY <1>1, <1>2
<1> PICK g : Good(g, Cardinality(S))
  BY <1>3
<1>4. Solves(g, f, S)
  BY <1>1 DEF Solves
<1> QED BY <1>4

\* Induction on subsets: a set of subsets has one that loses its membership with
\* any of its elements.
LEMMA SmallestSubset ==
  ASSUME NEW S, IsFiniteSet(S), NEW U, U \subseteq SUBSET S, U # {}
  PROVE  \E s \in U : \A x \in s : s \ {x} \notin U
<1> DEFINE Sizes == {Cardinality(s) : s \in U}
<1>1. \A s \in U : IsFiniteSet(s) /\ Cardinality(s) \in Nat
  BY FS_Subset, FS_CardinalityType
<1>2. PICK n \in Sizes : \A m \in Sizes : n <= m
  <2>1. Sizes \subseteq Nat /\ Sizes # {} BY <1>1
  <2> QED BY <2>1, LeastNumber, Zenon
<1>3. PICK s \in U : n = Cardinality(s)
  OBVIOUS
<1>4. ASSUME NEW x \in s, s \ {x} \in U PROVE FALSE
  <2>1. Cardinality(s \ {x}) = Cardinality(s) - 1
    BY <1>1, FS_RemoveElement
  <2>2. Cardinality(s \ {x}) \in Sizes BY <1>4
  <2>3. n <= Cardinality(s \ {x}) BY <1>2, <2>2
  <2> HIDE DEF Sizes
  <2>4. n \in Nat BY <1>1, <1>3
  <2> QED BY <2>1, <2>3, <2>4, <1>3
<1> QED BY <1>4

\* Numbers add up to a number.
LEMMA SolutionType ==
  ASSUME NEW f, NEW S, NEW g, IsFiniteSet(S), \A x \in S : f[x] \in Nat, Solves(g, f, S)
  PROVE  \A s \in SUBSET S : g[s] \in Nat
<1> DEFINE U == {t \in SUBSET S : g[t] \notin Nat}
<1>1. SUFFICES ASSUME U # {} PROVE FALSE
  OBVIOUS
<1>2. PICK s \in U : \A x \in s : s \ {x} \notin U
  <2>1. U \subseteq SUBSET S OBVIOUS
  <2> QED BY <2>1, <1>1, SmallestSubset, Zenon
<1>3. CASE s = {}
  BY <1>3 DEF Solves
<1>4. CASE s # {}
  <2> DEFINE x == CHOOSE x \in s : TRUE
  <2>1. x \in s BY <1>4
  <2>2. g[s] = f[x] + g[s \ {x}] BY <1>4 DEF Solves
  <2> HIDE DEF x
  <2> QED BY <2>1, <2>2, <1>2
<1> QED BY <1>3, <1>4

\* Any element can be taken first.
LEMMA SolutionTakesAny ==
  ASSUME NEW f, NEW S, NEW g, IsFiniteSet(S), \A x \in S : f[x] \in Nat, Solves(g, f, S)
  PROVE  \A s \in SUBSET S : \A y \in s : g[s] = f[y] + g[s \ {y}]
<1> DEFINE Any(s) == \A y \in s : g[s] = f[y] + g[s \ {y}]
<1> DEFINE U == {t \in SUBSET S : ~ Any(t)}
<1>1. SUFFICES ASSUME U # {} PROVE FALSE
  OBVIOUS
<1>2. PICK s \in U : \A x \in s : s \ {x} \notin U
  <2> HIDE DEF Any
  <2>1. U \subseteq SUBSET S OBVIOUS
  <2> QED BY <2>1, <1>1, SmallestSubset, Zenon
<1>3. s \in SUBSET S /\ \A z \in s : Any(s \ {z})
  <2> HIDE DEF Any
  <2> QED BY <1>2
<1>4. PICK y \in s : g[s] # f[y] + g[s \ {y}]
  OBVIOUS
<1> DEFINE x == CHOOSE x \in s : TRUE
<1>5. x \in s BY <1>4
<1>6. g[s] = f[x] + g[s \ {x}] BY <1>4, <1>3 DEF Solves
<1> HIDE DEF x
<1>7. x # y BY <1>4, <1>6
<1> DEFINE rest == g[(s \ {x}) \ {y}]
<1>8. g[s \ {x}] = f[y] + rest BY <1>3, <1>7, <1>5, <1>4
<1>9. g[s \ {y}] = f[x] + rest
  <2>1. (s \ {x}) \ {y} = (s \ {y}) \ {x} OBVIOUS
  <2> QED BY <2>1, <1>3, <1>7, <1>5, <1>4
<1>10. rest \in Nat /\ f[x] \in Nat /\ f[y] \in Nat
  BY <1>3, <1>5, <1>4, SolutionType
<1> HIDE DEF rest, U
<1>11. g[s] = f[x] + (f[y] + rest) BY <1>6, <1>8
<1>12. f[y] + (f[x] + rest) = f[x] + (f[y] + rest) BY <1>10
<1> QED BY <1>4, <1>9, <1>11, <1>12

\* What two functions share, they add up alike.
LEMMA SolutionsAgree ==
  ASSUME NEW e, NEW f, NEW R, NEW S, NEW g, NEW h, IsFiniteSet(R),
         \A x \in R \cap S : e[x] = f[x],
         Solves(g, e, R), Solves(h, f, S)
  PROVE  \A s \in SUBSET (R \cap S) : g[s] = h[s]
<1> DEFINE U == {t \in SUBSET (R \cap S) : g[t] # h[t]}
<1>1. SUFFICES ASSUME U # {} PROVE FALSE
  OBVIOUS
<1>2. PICK s \in U : \A x \in s : s \ {x} \notin U
  <2>1. U \subseteq SUBSET R OBVIOUS
  <2> HIDE DEF U
  <2> QED BY <2>1, <1>1, SmallestSubset, Zenon
<1>3. CASE s = {}
  BY <1>3 DEF Solves
<1>4. CASE s # {}
  <2> DEFINE x == CHOOSE x \in s : TRUE
  <2>1. x \in s BY <1>4
  <2>2. g[s] = e[x] + g[s \ {x}] BY <1>4 DEF Solves
  <2>3. h[s] = f[x] + h[s \ {x}] BY <1>4 DEF Solves
  <2> HIDE DEF x
  <2>4. e[x] = f[x] /\ g[s \ {x}] = h[s \ {x}] BY <2>1, <1>2
  <2> QED BY <2>2, <2>3, <2>4
<1> QED BY <1>3, <1>4

\* Nothing adds up to 0.
THEOREM SumOfNone ==
  ASSUME NEW f
  PROVE  SumFunctionOnSet(f, {}) = 0
<1>1. IsFiniteSet({}) BY FS_EmptySet
<1>2. PICK h : Solves(h, f, {}) BY <1>1, SolutionExists
<1>3. PICK g : Solves(g, f, {}) /\ SumFunctionOnSet(f, {}) = g[{}]
  BY <1>2, SumUnfolds
<1> QED BY <1>3 DEF Solves

\* Naturals add up to a natural.
THEOREM SumType ==
  ASSUME NEW f, NEW S, IsFiniteSet(S), \A x \in S : f[x] \in Nat
  PROVE  SumFunctionOnSet(f, S) \in Nat
<1>1. PICK h : Solves(h, f, S) BY SolutionExists
<1>2. PICK g : Solves(g, f, S) /\ SumFunctionOnSet(f, S) = g[S]
  BY <1>1, SumUnfolds
<1> QED BY <1>2, SolutionType

\* The sum depends on the values at the indices only.
THEOREM SumAgrees ==
  ASSUME NEW e, NEW f, NEW S, IsFiniteSet(S), \A x \in S : e[x] = f[x]
  PROVE  SumFunctionOnSet(e, S) = SumFunctionOnSet(f, S)
<1>1. PICK h : Solves(h, e, S) BY SolutionExists
<1>2. PICK g : Solves(g, e, S) /\ SumFunctionOnSet(e, S) = g[S]
  BY <1>1, SumUnfolds
<1>3. PICK i : Solves(i, f, S) BY SolutionExists
<1>4. PICK j : Solves(j, f, S) /\ SumFunctionOnSet(f, S) = j[S]
  BY <1>3, SumUnfolds
<1>5. g[S] = j[S] BY <1>2, <1>4, SolutionsAgree
<1> QED BY <1>2, <1>4, <1>5

\* An index contributes its value, whichever order the fold has taken: the reservation of
\* a step or the commitment of an attempt counts once in the total it belongs to.
THEOREM SumWith ==
  ASSUME NEW f, NEW S, IsFiniteSet(S), NEW y \in S, \A x \in S : f[x] \in Nat
  PROVE  SumFunctionOnSet(f, S) = f[y] + SumFunctionOnSet(f, S \ {y})
<1>1. PICK h : Solves(h, f, S) BY SolutionExists
<1>2. PICK g : Solves(g, f, S) /\ SumFunctionOnSet(f, S) = g[S]
  BY <1>1, SumUnfolds
<1>3. IsFiniteSet(S \ {y}) BY FS_Subset
<1>4. PICK i : Solves(i, f, S \ {y}) BY <1>3, SolutionExists
<1>5. PICK j : Solves(j, f, S \ {y}) /\ SumFunctionOnSet(f, S \ {y}) = j[S \ {y}]
  BY <1>4, SumUnfolds
<1>6. g[S \ {y}] = j[S \ {y}]
  <2>1. S \ {y} \in SUBSET (S \cap (S \ {y})) OBVIOUS
  <2>2. \A s \in SUBSET (S \cap (S \ {y})) : g[s] = j[s]
    BY <1>2, <1>5, SolutionsAgree
  <2> QED BY <2>1, <2>2
<1>7. g[S] = f[y] + g[S \ {y}]
  BY <1>2, SolutionTakesAny
<1> QED BY <1>2, <1>5, <1>6, <1>7

\* One more index adds its value.
THEOREM SumExtends ==
  ASSUME NEW e, NEW f, NEW S, IsFiniteSet(S), NEW y, y \notin S,
         \A x \in S : e[x] = f[x], \A x \in S \cup {y} : f[x] \in Nat
  PROVE  SumFunctionOnSet(f, S \cup {y}) = SumFunctionOnSet(e, S) + f[y]
<1>1. IsFiniteSet(S \cup {y}) BY FS_AddElement
<1>2. SumFunctionOnSet(f, S \cup {y}) = f[y] + SumFunctionOnSet(f, (S \cup {y}) \ {y})
  BY <1>1, SumWith
<1>3. (S \cup {y}) \ {y} = S OBVIOUS
<1>4. SumFunctionOnSet(e, S) = SumFunctionOnSet(f, S) BY SumAgrees
<1>5. SumFunctionOnSet(f, S) \in Nat BY SumType
<1>6. f[y] \in Nat OBVIOUS
<1> QED BY <1>2, <1>3, <1>4, <1>5, <1>6

\* A change at one index changes the sum by the difference.
THEOREM SumReplaces ==
  ASSUME NEW e, NEW f, NEW S, IsFiniteSet(S), NEW y \in S,
         \A x \in S \ {y} : e[x] = f[x],
         \A x \in S : e[x] \in Nat, \A x \in S : f[x] \in Nat
  PROVE  SumFunctionOnSet(f, S) = SumFunctionOnSet(e, S) - e[y] + f[y]
<1>1. IsFiniteSet(S \ {y}) BY FS_Subset
<1>2. SumFunctionOnSet(f, S) = f[y] + SumFunctionOnSet(f, S \ {y}) BY SumWith
<1>3. SumFunctionOnSet(e, S) = e[y] + SumFunctionOnSet(e, S \ {y}) BY SumWith
<1>4. SumFunctionOnSet(e, S \ {y}) = SumFunctionOnSet(f, S \ {y}) BY <1>1, SumAgrees
<1>5. SumFunctionOnSet(e, S \ {y}) \in Nat BY <1>1, SumType
<1> QED BY <1>2, <1>3, <1>4, <1>5

\* A sum of smaller values is smaller.
THEOREM SumBelow ==
  ASSUME NEW e, NEW f, NEW S, IsFiniteSet(S),
         \A x \in S : e[x] \in Nat /\ f[x] \in Nat /\ e[x] <= f[x]
  PROVE  SumFunctionOnSet(e, S) <= SumFunctionOnSet(f, S)
<1> DEFINE U == {t \in SUBSET S : ~ (SumFunctionOnSet(e, t) <= SumFunctionOnSet(f, t))}
<1>1. SUFFICES ASSUME U # {} PROVE FALSE
  OBVIOUS
<1>2. PICK s \in U : \A x \in s : s \ {x} \notin U
  <2>1. U \subseteq SUBSET S OBVIOUS
  <2> QED BY <2>1, <1>1, SmallestSubset, Zenon
<1>3. CASE s = {}
  BY <1>3, SumOfNone
<1>4. CASE s # {}
  <2>1. PICK x \in s : TRUE BY <1>4
  <2>2. /\ s \subseteq S /\ IsFiniteSet(s) /\ IsFiniteSet(s \ {x})
    BY FS_Subset
  <2>3. SumFunctionOnSet(e, s) = e[x] + SumFunctionOnSet(e, s \ {x}) BY <2>2, SumWith
  <2>4. SumFunctionOnSet(f, s) = f[x] + SumFunctionOnSet(f, s \ {x}) BY <2>2, SumWith
  <2>5. SumFunctionOnSet(e, s \ {x}) \in Nat /\ SumFunctionOnSet(f, s \ {x}) \in Nat
    BY <2>2, SumType
  <2>6. SumFunctionOnSet(e, s \ {x}) <= SumFunctionOnSet(f, s \ {x}) BY <1>2, <2>2
  <2>7. ~ (SumFunctionOnSet(e, s) <= SumFunctionOnSet(f, s)) OBVIOUS
  <2>8. e[x] \in Nat /\ f[x] \in Nat /\ e[x] <= f[x] BY <2>2
  <2> QED BY <2>3, <2>4, <2>5, <2>6, <2>7, <2>8
<1> QED BY <1>3, <1>4

\* A part adds up to no more than the whole.
THEOREM SumOfPart ==
  ASSUME NEW f, NEW R, NEW S, IsFiniteSet(S), R \subseteq S, \A x \in S : f[x] \in Nat
  PROVE  SumFunctionOnSet(f, R) <= SumFunctionOnSet(f, S)
<1> DEFINE U == {t \in SUBSET S : ~ (SumFunctionOnSet(f, R) <= SumFunctionOnSet(f, R \cup t))}
<1>1. SUFFICES ASSUME U # {} PROVE FALSE
  <2>1. S \in SUBSET S /\ R \cup S = S OBVIOUS
  <2> QED BY <2>1
<1>2. PICK s \in U : \A x \in s : s \ {x} \notin U
  <2>1. U \subseteq SUBSET S OBVIOUS
  <2> QED BY <2>1, <1>1, SmallestSubset, Zenon
<1>3. CASE s \subseteq R
  <2>1. R \cup s = R BY <1>3
  <2>2. IsFiniteSet(R) BY FS_Subset
  <2>3. SumFunctionOnSet(f, R) \in Nat BY <2>2, SumType
  <2> QED BY <2>1, <2>3
<1>4. CASE ~ (s \subseteq R)
  <2>1. PICK x \in s : x \notin R BY <1>4
  <2>2. s \subseteq S /\ IsFiniteSet(R \cup s) /\ IsFiniteSet(R \cup (s \ {x}))
    BY FS_Subset
  <2>3. SumFunctionOnSet(f, R \cup s) = f[x] + SumFunctionOnSet(f, (R \cup s) \ {x})
    BY <2>2, SumWith
  <2>4. (R \cup s) \ {x} = R \cup (s \ {x}) BY <2>1
  <2>5. SumFunctionOnSet(f, R \cup (s \ {x})) \in Nat BY <2>2, SumType
  <2>6. SumFunctionOnSet(f, R) <= SumFunctionOnSet(f, R \cup (s \ {x})) BY <1>2, <2>2
  <2>7. ~ (SumFunctionOnSet(f, R) <= SumFunctionOnSet(f, R \cup s)) OBVIOUS
  <2>8. IsFiniteSet(R) /\ f[x] \in Nat BY FS_Subset, <2>2
  <2>9. SumFunctionOnSet(f, R) \in Nat BY <2>8, SumType
  <2> QED BY <2>3, <2>4, <2>5, <2>6, <2>7, <2>8, <2>9
<1> QED BY <1>3, <1>4

\* One more entry of a sequence adds its value: a reservation more, or a launch more.
THEOREM SumAppends ==
  ASSUME NEW n \in Nat, NEW e, NEW f, DOMAIN e = 1 .. n, DOMAIN f = 1 .. (n + 1),
         \A i \in 1 .. n : e[i] = f[i], \A i \in 1 .. (n + 1) : f[i] \in Nat
  PROVE  SumFunction(f) = SumFunction(e) + f[n + 1]
<1>1. 1 .. (n + 1) = (1 .. n) \cup {n + 1} /\ n + 1 \notin 1 .. n
  OBVIOUS
<1>2. IsFiniteSet(1 .. n)
  BY FS_Interval
<1> DEFINE R == 1 .. n
           y == n + 1
<1>3. IsFiniteSet(R) /\ y \notin R /\ \A i \in R : e[i] = f[i]
  BY <1>1, <1>2
<1>4. \A i \in R \cup {y} : f[i] \in Nat
  BY <1>1
<1>5. DOMAIN e = R /\ DOMAIN f = R \cup {y}
  BY <1>1
<1> HIDE DEF R, y
<1>6. SumFunctionOnSet(f, R \cup {y}) = SumFunctionOnSet(e, R) + f[y]
  BY <1>3, <1>4, SumExtends
<1> QED
  BY <1>5, <1>6 DEF SumFunction, y
-----------------------------------------------------------------------------
(***************************************************************************)
(* FoldLeft of the community modules takes the greatest index first and    *)
(* folds what is left.  The folds that read a journal or a table are of    *)
(* this kind.  An operator cannot be a parameter of a lemma that is to be  *)
(* used; here it is a function, step, from an index and a state to the     *)
(* next state, on a set of states that it does not leave.                  *)
(***************************************************************************)
Top(s) == CHOOSE x \in s : \A y \in s : x >= y

\* What the recursion of the fold says of iter, as long as it stays in States.
Iterates(iter, n, States, base, step) ==
  \A s \in SUBSET (1 .. n) :
    IF s = {} THEN iter[s] = base
    ELSE iter[s \ {Top(s)}] \in States => iter[s] = step[<<Top(s), iter[s \ {Top(s)}]>>]

\* The states that the first elements lead to, one after the other.
Trace(h, n, States, base, step) ==
  /\ h \in [0 .. n -> States] /\ h[0] = base
  /\ \A k \in 1 .. n : h[k] = step[<<k, h[k - 1]>>]

LEMMA TopOfInterval ==
  ASSUME NEW k \in Nat \ {0}
  PROVE  Top(1 .. k) = k /\ (1 .. k) \ {k} = 1 .. (k - 1) /\ 1 .. k # {}
<1>1. k \in 1 .. k /\ \A y \in 1 .. k : k >= y
  OBVIOUS
<1>2. Top(1 .. k) \in 1 .. k /\ \A y \in 1 .. k : Top(1 .. k) >= y
  BY <1>1 DEF Top
<1> QED BY <1>1, <1>2

LEMMA TopIn ==
  ASSUME NEW n \in Nat, NEW s \in SUBSET (1 .. n), s # {}
  PROVE  Top(s) \in s /\ \A y \in s : Top(s) >= y
<1> DEFINE T == {m \in Nat : \A y \in s : m >= y}
<1>1. T \subseteq Nat /\ n \in T
  OBVIOUS
<1>2. PICK m \in T : \A other \in T : m <= other
  BY <1>1, LeastNumber
<1>3. m \in s
  <2> SUFFICES ASSUME m \notin s PROVE FALSE
    OBVIOUS
  <2>1. PICK y \in s : TRUE
    OBVIOUS
  <2>2. m >= y /\ y \in 1 .. n /\ m \in Nat
    BY <1>2, <2>1
  <2>3. \A z \in s : z <= m - 1
    <3> TAKE z \in s
    <3>1. z \in 1 .. n /\ z # m /\ m >= z
      BY <1>2
    <3> QED BY <2>2, <3>1
  <2>4. m - 1 \in T
    BY <2>2, <2>3
  <2> QED BY <1>2, <2>2, <2>4
<1>4. \A y \in s : m >= y
  BY <1>2
<1> HIDE DEF T
<1> QED BY <1>3, <1>4 DEF Top

\* A function that solves it and stays there.
Iteration(g, n, States, base, step) ==
  /\ g \in [SUBSET (1 .. n) -> States]
  /\ \A s \in SUBSET (1 .. n) :
       g[s] = IF s = {} THEN base ELSE step[<<Top(s), g[s \ {Top(s)}]>>]

\* The recursion has a solution, built index by index.
LEMMA IterationExists ==
  ASSUME NEW n \in Nat, NEW States, NEW base \in States, NEW step \in [(1 .. n) \X States -> States]
  PROVE  \E g : Iteration(g, n, States, base, step)
<1> DEFINE Good(g, m) ==
      /\ g \in [SUBSET (1 .. n) -> States]
      /\ \A s \in SUBSET (1 .. m) :
           g[s] = IF s = {} THEN base ELSE step[<<Top(s), g[s \ {Top(s)}]>>]
    T == {m \in Nat : m <= n /\ ~ \E g : Good(g, m)}
<1>1. T = {}
  <2> SUFFICES ASSUME T # {} PROVE FALSE
    OBVIOUS
  <2>1. PICK m \in T : \A other \in T : m <= other
    BY LeastNumber
  <2>2. m \in Nat /\ m <= n
    OBVIOUS
  <2>3. CASE m = 0
    <3> DEFINE g == [s \in SUBSET (1 .. n) |-> base]
    <3>1. \A s \in SUBSET (1 .. m) : s = {} /\ s \in SUBSET (1 .. n)
      BY <2>3
    <3>2. g \in [SUBSET (1 .. n) -> States]
      OBVIOUS
    <3>3. \A s \in SUBSET (1 .. m) : g[s] = IF s = {} THEN base ELSE step[<<Top(s), g[s \ {Top(s)}]>>]
      BY <3>1
    <3>4. Good(g, m)
      BY <3>2, <3>3
    <3> HIDE DEF Good
    <3> QED BY <2>1, <3>4
  <2>4. CASE m # 0
    <3>1. m - 1 \in Nat /\ m - 1 <= n /\ ~(m <= m - 1)
      BY <2>2, <2>4
    <3>2. PICK g : Good(g, m - 1)
      <4> HIDE DEF Good
      <4>1. m - 1 \notin T
        <5> HIDE DEF T
        <5> QED BY <2>1, <3>1
      <4> QED BY <3>1, <4>1
    <3> DEFINE h == [s \in SUBSET (1 .. n) |-> IF m \in s THEN step[<<m, g[s \ {m}]>>] ELSE g[s]]
    <3>3. h \in [SUBSET (1 .. n) -> States]
      <4>1. m \in 1 .. n
        BY <2>2, <2>4
      <4> QED BY <3>2, <4>1
    <3>4. ASSUME NEW s \in SUBSET (1 .. m)
          PROVE  h[s] = IF s = {} THEN base ELSE step[<<Top(s), h[s \ {Top(s)}]>>]
      <4>1. s \in SUBSET (1 .. n)
        BY <2>2
      <4>2. CASE m \in s
        <5>1. Top(s) = m
          <6>1. Top(s) \in s /\ Top(s) >= m
            BY <2>2, <4>2, TopIn
          <6>2. \A y \in s : y \in Nat /\ y <= m
            BY <2>2
          <6>3. m \in Nat /\ Top(s) \in Nat /\ Top(s) <= m /\ Top(s) >= m
            BY <2>2, <6>1, <6>2
          <6> HIDE DEF T, h, Good
          <6> QED BY <6>3
        <5>2. h[s] = step[<<m, g[s \ {m}]>>]
          BY <4>1, <4>2
        <5>3. h[s \ {m}] = g[s \ {m}]
          BY <4>1
        <5> HIDE DEF h
        <5> QED BY <4>2, <5>1, <5>2, <5>3
      <4>3. CASE m \notin s
        <5>1. s \in SUBSET (1 .. (m - 1))
          BY <2>2, <4>3
        <5>2. h[s] = g[s] /\ (\A x : h[s \ {x}] = g[s \ {x}])
          BY <4>1, <4>3
        <5>3. g[s] = IF s = {} THEN base ELSE step[<<Top(s), g[s \ {Top(s)}]>>]
          BY <3>2, <5>1
        <5> HIDE DEF h
        <5> QED BY <5>2, <5>3
      <4> QED BY <4>2, <4>3
    <3> HIDE DEF h
    <3>5. Good(h, m)
      BY <3>3, <3>4
    <3> HIDE DEF Good
    <3> QED BY <2>1, <3>5
  <2> QED BY <2>3, <2>4
<1>2. PICK g : Good(g, n)
  <2> HIDE DEF Good
  <2> QED BY <1>1
<1>3. Iteration(g, n, States, base, step)
  BY <1>2 DEF Iteration
<1> QED BY <1>3

\* Whatever solves it follows a trace on the first elements,
LEMMA IterationTraces ==
  ASSUME NEW n \in Nat, NEW States, NEW base \in States, NEW step \in [(1 .. n) \X States -> States],
         NEW iter, Iterates(iter, n, States, base, step)
  PROVE  Trace([k \in 0 .. n |-> iter[1 .. k]], n, States, base, step)
<1> DEFINE h == [k \in 0 .. n |-> iter[1 .. k]]
           T == {k \in 0 .. n : h[k] \notin States}
<1>1. h[0] = base
  <2>1. 1 .. 0 = {} /\ {} \in SUBSET (1 .. n) /\ 0 \in 0 .. n
    OBVIOUS
  <2>2. iter[{}] = base
    BY <2>1 DEF Iterates
  <2> QED BY <2>1, <2>2
<1>2. ASSUME NEW k \in 1 .. n, h[k - 1] \in States
      PROVE  h[k] = step[<<k, h[k - 1]>>]
  <2>1. Top(1 .. k) = k /\ (1 .. k) \ {k} = 1 .. (k - 1) /\ 1 .. k # {}
    <3>1. k \in Nat \ {0}
      OBVIOUS
    <3> QED BY <3>1, TopOfInterval
  <2>2. 1 .. k \in SUBSET (1 .. n) /\ k \in 0 .. n /\ k - 1 \in 0 .. n
    OBVIOUS
  <2>3. iter[1 .. (k - 1)] \in States => iter[1 .. k] = step[<<k, iter[1 .. (k - 1)]>>]
    <3> HIDE DEF h
    <3> QED BY <2>1, <2>2 DEF Iterates
  <2> QED BY <1>2, <2>2, <2>3
<1>3. T = {}
  <2> SUFFICES ASSUME T # {} PROVE FALSE
    OBVIOUS
  <2>1. PICK k \in T : \A other \in T : k <= other
    <3>1. T \subseteq Nat
      OBVIOUS
    <3> HIDE DEF T
    <3> QED BY <3>1, LeastNumber
  <2>2. k \in 0 .. n /\ h[k] \notin States
    BY <2>1
  <2>3. k # 0
    BY <1>1, <2>2
  <2>4. k \in 1 .. n /\ k - 1 \in 0 .. n /\ ~(k <= k - 1)
    BY <2>2, <2>3
  <2>5. h[k - 1] \in States
    <3> HIDE DEF h
    <3> QED BY <2>1, <2>4
  <2> HIDE DEF h
  <2> QED BY <1>2, <2>2, <2>4, <2>5
<1>4. \A k \in 0 .. n : h[k] \in States
  BY <1>3
<1>5. h \in [0 .. n -> States]
  BY <1>4
<1>6. \A k \in 1 .. n : h[k] = step[<<k, h[k - 1]>>]
  <2> TAKE k \in 1 .. n
  <2>1. k - 1 \in 0 .. n
    OBVIOUS
  <2> HIDE DEF h
  <2> QED BY <1>2, <1>4, <2>1
<1> HIDE DEF h
<1>7. Trace(h, n, States, base, step)
  BY <1>1, <1>5, <1>6 DEF Trace
<1> QED BY <1>7 DEF h

\* The same steps from the first m elements.
SameSteps(m, States, short, long) ==
  \A k \in 1 .. m : \A s \in States : long[<<k, s>>] = short[<<k, s>>]

\* and a trace goes one way, as long as the steps are the same.
LEMMA TracesAgree ==
  ASSUME NEW n \in Nat, NEW m \in Nat, m <= n, NEW States, NEW base,
         NEW short, NEW long, NEW g, NEW h,
         Trace(g, m, States, base, short), Trace(h, n, States, base, long),
         SameSteps(m, States, short, long)
  PROVE  \A k \in 0 .. m : h[k] = g[k]
<1> DEFINE T == {k \in 0 .. m : h[k] # g[k]}
<1> SUFFICES ASSUME T # {} PROVE FALSE
  OBVIOUS
<1>1. PICK k \in T : \A other \in T : k <= other
  <2>1. T \subseteq Nat
    OBVIOUS
  <2> HIDE DEF T
  <2> QED BY <2>1, LeastNumber
<1>2. k \in 0 .. m /\ k # 0 /\ h[k] # g[k]
  BY <1>1 DEF Trace
<1>3. k \in 1 .. m /\ k \in 1 .. n /\ k - 1 \in 0 .. m /\ ~(k <= k - 1)
  BY <1>2
<1>4. h[k - 1] = g[k - 1]
  BY <1>1, <1>3
<1>5. g[k - 1] \in States
  BY <1>3 DEF Trace
<1> QED BY <1>2, <1>3, <1>4, <1>5 DEF Trace, SameSteps
=============================================================================
