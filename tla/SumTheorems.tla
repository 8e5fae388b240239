----------------------------- MODULE SumTheorems -----------------------------
(***************************************************************************)
(* Facts about SumFunctionOnSet (module Functions), with which the modules *)
(* add up allocations, items and quantities, for any finite set.           *)
(*                                                                         *)
(* Proofs by induction over a finite set take a smallest counterexample    *)
(* (MinimalSubset); the recursive function inside the fold is the equation *)
(* SumEq, which has one solution (SumEqUnique, SumEqSolved).  The least    *)
(* and greatest members of a set of numbers come from the same lemma.      *)
(***************************************************************************)
EXTENDS Integers, FiniteSets, Functions, FiniteSetTheorems, WellFoundedInduction, TLAPS

-----------------------------------------------------------------------------
\* A non-empty set of subsets of a finite set has a smallest member.
LEMMA MinimalSubset ==
  ASSUME NEW S, IsFiniteSet(S), NEW T, T \subseteq SUBSET S, T # {}
  PROVE  \E x \in T : \A y \in T : ~(y \subseteq x /\ y # x)
<1>1. FiniteSubsetsOf(S) = SUBSET S
  BY FS_FiniteSubsetsOfFinite
<1>2. IsWellFoundedOn(StrictSubsetOrdering(S), FiniteSubsetsOf(S))
  BY FS_StrictSubsetOrderingWellFounded
<1>3. PICK x \in T : \A y \in T : ~(<<y, x>> \in StrictSubsetOrdering(S))
  BY <1>1, <1>2, WFMin
<1> QED
  BY <1>3 DEF StrictSubsetOrdering

\* A set of naturals up to n that is not empty has a greatest member.
LEMMA Greatest ==
  ASSUME NEW n \in Nat, NEW S \in SUBSET (0 .. n), S # {}
  PROVE  \E x \in S : \A y \in S : y <= x
<1> DEFINE T == {x .. n : x \in S}
<1>1. T \subseteq SUBSET (0 .. n) /\ T # {}
  <2>1. \A x \in S : x .. n \subseteq 0 .. n
    OBVIOUS
  <2> QED
    BY <2>1
<1>2. IsFiniteSet(0 .. n)
  BY FS_Interval
<1>3. PICK s \in T : \A y \in T : ~(y \subseteq s /\ y # s)
  <2> DEFINE U == 0 .. n
  <2>1. IsFiniteSet(U) /\ T \subseteq SUBSET U /\ T # {}
    BY <1>1, <1>2
  <2> HIDE DEF T, U
  <2> QED
    BY <2>1, MinimalSubset
<1>4. PICK x \in S : s = x .. n
  OBVIOUS
<1>5. ASSUME NEW y \in S PROVE y <= x
  <2>1. ~(y .. n \subseteq x .. n /\ y .. n # x .. n)
    BY <1>3, <1>4
  <2>2. ~(y <= x) => y .. n \subseteq x .. n /\ x \in x .. n /\ x \notin y .. n
    OBVIOUS
  <2> QED
    BY <2>1, <2>2
<1> QED
  BY <1>5

\* A set of naturals up to n that is not empty has a least member.
LEMMA Smallest ==
  ASSUME NEW n \in Nat, NEW S \in SUBSET (0 .. n), S # {}
  PROVE  \E x \in S : \A y \in S : x <= y
<1> DEFINE R == {n - x : x \in S}
<1>1. R \subseteq 0 .. n /\ R # {}
  <2>1. \A x \in S : x \in 0 .. n /\ n - x \in 0 .. n
    OBVIOUS
  <2> QED
    BY <2>1
<1>2. PICK z \in R : \A y \in R : y <= z
  <2> HIDE DEF R
  <2> QED
    BY <1>1, Greatest
<1>3. PICK x \in S : z = n - x
  OBVIOUS
<1>4. ASSUME NEW y \in S PROVE x <= y
  <2>1. n - y <= n - x
    BY <1>2, <1>3
  <2> QED
    BY <2>1
<1> QED
  BY <1>4

-----------------------------------------------------------------------------
(* The recursive function of the fold.                                     *)

Chosen(s) == CHOOSE x \in s : TRUE
SumEq(g, f, S) ==
    g = [s \in SUBSET S |-> IF s = {} THEN 0 ELSE f[Chosen(s)] + g[s \ {Chosen(s)}]]
SumFn(f, S) == CHOOSE g : SumEq(g, f, S)

\* A member is chosen.
LEMMA ChosenIn == ASSUME NEW s, s # {} PROVE Chosen(s) \in s
  BY DEF Chosen

\* The fold is the solution of SumEq.
LEMMA SumIsSumFn == ASSUME NEW f, NEW S PROVE SumFunctionOnSet(f, S) = SumFn(f, S)[S]
  BY Zenon DEF SumFunctionOnSet, FoldFunctionOnSet, MapThenFoldSet, SumFn, SumEq, Chosen

\* What a solution says of one set.
LEMMA SumEqAt ==
  ASSUME NEW g, NEW f, NEW S, SumEq(g, f, S), NEW s \in SUBSET S
  PROVE  g[s] = IF s = {} THEN 0 ELSE f[Chosen(s)] + g[s \ {Chosen(s)}]
<1> DEFINE e(x) == IF x = {} THEN 0 ELSE f[Chosen(x)] + g[x \ {Chosen(x)}]
<1>1. g = [x \in SUBSET S |-> e(x)]
  BY DEF SumEq
<1> HIDE DEF e
<1>2. g[s] = e(s)
  BY <1>1
<1> QED
  BY <1>2 DEF e

\* Two solutions agree, also where one is over a larger set.
LEMMA SumEqUnique ==
  ASSUME NEW f, NEW S, IsFiniteSet(S), NEW U, S \subseteq U,
         NEW g, SumEq(g, f, S), NEW h, SumEq(h, f, U)
  PROVE  g[S] = h[S]
<1> DEFINE T == {s \in SUBSET S : g[s] # h[s]}
<1>0. S \in SUBSET S /\ T \subseteq SUBSET S
  OBVIOUS
<1> SUFFICES ASSUME T # {} PROVE FALSE
  BY <1>0
<1> HIDE DEF T
<1>1. PICK s \in T : \A y \in T : ~(y \subseteq s /\ y # s)
  BY <1>0, MinimalSubset
<1> USE DEF T
<1>2. s \in SUBSET S /\ s \in SUBSET U /\ g[s] # h[s]
  BY <1>1
<1>3. s # {}
  BY <1>2, SumEqAt
<1>4. Chosen(s) \in s
  BY <1>3, ChosenIn
<1>5. g[s \ {Chosen(s)}] = h[s \ {Chosen(s)}]
  BY <1>1, <1>2, <1>4
<1>6. /\ g[s] = f[Chosen(s)] + g[s \ {Chosen(s)}]
      /\ h[s] = f[Chosen(s)] + h[s \ {Chosen(s)}]
  BY <1>2, <1>3, SumEqAt
<1> QED
  BY <1>2, <1>5, <1>6

\* There is a solution.
LEMMA SumEqSolved ==
  ASSUME NEW f, NEW S, IsFiniteSet(S)
  PROVE  SumEq(SumFn(f, S), f, S)
<1> DEFINE T == {s \in SUBSET S : ~ \E g : SumEq(g, f, s)}
<1>1. SUFFICES T = {}
  <2>1. \E g : SumEq(g, f, S)
    BY <1>1
  <2> QED
    BY <2>1, Zenon DEF SumFn
<1>2. SUFFICES ASSUME NEW s \in SUBSET S,
                      \A y \in SUBSET S : y \subseteq s /\ y # s => \E g : SumEq(g, f, y)
               PROVE  \E g : SumEq(g, f, s)
  <2> SUFFICES ASSUME T # {} PROVE FALSE
    OBVIOUS
  <2>0. T \subseteq SUBSET S
    OBVIOUS
  <2> HIDE DEF T
  <2>1. PICK m \in T : \A y \in T : ~(y \subseteq m /\ y # m)
    BY <2>0, MinimalSubset
  <2> USE DEF T
  <2>2. /\ m \in SUBSET S
        /\ ~ \E g : SumEq(g, f, m)
        /\ \A y \in SUBSET S : y \subseteq m /\ y # m => \E g : SumEq(g, f, y)
    BY <2>1
  <2> QED
    BY <2>2, <1>2
<1>3. \A y \in SUBSET S : y \subseteq s /\ y # s => SumEq(SumFn(f, y), f, y)
  BY <1>2, Zenon DEF SumFn
<1> DEFINE v(y) == SumFn(f, y)[y]
           e(x) == IF x = {} THEN 0 ELSE f[Chosen(x)] + v(x \ {Chosen(x)})
           g == [x \in SUBSET s |-> e(x)]
<1>4. ASSUME NEW x \in SUBSET s, x # s PROVE v(x) = e(x)
  <2>1. SumEq(SumFn(f, x), f, x)
    BY <1>3, <1>4
  <2>2. v(x) = IF x = {} THEN 0 ELSE f[Chosen(x)] + SumFn(f, x)[x \ {Chosen(x)}]
    BY <2>1, SumEqAt
  <2>3. CASE x = {}
    BY <2>2, <2>3
  <2>4. CASE x # {}
    <3> DEFINE y == x \ {Chosen(x)}
    <3>1. Chosen(x) \in x
      BY <2>4, ChosenIn
    <3>2. y \in SUBSET S /\ y \subseteq s /\ y # s /\ y \subseteq x
      BY <3>1, <1>4
    <3>3. SumEq(SumFn(f, y), f, y) /\ IsFiniteSet(y)
      BY <3>2, <1>3, FS_Subset
    <3> HIDE DEF y
    <3>4. SumFn(f, y)[y] = SumFn(f, x)[y]
      BY <2>1, <3>2, <3>3, SumEqUnique
    <3> QED
      BY <2>2, <2>4, <3>4 DEF y
  <2> QED
    BY <2>3, <2>4
<1>5. ASSUME NEW x \in SUBSET s, x # {} PROVE v(x \ {Chosen(x)}) = g[x \ {Chosen(x)}]
  <2>1. Chosen(x) \in x
    BY <1>5, ChosenIn
  <2>2. x \ {Chosen(x)} \in SUBSET s /\ x \ {Chosen(x)} # s
    BY <2>1
  <2> HIDE DEF v, e
  <2> QED
    BY <2>2, <1>4
<1>6. \A x \in SUBSET s : e(x) = IF x = {} THEN 0 ELSE f[Chosen(x)] + g[x \ {Chosen(x)}]
  <2> HIDE DEF v, g
  <2> QED
    BY <1>5
<1>7. g = [x \in SUBSET s |-> IF x = {} THEN 0 ELSE f[Chosen(x)] + g[x \ {Chosen(x)}]]
  <2>1. g = [x \in SUBSET s |-> e(x)]
    OBVIOUS
  <2> HIDE DEF e, g, v
  <2> QED
    BY <1>6, <2>1
<1> QED
  BY <1>7 DEF SumEq

-----------------------------------------------------------------------------
(* What a sum is.                                                          *)

\* The sum over nothing.
LEMMA SumEmpty == ASSUME NEW f PROVE SumFunctionOnSet(f, {}) = 0
<1>1. SumEq(SumFn(f, {}), f, {})
  BY SumEqSolved, FS_EmptySet
<1>2. SumFn(f, {})[{}] = 0
  BY <1>1, SumEqAt
<1> QED
  BY <1>2, SumIsSumFn

\* The sum over more, by the member the fold takes first.
LEMMA SumChosen ==
  ASSUME NEW f, NEW S, IsFiniteSet(S), S # {}
  PROVE  SumFunctionOnSet(f, S) = f[Chosen(S)] + SumFunctionOnSet(f, S \ {Chosen(S)})
<1> DEFINE U == S \ {Chosen(S)}
<1>1. SumEq(SumFn(f, S), f, S)
  BY SumEqSolved
<1>2. SumFn(f, S)[S] = f[Chosen(S)] + SumFn(f, S)[U]
  BY <1>1, SumEqAt
<1>3. IsFiniteSet(U) /\ U \subseteq S
  BY FS_Subset
<1> HIDE DEF U
<1>4. SumEq(SumFn(f, U), f, U)
  BY <1>3, SumEqSolved
<1>5. SumFn(f, U)[U] = SumFn(f, S)[U]
  BY <1>1, <1>3, <1>4, SumEqUnique
<1> QED
  BY <1>2, <1>5, SumIsSumFn DEF U

\* A sum of integers is an integer.
LEMMA SumType ==
  ASSUME NEW S, IsFiniteSet(S), NEW f, \A x \in S : f[x] \in Int
  PROVE  SumFunctionOnSet(f, S) \in Int
<1> DEFINE T == {s \in SUBSET S : SumFunctionOnSet(f, s) \notin Int}
<1>1. S \in SUBSET S /\ T \subseteq SUBSET S
  OBVIOUS
<1> SUFFICES ASSUME T # {} PROVE FALSE
  BY <1>1
<1> HIDE DEF T
<1>2. PICK s \in T : \A y \in T : ~(y \subseteq s /\ y # s)
  BY <1>1, MinimalSubset
<1> USE DEF T
<1>3. s \in SUBSET S /\ SumFunctionOnSet(f, s) \notin Int
  BY <1>2
<1>4. s # {}
  BY <1>3, SumEmpty
<1>5. Chosen(s) \in s
  BY <1>4, ChosenIn
<1>6. SumFunctionOnSet(f, s \ {Chosen(s)}) \in Int
  BY <1>2, <1>3, <1>5
<1>7. IsFiniteSet(s)
  BY <1>3, FS_Subset
<1>8. SumFunctionOnSet(f, s) = f[Chosen(s)] + SumFunctionOnSet(f, s \ {Chosen(s)})
  BY <1>4, <1>7, SumChosen
<1> QED
  BY <1>3, <1>5, <1>6, <1>8

\* A sum of naturals is a natural.
LEMMA SumNat ==
  ASSUME NEW S, IsFiniteSet(S), NEW f, \A x \in S : f[x] \in Nat
  PROVE  SumFunctionOnSet(f, S) \in Nat
<1> DEFINE T == {s \in SUBSET S : SumFunctionOnSet(f, s) \notin Nat}
<1>1. S \in SUBSET S /\ T \subseteq SUBSET S
  OBVIOUS
<1> SUFFICES ASSUME T # {} PROVE FALSE
  BY <1>1
<1> HIDE DEF T
<1>2. PICK s \in T : \A y \in T : ~(y \subseteq s /\ y # s)
  BY <1>1, MinimalSubset
<1> USE DEF T
<1>3. s \in SUBSET S /\ SumFunctionOnSet(f, s) \notin Nat
  BY <1>2
<1>4. s # {}
  BY <1>3, SumEmpty
<1>5. Chosen(s) \in s
  BY <1>4, ChosenIn
<1>6. SumFunctionOnSet(f, s \ {Chosen(s)}) \in Nat
  BY <1>2, <1>3, <1>5
<1>7. IsFiniteSet(s)
  BY <1>3, FS_Subset
<1>8. SumFunctionOnSet(f, s) = f[Chosen(s)] + SumFunctionOnSet(f, s \ {Chosen(s)})
  BY <1>4, <1>7, SumChosen
<1> QED
  BY <1>3, <1>5, <1>6, <1>8

\* Any member may be taken first.
LEMMA SumRemove ==
  ASSUME NEW S, IsFiniteSet(S), NEW f, \A x \in S : f[x] \in Int, NEW x \in S
  PROVE  SumFunctionOnSet(f, S) = f[x] + SumFunctionOnSet(f, S \ {x})
<1> DEFINE P(s) == \A z \in s : SumFunctionOnSet(f, s) = f[z] + SumFunctionOnSet(f, s \ {z})
           T == {s \in SUBSET S : ~P(s)}
<1>1. S \in SUBSET S /\ T \subseteq SUBSET S
  OBVIOUS
<1>2. SUFFICES ASSUME T # {} PROVE FALSE
  BY <1>1
<1> HIDE DEF T
<1>3. PICK s \in T : \A y \in T : ~(y \subseteq s /\ y # s)
  BY <1>1, <1>2, MinimalSubset
<1> USE DEF T
<1>4. s \in SUBSET S /\ ~P(s) /\ \A y \in SUBSET S : y \subseteq s /\ y # s => P(y)
  BY <1>3
<1>5. PICK z \in s : SumFunctionOnSet(f, s) # f[z] + SumFunctionOnSet(f, s \ {z})
  BY <1>4
<1> DEFINE c == Chosen(s)
<1>6. c \in s
  BY <1>5, ChosenIn
<1>7. \A y \in SUBSET s : IsFiniteSet(y)
  BY <1>4, FS_Subset
<1>8. SumFunctionOnSet(f, s) = f[c] + SumFunctionOnSet(f, s \ {c})
  BY <1>5, <1>7, SumChosen
<1> HIDE DEF c, P, T
<1>9. c # z
  BY <1>5, <1>8
<1>10. P(s \ {c}) /\ P(s \ {z})
  BY <1>4, <1>5, <1>6
<1>11. SumFunctionOnSet(f, s \ {c}) = f[z] + SumFunctionOnSet(f, (s \ {c}) \ {z})
  BY <1>5, <1>9, <1>10 DEF P
<1>12. SumFunctionOnSet(f, s \ {z}) = f[c] + SumFunctionOnSet(f, (s \ {z}) \ {c})
  BY <1>6, <1>9, <1>10 DEF P
<1>13. (s \ {c}) \ {z} = (s \ {z}) \ {c}
  OBVIOUS
<1>14. SumFunctionOnSet(f, (s \ {z}) \ {c}) \in Int
  BY <1>4, <1>7, SumType
<1>15. f[z] \in Int /\ f[c] \in Int
  BY <1>4, <1>5, <1>6
<1>16. SumFunctionOnSet(f, s \ {c}) = f[z] + SumFunctionOnSet(f, (s \ {z}) \ {c})
  BY <1>11, <1>13
<1> DEFINE rest == SumFunctionOnSet(f, (s \ {z}) \ {c})
<1>17. /\ SumFunctionOnSet(f, s) = f[c] + (f[z] + rest)
       /\ f[z] + SumFunctionOnSet(f, s \ {z}) = f[z] + (f[c] + rest)
  BY <1>8, <1>12, <1>16
<1> HIDE DEF rest
<1>18. f[c] + (f[z] + rest) = f[z] + (f[c] + rest)
  BY <1>14, <1>15 DEF rest
<1> QED
  BY <1>5, <1>17, <1>18

-----------------------------------------------------------------------------
(* How sums change.                                                        *)

\* Functions that agree have the same sum.
LEMMA SumSame ==
  ASSUME NEW S, IsFiniteSet(S), NEW f, NEW g, \A x \in S : f[x] = g[x]
  PROVE  SumFunctionOnSet(f, S) = SumFunctionOnSet(g, S)
<1> DEFINE T == {s \in SUBSET S : SumFunctionOnSet(f, s) # SumFunctionOnSet(g, s)}
<1>1. S \in SUBSET S /\ T \subseteq SUBSET S
  OBVIOUS
<1> SUFFICES ASSUME T # {} PROVE FALSE
  BY <1>1
<1> HIDE DEF T
<1>2. PICK s \in T : \A y \in T : ~(y \subseteq s /\ y # s)
  BY <1>1, MinimalSubset
<1> USE DEF T
<1>3. s \in SUBSET S /\ SumFunctionOnSet(f, s) # SumFunctionOnSet(g, s)
  BY <1>2
<1>4. s # {}
  BY <1>3, SumEmpty
<1>5. Chosen(s) \in s
  BY <1>4, ChosenIn
<1>6. SumFunctionOnSet(f, s \ {Chosen(s)}) = SumFunctionOnSet(g, s \ {Chosen(s)})
  BY <1>2, <1>3, <1>5
<1>7. IsFiniteSet(s)
  BY <1>3, FS_Subset
<1>8. /\ SumFunctionOnSet(f, s) = f[Chosen(s)] + SumFunctionOnSet(f, s \ {Chosen(s)})
      /\ SumFunctionOnSet(g, s) = g[Chosen(s)] + SumFunctionOnSet(g, s \ {Chosen(s)})
  BY <1>4, <1>7, SumChosen
<1>9. f[Chosen(s)] = g[Chosen(s)]
  BY <1>3, <1>5
<1> QED
  BY <1>3, <1>6, <1>8, <1>9

\* A sum moves by what one term of it moves.
LEMMA SumUpdate ==
  ASSUME NEW S, IsFiniteSet(S), NEW f, NEW g, NEW x \in S,
         \A y \in S : f[y] \in Int /\ g[y] \in Int,
         \A y \in S \ {x} : g[y] = f[y]
  PROVE  SumFunctionOnSet(g, S) = SumFunctionOnSet(f, S) - f[x] + g[x]
<1>1. IsFiniteSet(S \ {x})
  BY FS_Subset
<1>2. SumFunctionOnSet(g, S \ {x}) = SumFunctionOnSet(f, S \ {x})
  BY <1>1, SumSame
<1>3. SumFunctionOnSet(f, S \ {x}) \in Int
  BY <1>1, SumType
<1>4. SumFunctionOnSet(f, S) = f[x] + SumFunctionOnSet(f, S \ {x})
  BY SumRemove
<1>5. SumFunctionOnSet(g, S) = g[x] + SumFunctionOnSet(g, S \ {x})
  BY SumRemove
<1> QED
  BY <1>2, <1>3, <1>4, <1>5

\* ... and by one more member.
LEMMA SumAdd ==
  ASSUME NEW S, IsFiniteSet(S), NEW x, x \notin S,
         NEW f, \A y \in S \cup {x} : f[y] \in Int
  PROVE  SumFunctionOnSet(f, S \cup {x}) = SumFunctionOnSet(f, S) + f[x]
<1>1. IsFiniteSet(S \cup {x})
  BY FS_AddElement
<1>2. (S \cup {x}) \ {x} = S
  OBVIOUS
<1>3. SumFunctionOnSet(f, S \cup {x}) = f[x] + SumFunctionOnSet(f, (S \cup {x}) \ {x})
  BY <1>1, SumRemove
<1>4. SumFunctionOnSet(f, S) \in Int /\ f[x] \in Int
  BY SumType
<1>5. SumFunctionOnSet(f, S \cup {x}) = f[x] + SumFunctionOnSet(f, S)
  BY <1>2, <1>3
<1> QED
  BY <1>4, <1>5

\* A sum of nothing but zeros.
LEMMA SumZero ==
  ASSUME NEW S, IsFiniteSet(S), NEW f, \A x \in S : f[x] = 0
  PROVE  SumFunctionOnSet(f, S) = 0
<1> DEFINE T == {s \in SUBSET S : SumFunctionOnSet(f, s) # 0}
<1>1. S \in SUBSET S /\ T \subseteq SUBSET S
  OBVIOUS
<1> SUFFICES ASSUME T # {} PROVE FALSE
  BY <1>1
<1> HIDE DEF T
<1>2. PICK s \in T : \A y \in T : ~(y \subseteq s /\ y # s)
  BY <1>1, MinimalSubset
<1> USE DEF T
<1>3. s \in SUBSET S /\ SumFunctionOnSet(f, s) # 0
  BY <1>2
<1>4. s # {}
  BY <1>3, SumEmpty
<1>5. Chosen(s) \in s
  BY <1>4, ChosenIn
<1>6. SumFunctionOnSet(f, s \ {Chosen(s)}) = 0
  BY <1>2, <1>3, <1>5
<1>7. IsFiniteSet(s)
  BY <1>3, FS_Subset
<1>8. SumFunctionOnSet(f, s) = f[Chosen(s)] + SumFunctionOnSet(f, s \ {Chosen(s)})
  BY <1>4, <1>7, SumChosen
<1>9. f[Chosen(s)] = 0
  BY <1>3, <1>5
<1> QED
  BY <1>3, <1>6, <1>8, <1>9

\* A term of a sum of naturals is no more than the sum.
LEMMA SumTerm ==
  ASSUME NEW S, IsFiniteSet(S), NEW f, \A x \in S : f[x] \in Nat, NEW x \in S
  PROVE  f[x] <= SumFunctionOnSet(f, S)
<1>1. IsFiniteSet(S \ {x})
  BY FS_Subset
<1>2. SumFunctionOnSet(f, S \ {x}) \in Nat
  BY <1>1, SumNat
<1>3. SumFunctionOnSet(f, S) = f[x] + SumFunctionOnSet(f, S \ {x})
  BY SumRemove
<1> QED
  BY <1>2, <1>3

\* Larger terms have a larger sum.
LEMMA SumMonotone ==
  ASSUME NEW S, IsFiniteSet(S), NEW f, NEW g,
         \A x \in S : f[x] \in Int /\ g[x] \in Int /\ f[x] <= g[x]
  PROVE  SumFunctionOnSet(f, S) <= SumFunctionOnSet(g, S)
<1> DEFINE T == {s \in SUBSET S : ~(SumFunctionOnSet(f, s) <= SumFunctionOnSet(g, s))}
<1>1. S \in SUBSET S /\ T \subseteq SUBSET S
  OBVIOUS
<1> SUFFICES ASSUME T # {} PROVE FALSE
  BY <1>1
<1> HIDE DEF T
<1>2. PICK s \in T : \A y \in T : ~(y \subseteq s /\ y # s)
  BY <1>1, MinimalSubset
<1> USE DEF T
<1>3. s \in SUBSET S /\ ~(SumFunctionOnSet(f, s) <= SumFunctionOnSet(g, s))
  BY <1>2
<1>4. s # {}
  BY <1>3, SumEmpty
<1> DEFINE c == Chosen(s)
           u == s \ {c}
<1>5. c \in s
  BY <1>4, ChosenIn
<1>6. SumFunctionOnSet(f, u) <= SumFunctionOnSet(g, u)
  BY <1>2, <1>3, <1>5
<1>7. IsFiniteSet(s) /\ IsFiniteSet(u)
  BY <1>3, FS_Subset
<1>8. /\ SumFunctionOnSet(f, s) = f[c] + SumFunctionOnSet(f, u)
      /\ SumFunctionOnSet(g, s) = g[c] + SumFunctionOnSet(g, u)
  BY <1>4, <1>7, SumChosen
<1>9. f[c] \in Int /\ g[c] \in Int /\ f[c] <= g[c]
  BY <1>3, <1>5
<1>10. SumFunctionOnSet(f, u) \in Int /\ SumFunctionOnSet(g, u) \in Int
  BY <1>3, <1>7, SumType
<1> HIDE DEF c, u, T
<1> QED
  BY <1>3, <1>6, <1>8, <1>9, <1>10

\* A larger set has a larger sum.
LEMMA SumSubset ==
  ASSUME NEW U, IsFiniteSet(U), NEW S, S \subseteq U, NEW f, \A x \in U : f[x] \in Nat
  PROVE  SumFunctionOnSet(f, S) <= SumFunctionOnSet(f, U)
<1> DEFINE T == {u \in SUBSET U : S \subseteq u /\ ~(SumFunctionOnSet(f, S) <= SumFunctionOnSet(f, u))}
<1>1. U \in SUBSET U /\ T \subseteq SUBSET U
  OBVIOUS
<1> SUFFICES ASSUME T # {} PROVE FALSE
  BY <1>1
<1> HIDE DEF T
<1>2. PICK u \in T : \A y \in T : ~(y \subseteq u /\ y # u)
  BY <1>1, MinimalSubset
<1> USE DEF T
<1>3. u \in SUBSET U /\ S \subseteq u /\ ~(SumFunctionOnSet(f, S) <= SumFunctionOnSet(f, u))
  BY <1>2
<1>4. IsFiniteSet(u) /\ IsFiniteSet(S)
  BY <1>3, FS_Subset
<1>5. SumFunctionOnSet(f, S) \in Nat /\ SumFunctionOnSet(f, u) \in Nat
  BY <1>3, <1>4, SumNat
<1>6. PICK x \in u : x \notin S
  BY <1>3, <1>5
<1>7. SumFunctionOnSet(f, S) <= SumFunctionOnSet(f, u \ {x})
  BY <1>2, <1>3, <1>6
<1>8. SumFunctionOnSet(f, u) = f[x] + SumFunctionOnSet(f, u \ {x})
  BY <1>3, <1>4, <1>6, SumRemove
<1>9. f[x] \in Nat /\ SumFunctionOnSet(f, u \ {x}) \in Nat
  <2>1. IsFiniteSet(u \ {x})
    BY <1>4, FS_Subset
  <2> QED
    BY <1>3, <1>6, <2>1, SumNat
<1> HIDE DEF T
<1> QED
  BY <1>3, <1>5, <1>7, <1>8, <1>9

\* A sum of terms of d each is d times their number.
LEMMA SumConstant ==
  ASSUME NEW S, IsFiniteSet(S), NEW d \in Nat, NEW f, \A x \in S : f[x] = d
  PROVE  SumFunctionOnSet(f, S) = Cardinality(S) * d
<1> DEFINE P(s) == SumFunctionOnSet(f, s) = Cardinality(s) * d
           T == {s \in SUBSET S : ~P(s)}
<1> SUFFICES ASSUME ~P(S) PROVE FALSE
  OBVIOUS
<1>1. S \in T
  OBVIOUS
<1> HIDE DEF T
<1>2. PICK s \in T : \A y \in T : ~(y \subseteq s /\ y # s)
  <2>1. T \subseteq SUBSET S /\ T # {}
    BY <1>1 DEF T
  <2> QED
    BY <2>1, MinimalSubset
<1>3. s \subseteq S /\ ~P(s) /\ IsFiniteSet(s)
  BY <1>2, FS_Subset DEF T
<1>4. CASE s = {}
  BY <1>3, <1>4, SumEmpty, FS_EmptySet
<1>5. CASE s # {}
  <2>1. PICK x \in s : TRUE
    BY <1>5
  <2>2. /\ IsFiniteSet(s \ {x}) /\ Cardinality(s \ {x}) = Cardinality(s) - 1
        /\ Cardinality(s) \in Nat
    BY <1>3, <2>1, FS_RemoveElement, FS_CardinalityType
  <2>3. P(s \ {x})
    <3>1. s \ {x} \in SUBSET S /\ s \ {x} # s
      BY <1>3, <2>1
    <3> QED
      BY <1>2, <3>1 DEF T
  <2>4. SumFunctionOnSet(f, s) = d + SumFunctionOnSet(f, s \ {x})
    <3>1. \A y \in s : f[y] \in Int
      BY <1>3
    <3>2. f[x] = d
      BY <1>3, <2>1
    <3> QED
      BY <1>3, <2>1, <3>1, <3>2, SumRemove
  <2>5. d + (Cardinality(s) - 1) * d = Cardinality(s) * d
    BY <2>2
  <2> QED
    BY <1>3, <2>2, <2>3, <2>4, <2>5
<1> QED
  BY <1>4, <1>5

\* What is common to all terms of a sum may be taken out.
LEMMA SumScale ==
  ASSUME NEW S, IsFiniteSet(S), NEW k \in Int, NEW f, NEW g,
         \A x \in S : f[x] \in Int /\ g[x] = f[x] * k
  PROVE  SumFunctionOnSet(g, S) = SumFunctionOnSet(f, S) * k
<1> DEFINE P(s) == SumFunctionOnSet(g, s) = SumFunctionOnSet(f, s) * k
           T == {s \in SUBSET S : ~P(s)}
<1> SUFFICES ASSUME ~P(S) PROVE FALSE
  OBVIOUS
<1>1. S \in T
  OBVIOUS
<1> HIDE DEF T
<1>2. PICK s \in T : \A y \in T : ~(y \subseteq s /\ y # s)
  <2>1. T \subseteq SUBSET S /\ T # {}
    BY <1>1 DEF T
  <2> QED
    BY <2>1, MinimalSubset
<1>3. s \subseteq S /\ ~P(s) /\ IsFiniteSet(s)
  BY <1>2, FS_Subset DEF T
<1>4. CASE s = {}
  <2>1. SumFunctionOnSet(g, s) = 0 /\ SumFunctionOnSet(f, s) = 0
    BY <1>4, SumEmpty
  <2> QED
    BY <1>3, <2>1
<1>5. CASE s # {}
  <2>1. PICK x \in s : TRUE
    BY <1>5
  <2>2. IsFiniteSet(s \ {x})
    BY <1>3, FS_Subset
  <2>3. P(s \ {x})
    <3>1. s \ {x} \in SUBSET S /\ s \ {x} # s
      BY <1>3, <2>1
    <3> QED
      BY <1>2, <3>1 DEF T
  <2>4. \A y \in s : f[y] \in Int /\ g[y] \in Int
    BY <1>3
  <2>5. /\ SumFunctionOnSet(f, s) = f[x] + SumFunctionOnSet(f, s \ {x})
        /\ SumFunctionOnSet(g, s) = g[x] + SumFunctionOnSet(g, s \ {x})
    BY <1>3, <2>4, SumRemove
  <2>6. SumFunctionOnSet(f, s \ {x}) \in Int
    BY <2>2, <2>4, SumType
  <2>7. f[x] \in Int /\ g[x] = f[x] * k
    BY <1>3
  <2>8. \A a, b \in Int : a * k + b * k = (a + b) * k
    OBVIOUS
  <2> QED
    BY <1>3, <2>3, <2>5, <2>6, <2>7, <2>8
<1> QED
  BY <1>4, <1>5
=============================================================================
