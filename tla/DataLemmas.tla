----------------------------- MODULE DataLemmas -----------------------------
(***************************************************************************)
(* Lemmas about the operators the models are built from: least and largest *)
(* elements of sets of numbers, and the sum of a function over a set.      *)
(* Induction is done by taking the least number without the property.      *)
(***************************************************************************)
EXTENDS Integers, Listing, SequencesExt, FiniteSetsExt, FiniteSetTheorems, WellFoundedInduction, TLAPS

(***************************************************************************)
(* Min of the community modules returns the least element of a nonempty    *)
(* set of naturals.                                                        *)
(***************************************************************************)
LEMMA LeastNatural ==
  ASSUME NEW S \in SUBSET Nat, S # {}
  PROVE  Min(S) \in S /\ \A x \in S : Min(S) <= x
<1>1. \E x \in S : \A y \in S : ~ (<<y, x>> \in OpToRel(<, Nat))
  BY NatLessThanWellFounded, WFMin
<1>2. PICK x \in S : \A y \in S : ~ (<<y, x>> \in OpToRel(<, Nat))
  BY <1>1
<1>3. ASSUME NEW y \in S PROVE ~ (y < x)
  <2>1. y \in Nat /\ x \in Nat
    OBVIOUS
  <2>2. y < x => <<y, x>> \in OpToRel(<, Nat)
    BY <2>1, Zenon DEF OpToRel
  <2> QED
    BY <1>2, <2>2
<1>4. \A y \in S : x <= y
  BY <1>3
<1> QED
  BY <1>4 DEF Min

(***************************************************************************)
(* Max returns the largest element of a nonempty bounded set of numbers,   *)
(* and the only one of a set of one.                                       *)
(***************************************************************************)
LEMMA LargestNatural ==
  ASSUME NEW n \in Nat, NEW S \in SUBSET (1..n), S # {}
  PROVE  Max(S) \in S /\ \A x \in S : x <= Max(S)
<1> DEFINE gaps == {n - x : x \in S}
<1>1. gaps \in SUBSET Nat /\ gaps # {}
  <2>1. \A x \in S : x \in Int /\ n - x \in Nat
    OBVIOUS
  <2>2. PICK x \in S : TRUE
    OBVIOUS
  <2>3. n - x \in gaps
    BY <2>2
  <2>4. \A y \in gaps : y \in Nat
    BY <2>1
  <2> HIDE DEF gaps
  <2> QED
    BY <2>3, <2>4
<1>2. PICK gap \in gaps : \A y \in gaps : gap <= y
  BY <1>1, LeastNatural
<1>3. PICK m \in S : gap = n - m
  OBVIOUS
<1>4. \A x \in S : n - m <= n - x
  BY <1>2, <1>3
<1>5. \A x \in S : m >= x
  BY <1>4
<1>6. Max(S) \in S /\ \A x \in S : Max(S) >= x
  BY <1>5 DEF Max
<1> QED
  BY <1>6

LEMMA OnlyOne ==
  ASSUME NEW x \in Int
  PROVE  Max({x}) = x
BY DEF Max

(***************************************************************************)
(* The sum of f over T, the way the models write it.                       *)
(***************************************************************************)
SumOver(f, T) == MapThenSumSet(LAMBDA x : f[x], T)

(* What the recursive function behind the sum has to satisfy. *)
SumStep(f, g, s) == IF s = {} THEN 0
                    ELSE f[CHOOSE y \in s : TRUE] + g[s \ {CHOOSE y \in s : TRUE}]

SumFor(f, T) == CHOOSE g : g = [s \in SUBSET T |-> SumStep(f, g, s)]

LEMMA SumOverUnfolded ==
  ASSUME NEW f, NEW T
  PROVE  SumOver(f, T) = SumFor(f, T)[T]
BY DEF SumOver, MapThenSumSet, MapThenFoldSet, SumFor, SumStep


(***************************************************************************)
(* The recursion has a solution: one for the subsets of at most k elements *)
(* extends to those of k + 1.                                              *)
(***************************************************************************)
Small(T, k) == {s \in SUBSET T : Cardinality(s) <= k}

Solves(f, g, T, k) == g \in [Small(T, k) -> Int] /\ \A s \in Small(T, k) : g[s] = SumStep(f, g, s)

LEMMA SolutionExtends ==
  ASSUME NEW f, NEW T, IsFiniteSet(T), \A x \in T : f[x] \in Int,
         NEW k \in Nat, NEW g, Solves(f, g, T, k)
  PROVE  \E h : Solves(f, h, T, k + 1)
<1> DEFINE h == [s \in Small(T, k + 1) |-> SumStep(f, g, s)]
           pick(s) == CHOOSE y \in s : TRUE
<1>1. ASSUME NEW s \in Small(T, k + 1), s # {}
      PROVE  pick(s) \in T /\ s \ {pick(s)} \in Small(T, k)
  <2>1. pick(s) \in s
    BY <1>1
  <2>2. IsFiniteSet(s) /\ s \in SUBSET T
    BY FS_Subset DEF Small
  <2>3. Cardinality(s \ {pick(s)}) = Cardinality(s) - 1 /\ Cardinality(s) \in Nat
    BY <2>1, <2>2, FS_RemoveElement, FS_CardinalityType
  <2> QED
    BY <2>1, <2>2, <2>3 DEF Small
<1>2. ASSUME NEW s \in Small(T, k + 1)
      PROVE  h[s] \in Int
  BY <1>1, <1>2 DEF SumStep, Solves
<1>3. ASSUME NEW s \in Small(T, k)
      PROVE  s \in Small(T, k + 1) /\ h[s] = g[s]
  <2>1. s \in Small(T, k + 1)
    <3>1. IsFiniteSet(s) /\ Cardinality(s) \in Nat
      BY FS_Subset, FS_CardinalityType DEF Small
    <3> QED
      BY <3>1 DEF Small
  <2> QED
    BY <2>1 DEF Solves
<1>4. ASSUME NEW s \in Small(T, k + 1)
      PROVE  h[s] = SumStep(f, h, s)
  <2>1. CASE s = {}
    BY <2>1 DEF SumStep
  <2>2. CASE s # {}
    <3>1. h[s \ {pick(s)}] = g[s \ {pick(s)}]
      BY <2>2, <1>1, <1>3
    <3> HIDE DEF h
    <3>2. h[s] = SumStep(f, g, s)
      BY DEF h
    <3> QED
      BY <2>2, <3>1, <3>2 DEF SumStep
  <2> QED
    BY <2>1, <2>2
<1>5. h \in [Small(T, k + 1) -> Int]
  BY <1>2
<1>6. Solves(f, h, T, k + 1)
  BY <1>4, <1>5 DEF Solves
<1> QED
  BY <1>6

LEMMA SolutionsExist ==
  ASSUME NEW f, NEW T, IsFiniteSet(T), \A x \in T : f[x] \in Int, NEW n \in Nat
  PROVE  \E g : Solves(f, g, T, n)
<1> DEFINE without == {k \in Nat : ~ \E g : Solves(f, g, T, k)}
<1> SUFFICES ASSUME without # {} PROVE FALSE
  OBVIOUS
<1> DEFINE m == Min(without)
<1>1. m \in without /\ \A k \in without : m <= k
  BY LeastNatural
<1> HIDE DEF m
<1>2. \E g : Solves(f, g, T, 0)
  <2> DEFINE g == [s \in Small(T, 0) |-> 0]
  <2>1. ASSUME NEW s \in Small(T, 0) PROVE s = {}
    BY FS_Subset, FS_CardinalityType, FS_EmptySet DEF Small
  <2>2. Solves(f, g, T, 0)
    BY <2>1 DEF Solves, SumStep
  <2> QED
    BY <2>2
<1>3. m # 0
  BY <1>1, <1>2
<1>4. m - 1 \in Nat /\ m - 1 \notin without
  BY <1>1, <1>3
<1>5. \E g : Solves(f, g, T, m - 1)
  BY <1>4
<1>6. \E g : Solves(f, g, T, (m - 1) + 1)
  BY <1>4, <1>5, SolutionExtends
<1>7. (m - 1) + 1 = m
  BY <1>1
<1> QED
  BY <1>1, <1>6, <1>7

(***************************************************************************)
(* So the CHOOSE of the recursive function chooses a solution.             *)
(***************************************************************************)
LEMMA SumForSolves ==
  ASSUME NEW f, NEW T, IsFiniteSet(T), \A x \in T : f[x] \in Int
  PROVE  /\ SumFor(f, T) \in [SUBSET T -> Int]
         /\ \A s \in SUBSET T : SumFor(f, T)[s] = SumStep(f, SumFor(f, T), s)
<1>1. Cardinality(T) \in Nat
  BY FS_CardinalityType
<1>2. PICK g : Solves(f, g, T, Cardinality(T))
  BY <1>1, SolutionsExist
<1>3. Small(T, Cardinality(T)) = SUBSET T
  BY FS_Subset DEF Small
<1>4. g = [s \in SUBSET T |-> SumStep(f, g, s)]
  BY <1>2, <1>3 DEF Solves
<1> DEFINE G == SumFor(f, T)
<1>5. G = [s \in SUBSET T |-> SumStep(f, G, s)]
  BY <1>4, Zenon DEF SumFor
<1> HIDE DEF G
<1>6. DOMAIN G = SUBSET T /\ \A s \in SUBSET T : G[s] = SumStep(f, G, s)
  BY <1>5
<1> DEFINE bad == {k \in Nat : \E s \in SUBSET T : Cardinality(s) = k /\ G[s] \notin Int}
<1>7. bad = {}
  <2> SUFFICES ASSUME bad # {} PROVE FALSE
    OBVIOUS
  <2> DEFINE m == Min(bad)
  <2>1. m \in bad /\ \A k \in bad : m <= k
    BY LeastNatural
  <2> HIDE DEF m
  <2>2. PICK s \in SUBSET T : Cardinality(s) = m /\ G[s] \notin Int
    BY <2>1
  <2>3. s # {}
    BY <1>6, <2>2 DEF SumStep
  <2> DEFINE y == CHOOSE y \in s : TRUE
  <2>4. y \in s /\ y \in T
    BY <2>3
  <2>5. G[s] = f[y] + G[s \ {y}]
    BY <1>6, <2>3 DEF SumStep
  <2> HIDE DEF y
  <2>6. IsFiniteSet(s)
    BY FS_Subset
  <2>7. Cardinality(s \ {y}) = m - 1 /\ m - 1 \in Nat
    <3>1. Cardinality(s \ {y}) \in Nat
      BY <2>6, FS_RemoveElement, FS_CardinalityType
    <3> QED
      BY <3>1, <2>2, <2>4, <2>6, FS_RemoveElement, FS_CardinalityType
  <2>8. G[s \ {y}] \in Int
    BY <2>1, <2>7
  <2> QED
    BY <2>2, <2>4, <2>5, <2>8
<1>8. \A s \in SUBSET T : G[s] \in Int
  BY <1>7, FS_Subset, FS_CardinalityType
<1>9. G \in [SUBSET T -> Int]
  <2> DEFINE step == [s \in SUBSET T |-> SumStep(f, G, s)]
  <2>1. \A s \in SUBSET T : step[s] \in Int
    BY <1>6, <1>8
  <2> QED
    BY <1>5, <2>1
<1> QED
  BY <1>6, <1>9 DEF G

(***************************************************************************)
(* Both functions that satisfy the recursion on the subsets of a set agree *)
(* there, so a sum over a part is found in the function for the whole.     *)
(***************************************************************************)
LEMMA SumsAgree ==
  ASSUME NEW f, NEW e, NEW T, NEW S, IsFiniteSet(T), IsFiniteSet(S), S \subseteq T,
         \A x \in T : f[x] \in Int, \A x \in S : e[x] = f[x]
  PROVE  SumFor(e, S)[S] = SumFor(f, T)[S]
<1> DEFINE G == SumFor(f, T)
           H == SumFor(e, S)
           bad == {k \in Nat : \E s \in SUBSET S : Cardinality(s) = k /\ H[s] # G[s]}
<1>1. /\ \A s \in SUBSET T : G[s] = SumStep(f, G, s)
      /\ \A s \in SUBSET S : H[s] = SumStep(e, H, s)
  BY SumForSolves
<1> HIDE DEF G, H
<1>2. bad = {}
  <2> SUFFICES ASSUME bad # {} PROVE FALSE
    OBVIOUS
  <2> DEFINE m == Min(bad)
  <2>1. m \in bad /\ \A k \in bad : m <= k
    BY LeastNatural
  <2> HIDE DEF m
  <2>2. PICK s \in SUBSET S : Cardinality(s) = m /\ H[s] # G[s]
    BY <2>1
  <2>3. s # {}
    BY <1>1, <2>2 DEF SumStep
  <2> DEFINE y == CHOOSE y \in s : TRUE
  <2>4. y \in s /\ y \in S
    BY <2>3
  <2>5. G[s] = f[y] + G[s \ {y}] /\ H[s] = e[y] + H[s \ {y}]
    BY <1>1, <2>3 DEF SumStep
  <2> HIDE DEF y
  <2>6. IsFiniteSet(s)
    BY FS_Subset
  <2>7. Cardinality(s \ {y}) = m - 1 /\ m - 1 \in Nat
    <3>1. Cardinality(s \ {y}) \in Nat
      BY <2>6, FS_RemoveElement, FS_CardinalityType
    <3> QED
      BY <3>1, <2>2, <2>4, <2>6, FS_RemoveElement, FS_CardinalityType
  <2>8. G[s \ {y}] = H[s \ {y}]
    BY <2>1, <2>7
  <2> QED
    BY <2>2, <2>4, <2>5, <2>8
<1>3. \A s \in SUBSET S : H[s] = G[s]
  BY <1>2, FS_Subset, FS_CardinalityType
<1> QED
  BY <1>3 DEF G, H

(***************************************************************************)
(* Sums depend only on the values that are added up.                       *)
(***************************************************************************)
LEMMA SumOverSame ==
  ASSUME NEW f, NEW e, NEW T, IsFiniteSet(T),
         \A x \in T : f[x] \in Int, \A x \in T : e[x] = f[x]
  PROVE  SumOver(e, T) = SumOver(f, T)
BY SumsAgree, SumOverUnfolded

LEMMA SumOverType ==
  ASSUME NEW f, NEW T, IsFiniteSet(T), \A x \in T : f[x] \in Int
  PROVE  SumOver(f, T) \in Int
<1>1. SumFor(f, T) \in [SUBSET T -> Int]
  BY SumForSolves
<1>2. SumFor(f, T)[T] \in Int
  BY <1>1
<1> QED
  BY <1>2, SumOverUnfolded

LEMMA SumOverEmpty ==
  ASSUME NEW f
  PROVE  SumOver(f, {}) = 0
<1>1. SumFor(f, {})[{}] = SumStep(f, SumFor(f, {}), {})
  <2>1. IsFiniteSet({}) /\ \A x \in {} : f[x] \in Int
    BY FS_EmptySet
  <2>2. \A s \in SUBSET {} : SumFor(f, {})[s] = SumStep(f, SumFor(f, {}), s)
    BY <2>1, SumForSolves
  <2> QED
    BY <2>2
<1>2. SumFor(f, {})[{}] = 0
  BY <1>1 DEF SumStep
<1> QED
  BY <1>2, SumOverUnfolded

(***************************************************************************)
(* Any element may be taken out of the sum first.                          *)
(***************************************************************************)
LEMMA SumOverRemove ==
  ASSUME NEW f, NEW T, IsFiniteSet(T), \A x \in T : f[x] \in Int, NEW x \in T
  PROVE  SumOver(f, T) = f[x] + SumOver(f, T \ {x})
<1> DEFINE G == SumFor(f, T)
           bad == {k \in Nat : \E s \in SUBSET T : \E z \in s :
                       Cardinality(s) = k /\ G[s] # f[z] + G[s \ {z}]}
<1>1. G \in [SUBSET T -> Int] /\ \A s \in SUBSET T : G[s] = SumStep(f, G, s)
  BY SumForSolves
<1> HIDE DEF G
<1>2. bad = {}
  <2> SUFFICES ASSUME bad # {} PROVE FALSE
    OBVIOUS
  <2> DEFINE m == Min(bad)
  <2>1. m \in bad /\ \A k \in bad : m <= k
    BY LeastNatural
  <2> HIDE DEF m
  <2>2. PICK s \in SUBSET T : \E z \in s : Cardinality(s) = m /\ G[s] # f[z] + G[s \ {z}]
    BY <2>1
  <2>3. PICK z \in s : Cardinality(s) = m /\ G[s] # f[z] + G[s \ {z}]
    BY <2>2
  <2> DEFINE y == CHOOSE y \in s : TRUE
  <2>4. y \in s /\ y \in T
    OBVIOUS
  <2>5. G[s] = f[y] + G[s \ {y}]
    BY <1>1, <2>3 DEF SumStep
  <2> HIDE DEF y
  <2>6. IsFiniteSet(s)
    BY FS_Subset
  <2>7. y # z
    BY <2>3, <2>5
  <2>8. /\ Cardinality(s \ {y}) = m - 1
        /\ Cardinality(s \ {z}) = m - 1
        /\ m - 1 \in Nat
    <3>1. Cardinality(s \ {y}) \in Nat
      BY <2>6, FS_RemoveElement, FS_CardinalityType
    <3> QED
      BY <3>1, <2>3, <2>4, <2>6, FS_RemoveElement, FS_CardinalityType
  <2>9. m - 1 \notin bad
    <3>1. m \in Nat
      BY <2>1
    <3> HIDE DEF bad
    <3> QED
      BY <2>1, <2>8, <3>1
  <2>10. G[s \ {y}] = f[z] + G[(s \ {y}) \ {z}]
    <3>1. z \in s \ {y} /\ s \ {y} \in SUBSET T
      BY <2>7
    <3> QED
      BY <2>8, <2>9, <3>1
  <2>11. G[s \ {z}] = f[y] + G[(s \ {z}) \ {y}]
    <3>1. y \in s \ {z} /\ s \ {z} \in SUBSET T
      BY <2>7, <2>4
    <3> QED
      BY <2>8, <2>9, <3>1
  <2>12. (s \ {y}) \ {z} = (s \ {z}) \ {y}
    OBVIOUS
  <2>13. G[(s \ {z}) \ {y}] \in Int /\ f[y] \in Int /\ f[z] \in Int
    BY <1>1, <2>4
  <2> DEFINE rest == G[(s \ {z}) \ {y}]
  <2>14. G[s] = f[y] + (f[z] + rest) /\ G[s \ {z}] = f[y] + rest /\ rest \in Int
    BY <2>5, <2>10, <2>11, <2>12, <2>13
  <2>15. f[z] \in Int /\ f[y] \in Int
    BY <2>13
  <2> HIDE DEF rest
  <2>16. G[s] = f[z] + G[s \ {z}]
    BY <2>14, <2>15
  <2> QED
    BY <2>3, <2>16
<1>3. G[T] = f[x] + G[T \ {x}]
  BY <1>2, FS_CardinalityType
<1>4. G[T \ {x}] = SumOver(f, T \ {x})
  <2>1. IsFiniteSet(T \ {x})
    BY FS_Subset
  <2>2. T \ {x} \subseteq T /\ \A z \in T \ {x} : f[z] \in Int
    OBVIOUS
  <2>3. SumFor(f, T \ {x})[T \ {x}] = SumFor(f, T)[T \ {x}]
    BY <2>1, <2>2, SumsAgree
  <2> QED
    BY <2>3, SumOverUnfolded DEF G
<1>5. G[T] = SumOver(f, T)
  BY SumOverUnfolded DEF G
<1> QED
  BY <1>3, <1>4, <1>5

(***************************************************************************)
(* Adding n elements of the same value adds n times the value.             *)
(***************************************************************************)
LEMMA SumOverSameValue ==
  ASSUME NEW f, NEW T, NEW S, IsFiniteSet(T), IsFiniteSet(S), T \cap S = {},
         \A x \in T : f[x] \in Int, NEW r \in Int, \A x \in S : f[x] = r
  PROVE  SumOver(f, T \cup S) = SumOver(f, T) + r * Cardinality(S)
<1> DEFINE bad == {k \in Nat : \E s \in SUBSET S :
                     Cardinality(s) = k /\ SumOver(f, T \cup s) # SumOver(f, T) + r * k}
<1>1. bad = {}
  <2> SUFFICES ASSUME bad # {} PROVE FALSE
    OBVIOUS
  <2> DEFINE m == Min(bad)
  <2>1. m \in bad /\ \A k \in bad : m <= k
    BY LeastNatural
  <2> HIDE DEF m
  <2>2. PICK s \in SUBSET S :
            Cardinality(s) = m /\ SumOver(f, T \cup s) # SumOver(f, T) + r * m
    BY <2>1
  <2>3. IsFiniteSet(s) /\ m \in Nat /\ SumOver(f, T) \in Int
    BY <2>1, FS_Subset, SumOverType
  <2>4. s # {}
    <3> SUFFICES ASSUME s = {} PROVE FALSE
      OBVIOUS
    <3>1. m = 0 /\ T \cup s = T
      BY <2>2, FS_EmptySet
    <3>2. r * m = 0
      BY <3>1
    <3> QED
      BY <2>2, <2>3, <3>1, <3>2
  <2>5. PICK y : y \in s
    BY <2>4
  <2>6. Cardinality(s \ {y}) = m - 1 /\ m - 1 \in Nat
    <3>1. Cardinality(s \ {y}) \in Nat
      BY <2>3, FS_RemoveElement, FS_CardinalityType
    <3> QED
      BY <3>1, <2>2, <2>3, <2>5, FS_RemoveElement
  <2>7. SumOver(f, T \cup (s \ {y})) = SumOver(f, T) + r * (m - 1)
    <3>1. m - 1 \notin bad
      <4> HIDE DEF bad
      <4> QED
        BY <2>1, <2>3, <2>6
    <3>2. s \ {y} \in SUBSET S
      OBVIOUS
    <3> QED
      BY <2>6, <3>1, <3>2
  <2>8. /\ IsFiniteSet(T \cup s)
        /\ \A x \in T \cup s : f[x] \in Int
        /\ y \in T \cup s
        /\ (T \cup s) \ {y} = T \cup (s \ {y})
        /\ f[y] = r
    BY <2>3, <2>5, FS_Union
  <2>9. SumOver(f, T \cup s) = r + SumOver(f, T \cup (s \ {y}))
    BY <2>8, SumOverRemove
  <2>10. r * (m - 1) = r * m - r
    BY <2>3
  <2>11. r * m \in Int
    BY <2>3
  <2> QED
    BY <2>2, <2>3, <2>7, <2>9, <2>10, <2>11
<1> QED
  BY <1>1, FS_CardinalityType

(***************************************************************************)
(* A sum of smaller values is no larger, and is smaller if one value is.   *)
(***************************************************************************)
LEMMA SumOverMonotone ==
  ASSUME NEW f, NEW e, NEW T, IsFiniteSet(T),
         \A x \in T : f[x] \in Int, \A x \in T : e[x] \in Int, \A x \in T : f[x] <= e[x]
  PROVE  SumOver(f, T) <= SumOver(e, T)
<1> DEFINE bad == {k \in Nat : \E s \in SUBSET T :
                     Cardinality(s) = k /\ ~ (SumOver(f, s) <= SumOver(e, s))}
<1>1. bad = {}
  <2> SUFFICES ASSUME bad # {} PROVE FALSE
    OBVIOUS
  <2> DEFINE m == Min(bad)
  <2>1. m \in bad /\ \A k \in bad : m <= k
    BY LeastNatural
  <2> HIDE DEF m
  <2>2. PICK s \in SUBSET T : Cardinality(s) = m /\ ~ (SumOver(f, s) <= SumOver(e, s))
    BY <2>1
  <2>3. IsFiniteSet(s)
    BY FS_Subset
  <2>4. s # {}
    BY <2>2, SumOverEmpty
  <2>5. PICK y : y \in s
    BY <2>4
  <2>6. Cardinality(s \ {y}) = m - 1 /\ m - 1 \in Nat
    <3>1. Cardinality(s \ {y}) \in Nat
      BY <2>3, FS_RemoveElement, FS_CardinalityType
    <3> QED
      BY <3>1, <2>2, <2>3, <2>5, FS_RemoveElement, FS_CardinalityType
  <2>7. SumOver(f, s \ {y}) <= SumOver(e, s \ {y})
    BY <2>1, <2>6
  <2>8. /\ SumOver(f, s) = f[y] + SumOver(f, s \ {y})
        /\ SumOver(e, s) = e[y] + SumOver(e, s \ {y})
    BY <2>3, <2>5, SumOverRemove
  <2>9. /\ SumOver(f, s \ {y}) \in Int
        /\ SumOver(e, s \ {y}) \in Int
    BY <2>3, FS_Subset, SumOverType
  <2> QED
    BY <2>2, <2>5, <2>7, <2>8, <2>9
<1> QED
  BY <1>1, FS_CardinalityType

LEMMA SumOverGrows ==
  ASSUME NEW f, NEW e, NEW T, IsFiniteSet(T),
         \A x \in T : f[x] \in Int, \A x \in T : e[x] \in Int, \A x \in T : f[x] <= e[x],
         NEW y \in T, f[y] < e[y]
  PROVE  SumOver(f, T) < SumOver(e, T)
<1>1. IsFiniteSet(T \ {y})
  BY FS_Subset
<1>2. SumOver(f, T \ {y}) <= SumOver(e, T \ {y})
  BY <1>1, SumOverMonotone
<1>3. SumOver(f, T \ {y}) \in Int /\ SumOver(e, T \ {y}) \in Int
  BY <1>1, SumOverType
<1> QED
  BY <1>2, <1>3, SumOverRemove

-----------------------------------------------------------------------------
(***************************************************************************)
(* Quotients and remainders.  The prover knows what they are, and finds    *)
(* nothing with them in a larger step.                                     *)
(***************************************************************************)
LEMMA DivMod ==
  ASSUME NEW a \in Nat, NEW n \in Nat \ {0}
  PROVE  a \div n \in Nat /\ a % n \in 0..(n - 1) /\ a = (n * (a \div n)) + (a % n)
OBVIOUS

LEMMA DivModIs ==
  ASSUME NEW a \in Nat, NEW n \in Nat \ {0}, NEW q \in Nat, NEW r \in 0..(n - 1), a = n * q + r
  PROVE  a \div n = q /\ a % n = r
OBVIOUS

(* The quotient and the remainder after at most one more round. *)
LEMMA NextRound ==
  ASSUME NEW a \in Nat, NEW n \in Nat \ {0}, NEW j \in 0..n
  PROVE  IF (a % n) + j < n
           THEN (a + j) \div n = a \div n /\ (a + j) % n = (a % n) + j
           ELSE (a + j) \div n = (a \div n) + 1 /\ (a + j) % n = (a % n) + j - n
<1> DEFINE q == a \div n
           r == a % n
<1>1. q \in Nat /\ r \in 0..(n - 1) /\ a = n * q + r
  BY DivMod
<1> HIDE DEF q, r
<1>2. CASE r + j < n
  <2>1. n * q \in Int /\ a + j = n * q + (r + j) /\ r + j \in 0..(n - 1) /\ a + j \in Nat
    BY <1>1, <1>2
  <2>2. (a + j) \div n = q /\ (a + j) % n = r + j
    BY <1>1, <2>1, DivModIs
  <2> QED
    BY <1>2, <2>2 DEF q, r
<1>3. CASE ~(r + j < n)
  <2>1. n * (q + 1) = n * q + n /\ n * q \in Int
    BY <1>1
  <2>2. a + j = n * (q + 1) + (r + j - n) /\ r + j - n \in 0..(n - 1) /\ a + j \in Nat /\ q + 1 \in Nat
    BY <1>1, <1>3, <2>1
  <2>3. (a + j) \div n = q + 1 /\ (a + j) % n = r + j - n
    BY <2>2, DivModIs
  <2> QED
    BY <1>3, <2>3 DEF q, r
<1> QED
  BY <1>2, <1>3

LEMMA MultipleOf ==
  ASSUME NEW a \in Nat, NEW n \in Nat \ {0}, a % n = 0
  PROVE  \E k \in Nat : a = n * k
<1> DEFINE q == a \div n
<1>1. q \in Nat /\ a = n * q
  BY DivMod
<1> HIDE DEF q
<1> QED
  BY <1>1

LEMMA NoMultipleBetween ==
  ASSUME NEW n \in Nat \ {0}, NEW a \in Nat, NEW b \in Nat, n * a < n * b, n * b < n * a + n
  PROVE  FALSE
OBVIOUS

LEMMA PositiveProduct ==
  ASSUME NEW x \in Nat \ {0}, NEW y \in Nat \ {0}
  PROVE  x * y \in Nat \ {0}
OBVIOUS

(* Dividing by a product, one factor at a time. *)
LEMMA DivModProduct ==
  ASSUME NEW i \in Nat, NEW x \in Nat \ {0}, NEW y \in Nat \ {0}
  PROVE  /\ i \div (x * y) = (i \div x) \div y
         /\ i % (x * y) = x * ((i \div x) % y) + (i % x)
<1> DEFINE q == i \div x
           r == i % x
           t == q \div y
           u == q % y
           p == x * y
<1>1. q \in Nat /\ r \in 0..(x - 1) /\ i = x * q + r
  BY DivMod
<1>2. t \in Nat /\ u \in 0..(y - 1) /\ q = y * t + u
  <2> HIDE DEF q
  <2> QED
    BY <1>1, DivMod
<1>3. p \in Nat \ {0}
  BY PositiveProduct
<1> HIDE DEF q, r, t, u
<1>4. x * q = p * t + x * u
  <2>1. x * (y * t + u) = x * y * t + x * u
    BY <1>2
  <2> QED
    BY <1>2, <2>1
<1>5. x * u \in Nat /\ x * u <= p - x
  <2>1. x * u <= x * (y - 1)
    BY <1>2
  <2>2. x * (y - 1) = p - x
    OBVIOUS
  <2> QED
    BY <1>2, <2>1, <2>2
<1> HIDE DEF p
<1>6. i = p * t + (x * u + r) /\ x * u + r \in 0..(p - 1)
  <2>1. p * t \in Int
    BY <1>2, <1>3
  <2> QED
    BY <1>1, <1>3, <1>4, <1>5, <2>1
<1>7. i \div p = t /\ i % p = x * u + r
  BY <1>2, <1>3, <1>6, DivModIs
<1> QED
  BY <1>7 DEF p, q, r, t, u

(* Equal digits, equal number. *)
SameQuotients(i, j, x, y) ==
    i \div x = j \div x <=> (i \div x) % y = (j \div x) % y /\ i \div (x * y) = j \div (x * y)

SameRemainders(i, j, x, y) ==
    i % (x * y) = j % (x * y) <=> i % x = j % x /\ (i \div x) % y = (j \div x) % y

LEMMA SameQuotient ==
  ASSUME NEW i \in Nat, NEW j \in Nat, NEW x \in Nat \ {0}, NEW y \in Nat \ {0}
  PROVE  SameQuotients(i, j, x, y)
<1> DEFINE q == i \div x
           s == j \div x
<1>1. q \in Nat /\ s \in Nat
  BY DivMod
<1>2. i \div (x * y) = q \div y /\ j \div (x * y) = s \div y
  BY DivModProduct
<1> HIDE DEF q, s
<1>3. q = (y * (q \div y)) + (q % y) /\ s = (y * (s \div y)) + (s % y)
  BY <1>1, DivMod
<1>4. q = s <=> q % y = s % y /\ q \div y = s \div y
  BY <1>3
<1> QED
  BY <1>2, <1>4 DEF q, s, SameQuotients

LEMMA SameRemainder ==
  ASSUME NEW i \in Nat, NEW j \in Nat, NEW x \in Nat \ {0}, NEW y \in Nat \ {0}
  PROVE  SameRemainders(i, j, x, y)
<1> DEFINE u == (i \div x) % y
           v == (j \div x) % y
           r == i % x
           s == j % x
<1>1. r \in 0..(x - 1) /\ s \in 0..(x - 1) /\ i \div x \in Nat /\ j \div x \in Nat
  BY DivMod
<1>2. u \in Nat /\ v \in Nat
  <2>1. ASSUME NEW a \in Nat PROVE a % y \in Nat
    BY DivMod
  <2> QED
    BY <1>1, <2>1
<1>3. i % (x * y) = x * u + r /\ j % (x * y) = x * v + s
  BY DivModProduct
<1> HIDE DEF u, v, r, s
<1>4. x * u + r = x * v + s => r = s /\ u = v
  <2> DEFINE a == x * u + r
  <2>1. a \in Nat
    BY <1>1, <1>2
  <2>2. a \div x = u /\ a % x = r
    <3> HIDE DEF a
    <3>1. a = x * u + r
      BY DEF a
    <3> QED
      BY <1>1, <1>2, <2>1, <3>1, DivModIs
  <2>3. SUFFICES ASSUME a = x * v + s PROVE r = s /\ u = v
    OBVIOUS
  <2>4. a \div x = v /\ a % x = s
    <3> HIDE DEF a
    <3> QED
      BY <1>1, <1>2, <2>1, <2>3, DivModIs
  <2> QED
    BY <2>2, <2>4
<1> QED
  BY <1>3, <1>4 DEF u, v, r, s, SameRemainders

-----------------------------------------------------------------------------
(***************************************************************************)
(* FlattenSeq, whose recursive function joins the first i sequences.       *)
(***************************************************************************)
JoinStep(seqs, g, i) == IF i = 1 THEN seqs[i] ELSE g[i - 1] \o seqs[i]

Joined(seqs) == CHOOSE g : g = [i \in 1..Len(seqs) |-> JoinStep(seqs, g, i)]

LEMMA FlattenUnfolded ==
  ASSUME NEW seqs
  PROVE  FlattenSeq(seqs) = IF Len(seqs) = 0 THEN seqs ELSE Joined(seqs)[Len(seqs)]
BY DEF FlattenSeq, Joined, JoinStep

LEMMA JoinsExist ==
  ASSUME NEW seqs, NEW n \in Nat
  PROVE  \E g : g = [i \in 1..n |-> JoinStep(seqs, g, i)]
<1> DEFINE solves(g, k) == g = [i \in 1..k |-> JoinStep(seqs, g, i)]
           without == {k \in Nat : ~ \E g : solves(g, k)}
           m == Min(without)
<1> SUFFICES ASSUME without # {} PROVE FALSE
  OBVIOUS
<1>1. m \in without /\ \A k \in without : m <= k
  BY LeastNatural
<1> HIDE DEF m
<1>2. solves([i \in 1..0 |-> 0], 0)
  OBVIOUS
<1>3. m \in Nat /\ m # 0
  BY <1>1, <1>2
<1>4. m - 1 \in Nat /\ m - 1 \notin without
  BY <1>1, <1>3
<1>5. PICK g : solves(g, m - 1)
  BY <1>4
<1> DEFINE h == [i \in 1..m |-> JoinStep(seqs, g, i)]
<1>6. \A i \in 1..(m - 1) : g[i] = JoinStep(seqs, g, i) /\ h[i] = g[i]
  <2> TAKE i \in 1..(m - 1)
  <2>1. g[i] = JoinStep(seqs, g, i)
    BY <1>5
  <2>2. i \in 1..m
    BY <1>3
  <2> QED
    BY <2>1, <2>2
<1>7. \A i \in 1..m : JoinStep(seqs, h, i) = JoinStep(seqs, g, i)
  <2> TAKE i \in 1..m
  <2>1. CASE i = 1
    BY <2>1 DEF JoinStep
  <2>2. CASE i # 1
    <3>1. i - 1 \in 1..(m - 1)
      BY <1>3, <2>2
    <3>2. h[i - 1] = g[i - 1]
      BY <1>6, <3>1
    <3> HIDE DEF h
    <3> QED
      BY <2>2, <3>2 DEF JoinStep
  <2> QED
    BY <2>1, <2>2
<1>8. solves(h, m)
  BY <1>7
<1> QED
  BY <1>1, <1>8

LEMMA JoinedSolves ==
  ASSUME NEW seqs, Len(seqs) \in Nat
  PROVE  \A i \in 1..Len(seqs) : Joined(seqs)[i] = JoinStep(seqs, Joined(seqs), i)
<1>1. \E g : g = [i \in 1..Len(seqs) |-> JoinStep(seqs, g, i)]
  BY JoinsExist
<1>2. Joined(seqs) = [i \in 1..Len(seqs) |-> JoinStep(seqs, Joined(seqs), i)]
  BY <1>1 DEF Joined
<1> QED
  BY <1>2

(***************************************************************************)
(* Where the elements of each sequence are found in the joined one.        *)
(***************************************************************************)
Offset(seqs, i) == IF i = 1 THEN 0 ELSE Len(Joined(seqs)[i - 1])

Laid(seqs, S, k) ==
    /\ Joined(seqs)[k] \in Seq(S)
    /\ \A i \in 1..k :
         /\ Offset(seqs, i) \in Nat
         /\ Offset(seqs, i) + Len(seqs[i]) <= Len(Joined(seqs)[k])
         /\ \A j \in 1..Len(seqs[i]) : Joined(seqs)[k][Offset(seqs, i) + j] = seqs[i][j]

LEMMA LaidNext ==
  ASSUME NEW S, NEW seqs \in Seq(Seq(S)), NEW k \in 1..Len(seqs),
         k # 1 => Laid(seqs, S, k - 1)
  PROVE  Laid(seqs, S, k)
<1> DEFINE J == Joined(seqs)
<1>0. k \in Nat /\ k >= 1 /\ Len(seqs) \in Nat
  OBVIOUS
<1>1. seqs[k] \in Seq(S) /\ Len(seqs[k]) \in Nat
  OBVIOUS
<1>2. J[k] = IF k = 1 THEN seqs[k] ELSE J[k - 1] \o seqs[k]
  BY JoinedSolves DEF JoinStep
<1> HIDE DEF J
<1>3. CASE k = 1
  BY <1>1, <1>2, <1>3 DEF Laid, Offset, J
<1>4. CASE k # 1
  <2> DEFINE old == J[k - 1]
             part == seqs[k]
  <2>0. old \in Seq(S) /\ J[k] = old \o part
    BY <1>2, <1>4 DEF Laid, J
  <2>1. old \in Seq(S) /\ Len(old) \in Nat /\ part \in Seq(S) /\ Len(part) \in Nat /\ J[k] = old \o part
    <3> HIDE DEF old
    <3> QED
      BY <1>1, <2>0
  <2>2. Offset(seqs, k) = Len(old)
    BY <1>4 DEF Offset, J
  <2>3. \A i \in 1..(k - 1) :
         /\ Offset(seqs, i) \in Nat
         /\ Offset(seqs, i) + Len(seqs[i]) <= Len(old)
         /\ \A j \in 1..Len(seqs[i]) : old[Offset(seqs, i) + j] = seqs[i][j]
    BY <1>4 DEF Laid, J
  <2>4. \A i \in 1..k : seqs[i] \in Seq(S) /\ Len(seqs[i]) \in Nat
    OBVIOUS
  <2> HIDE DEF old, part
  <2>5. /\ J[k] \in Seq(S) /\ Len(J[k]) = Len(old) + Len(part)
        /\ \A x \in 1..Len(old) : J[k][x] = old[x]
        /\ \A x \in 1..Len(part) : J[k][Len(old) + x] = part[x]
    BY <2>1
  <2>6. ASSUME NEW i \in 1..k
        PROVE  /\ Offset(seqs, i) \in Nat
               /\ Offset(seqs, i) + Len(seqs[i]) <= Len(J[k])
               /\ \A j \in 1..Len(seqs[i]) : J[k][Offset(seqs, i) + j] = seqs[i][j]
    <3>1. CASE i = k
      BY <2>1, <2>2, <2>5, <3>1 DEF part
    <3>2. CASE i # k
      <4>1. i \in 1..(k - 1)
        BY <1>0, <3>2
      <4>2. /\ Offset(seqs, i) \in Nat /\ Len(seqs[i]) \in Nat
            /\ Offset(seqs, i) + Len(seqs[i]) <= Len(old)
            /\ \A j \in 1..Len(seqs[i]) : old[Offset(seqs, i) + j] = seqs[i][j]
        BY <2>3, <2>4, <4>1
      <4>3. \A j \in 1..Len(seqs[i]) : Offset(seqs, i) + j \in 1..Len(old)
        BY <2>1, <4>2
      <4> QED
        BY <2>1, <2>5, <4>2, <4>3
    <3> QED
      BY <3>1, <3>2
  <2> QED
    BY <2>5, <2>6 DEF Laid, J
<1> QED
  BY <1>3, <1>4

LEMMA AllLaid ==
  ASSUME NEW S, NEW seqs \in Seq(Seq(S))
  PROVE  \A k \in 1..Len(seqs) : Laid(seqs, S, k)
<1> DEFINE bad == {k \in 1..Len(seqs) : ~Laid(seqs, S, k)}
           m == Min(bad)
<1> SUFFICES ASSUME bad # {} PROVE FALSE
  OBVIOUS
<1>1. bad \in SUBSET Nat
  OBVIOUS
<1>2. m \in bad /\ \A k \in bad : m <= k
  <2> HIDE DEF bad
  <2> QED
    BY <1>1, LeastNatural
<1> HIDE DEF m
<1>3. m # 1 => m - 1 \in 1..Len(seqs) /\ m - 1 \notin bad
  BY <1>2
<1>4. m # 1 => Laid(seqs, S, m - 1)
  BY <1>3
<1> QED
  BY <1>2, <1>4, LaidNext

LEMMA FlattenLays ==
  ASSUME NEW S, NEW seqs \in Seq(Seq(S))
  PROVE  /\ FlattenSeq(seqs) \in Seq(S)
         /\ \A i \in 1..Len(seqs) :
              /\ Offset(seqs, i) \in Nat
              /\ Offset(seqs, i) + Len(seqs[i]) <= Len(FlattenSeq(seqs))
              /\ \A j \in 1..Len(seqs[i]) : FlattenSeq(seqs)[Offset(seqs, i) + j] = seqs[i][j]
              /\ i > 1 => Offset(seqs, i) = Offset(seqs, i - 1) + Len(seqs[i - 1])
         /\ Len(seqs) > 0 => Offset(seqs, 1) = 0
<1>1. CASE Len(seqs) = 0
  <2>1. FlattenSeq(seqs) = seqs /\ seqs = <<>>
    BY <1>1, FlattenUnfolded
  <2> QED
    BY <1>1, <2>1
<1>2. CASE Len(seqs) # 0
  <2>1. Len(seqs) \in Nat /\ Len(seqs) \in 1..Len(seqs) /\ FlattenSeq(seqs) = Joined(seqs)[Len(seqs)]
    BY <1>2, FlattenUnfolded
  <2>2. Laid(seqs, S, Len(seqs))
    BY <2>1, AllLaid
  <2>3. ASSUME NEW i \in 1..Len(seqs), i > 1
        PROVE  Offset(seqs, i) = Offset(seqs, i - 1) + Len(seqs[i - 1])
    <3>1. i - 1 \in 1..Len(seqs) /\ i # 1
      BY <2>1, <2>3
    <3>2. Joined(seqs)[i - 1] = JoinStep(seqs, Joined(seqs), i - 1)
      BY <2>1, <3>1, JoinedSolves
    <3>3. Offset(seqs, i) = Len(Joined(seqs)[i - 1]) /\ seqs[i - 1] \in Seq(S)
      BY <3>1 DEF Offset
    <3>4. CASE i - 1 = 1
      <4>1. Joined(seqs)[i - 1] = seqs[i - 1] /\ Offset(seqs, i - 1) = 0 /\ Len(seqs[i - 1]) \in Nat
        BY <3>2, <3>3, <3>4 DEF JoinStep, Offset
      <4> QED
        BY <3>3, <4>1
    <3>5. CASE i - 1 # 1
      <4>1. (i - 1) - 1 \in 1..Len(seqs)
        BY <2>1, <3>1, <3>5
      <4>2. Joined(seqs)[(i - 1) - 1] \in Seq(S)
        BY <4>1, AllLaid DEF Laid
      <4>3. /\ Joined(seqs)[i - 1] = Joined(seqs)[(i - 1) - 1] \o seqs[i - 1]
            /\ Offset(seqs, i - 1) = Len(Joined(seqs)[(i - 1) - 1])
        BY <3>2, <3>5 DEF JoinStep, Offset
      <4> DEFINE old == Joined(seqs)[(i - 1) - 1]
                 part == seqs[i - 1]
      <4>4. old \in Seq(S) /\ part \in Seq(S) /\ Offset(seqs, i) = Len(old \o part) /\ Offset(seqs, i - 1) = Len(old)
        BY <3>3, <4>2, <4>3
      <4> HIDE DEF old, part
      <4>5. Offset(seqs, i) = Len(old) + Len(part)
        BY <4>4
      <4> QED
        BY <4>4, <4>5 DEF part
    <3> QED
      BY <3>4, <3>5
  <2> QED
    BY <2>1, <2>2, <2>3 DEF Laid, Offset
<1> QED
  BY <1>1, <1>2

(***************************************************************************)
(* And every place of the joined one is of some sequence.                  *)
(***************************************************************************)
Filled(seqs, k) ==
    \A x \in 1..Len(Joined(seqs)[k]) :
        \E i \in 1..k : \E j \in 1..Len(seqs[i]) : x = Offset(seqs, i) + j

LEMMA FilledNext ==
  ASSUME NEW S, NEW seqs \in Seq(Seq(S)), NEW k \in 1..Len(seqs), k # 1 => Filled(seqs, k - 1)
  PROVE  Filled(seqs, k)
<1> DEFINE J == Joined(seqs)
<1>0. k \in Nat /\ k >= 1 /\ Len(seqs) \in Nat /\ k \in 1..k
  OBVIOUS
<1>1. J[k] = IF k = 1 THEN seqs[k] ELSE J[k - 1] \o seqs[k]
  BY JoinedSolves DEF JoinStep
<1> SUFFICES ASSUME NEW x \in 1..Len(J[k])
             PROVE  \E i \in 1..k : \E j \in 1..Len(seqs[i]) : x = Offset(seqs, i) + j
  BY DEF Filled
<1>2. CASE k = 1
  <2>1. x \in 1..Len(seqs[k]) /\ x = Offset(seqs, k) + x
    BY <1>1, <1>2 DEF Offset
  <2> QED
    BY <1>0, <2>1
<1>3. CASE k # 1
  <2> DEFINE old == J[k - 1]
             part == seqs[k]
  <2>1. k - 1 \in 1..Len(seqs)
    BY <1>0, <1>3
  <2>2. old \in Seq(S) /\ part \in Seq(S) /\ Offset(seqs, k) = Len(old) /\ J[k] = old \o part
    <3>1. Laid(seqs, S, k - 1)
      BY <2>1, AllLaid
    <3>2. old \in Seq(S)
      BY <3>1 DEF Laid
    <3>3. part \in Seq(S)
      OBVIOUS
    <3> QED
      BY <1>1, <1>3, <3>2, <3>3 DEF Offset
  <2>3. x \in 1..Len(old \o part)
    BY <2>2
  <2> HIDE DEF old, part, J
  <2>4. Len(old) \in Nat /\ Len(part) \in Nat /\ x \in 1..(Len(old) + Len(part))
    BY <2>2, <2>3
  <2>5. CASE x <= Len(old)
    <3>1. x \in 1..Len(Joined(seqs)[k - 1])
      BY <2>4, <2>5 DEF old, J
    <3>2. PICK i \in 1..(k - 1) : \E j \in 1..Len(seqs[i]) : x = Offset(seqs, i) + j
      BY <1>3, <3>1 DEF Filled
    <3>3. i \in 1..k
      BY <1>0, <3>2
    <3> QED
      BY <3>2, <3>3
  <2>6. CASE x > Len(old)
    <3>1. x - Len(old) \in 1..Len(part) /\ x = Offset(seqs, k) + (x - Len(old))
      BY <2>2, <2>4, <2>6
    <3> QED
      BY <1>0, <3>1 DEF part
  <2> QED
    BY <2>4, <2>5, <2>6
<1> QED
  BY <1>2, <1>3

LEMMA FlattenFills ==
  ASSUME NEW S, NEW seqs \in Seq(Seq(S))
  PROVE  \A x \in 1..Len(FlattenSeq(seqs)) :
            \E i \in 1..Len(seqs) : \E j \in 1..Len(seqs[i]) : x = Offset(seqs, i) + j
<1> DEFINE bad == {k \in 1..Len(seqs) : ~Filled(seqs, k)}
           m == Min(bad)
<1>1. CASE bad # {}
  <2>1. bad \in SUBSET Nat
    OBVIOUS
  <2>2. m \in bad /\ \A k \in bad : m <= k
    <3> HIDE DEF bad
    <3> QED
      BY <1>1, <2>1, LeastNatural
  <2> HIDE DEF m
  <2>3. m # 1 => m - 1 \in 1..Len(seqs) /\ m - 1 \notin bad
    BY <2>2
  <2>4. m # 1 => Filled(seqs, m - 1)
    BY <2>3
  <2> QED
    BY <2>2, <2>4, FilledNext
<1>2. CASE bad = {}
  <2>1. CASE Len(seqs) = 0
    BY <2>1, FlattenUnfolded
  <2>2. CASE Len(seqs) # 0
    <3>1. Len(seqs) \in 1..Len(seqs)
      BY <2>2
    <3>2. Filled(seqs, Len(seqs))
      BY <1>2, <3>1
    <3> QED
      BY <2>2, <3>2, FlattenUnfolded DEF Filled
  <2> QED
    BY <2>1, <2>2
<1> QED
  BY <1>1, <1>2

-----------------------------------------------------------------------------
(***************************************************************************)
(* Sorting by a strict total order lists every element once, in order.     *)
(***************************************************************************)
TotalOrder(S, before) ==
    /\ \A x \in S : <<x, x>> \notin before
    /\ \A x, y, z \in S : <<x, y>> \in before /\ <<y, z>> \in before => <<x, z>> \in before
    /\ \A x, y \in S : x = y \/ <<x, y>> \in before \/ <<y, x>> \in before

Earlier(S, before, x) == {y \in S : <<y, x>> \in before}

LEMMA EarlierIsLess ==
  ASSUME NEW S, IsFiniteSet(S), NEW before, TotalOrder(S, before),
         NEW x \in S, NEW z \in S, <<x, z>> \in before
  PROVE  Cardinality(Earlier(S, before, x)) < Cardinality(Earlier(S, before, z))
<1> DEFINE X == Earlier(S, before, x)
           Z == Earlier(S, before, z)
<1>1. X \cup {x} \subseteq Z /\ x \notin X
  BY DEF Earlier, TotalOrder
<1>2. X \subseteq S /\ Z \subseteq S
  BY DEF Earlier
<1> HIDE DEF X, Z
<1>3. IsFiniteSet(X) /\ IsFiniteSet(Z)
  BY <1>2, FS_Subset
<1>4. Cardinality(X \cup {x}) = Cardinality(X) + 1 /\ Cardinality(X \cup {x}) <= Cardinality(Z)
  BY <1>1, <1>3, FS_AddElement, FS_Subset
<1> QED
  BY <1>3, <1>4, FS_CardinalityType DEF X, Z

LEMMA ListedOnce ==
  ASSUME NEW S, IsFiniteSet(S), NEW before, TotalOrder(S, before)
  PROVE  /\ Cardinality(S) \in Nat
         /\ Listed(S, before) \in Bijection(1..Cardinality(S), S)
         /\ \A i, j \in 1..Cardinality(S) :
                i < j => <<Listed(S, before)[i], Listed(S, before)[j]>> \in before
         /\ \A i \in 1..Cardinality(S) :
                Cardinality(Earlier(S, before, Listed(S, before)[i])) = i - 1
<1> DEFINE n == Cardinality(S)
           count == [x \in S |-> Cardinality(Earlier(S, before, x))]
           list == Listed(S, before)
<1>1. n \in Nat
  BY FS_CardinalityType
<1>2. \A x \in S : count[x] \in Nat /\ count[x] < n
  <2> TAKE x \in S
  <2> DEFINE X == Earlier(S, before, x)
  <2>1. X \subseteq S /\ x \notin X /\ X \cup {x} \subseteq S
    BY DEF Earlier, TotalOrder
  <2> HIDE DEF X
  <2>2. IsFiniteSet(X) /\ Cardinality(X) \in Nat
    BY <2>1, FS_Subset, FS_CardinalityType
  <2>3. Cardinality(X \cup {x}) = Cardinality(X) + 1 /\ Cardinality(X \cup {x}) <= n
    BY <2>1, <2>2, FS_AddElement, FS_Subset
  <2>4. count[x] = Cardinality(X)
    BY DEF X
  <2> QED
    BY <1>1, <2>2, <2>3, <2>4
<1>3. \A x, z \in S : <<x, z>> \in before => count[x] < count[z]
  BY EarlierIsLess
<1>4. \A x, z \in S : count[x] = count[z] => x = z
  <2> SUFFICES ASSUME NEW x \in S, NEW z \in S, count[x] = count[z] PROVE x = z
    OBVIOUS
  <2>1. count[x] \in Nat /\ ~(count[x] < count[z]) /\ ~(count[z] < count[x])
    BY <1>2
  <2> HIDE DEF count
  <2> QED
    BY <1>3, <2>1 DEF TotalOrder
<1>5. count \in [S -> 0..(n - 1)]
  <2>1. \A x \in S : Cardinality(Earlier(S, before, x)) \in 0..(n - 1)
    BY <1>1, <1>2
  <2> HIDE DEF n
  <2> QED
    BY <2>1
<1>6. \A i \in 1..n : list[i] = CHOOSE x \in S : count[x] = i - 1
  BY DEF Listed, Earlier
<1>7. list = [i \in 1..n |-> CHOOSE x \in S : count[x] = i - 1]
  BY DEF Listed, Earlier
<1> HIDE DEF n, count, list
<1>8. count \in Injection(S, 0..(n - 1))
  BY <1>4, <1>5 DEF Injection, IsInjective
<1>9. IsFiniteSet(0..(n - 1)) /\ Cardinality(0..(n - 1)) = n
  <2>1. 0 \in Int /\ n - 1 \in Int
    BY <1>1
  <2>2. IsFiniteSet(0..(n-1)) /\ Cardinality(0..(n-1)) = IF 0 > n - 1 THEN 0 ELSE n - 1 - 0 + 1
    BY <2>1, FS_Interval
  <2> QED
    BY <1>1, <2>2
<1>10. count \in Surjection(S, 0..(n - 1))
  BY <1>8, <1>9, FS_Injection DEF n
<1>11. \A i \in 1..n : list[i] \in S /\ count[list[i]] = i - 1
  <2> TAKE i \in 1..n
  <2>1. i - 1 \in 0..(n - 1)
    BY <1>1
  <2>2. \E x \in S : count[x] = i - 1
    BY <2>1, <1>10 DEF Surjection
  <2> QED
    BY <2>2, <1>6
<1>12. list \in [1..n -> S]
  BY <1>7, <1>11
<1>13. \A i, j \in 1..n : list[i] = list[j] => i = j
  <2> TAKE i, j \in 1..n
  <2>1. list[i] = list[j] => i - 1 = j - 1
    BY <1>11
  <2> QED
    BY <1>1, <2>1
<1>14. \A x \in S : \E i \in 1..n : list[i] = x
  <2> TAKE x \in S
  <2>1. count[x] + 1 \in 1..n
    BY <1>1, <1>2
  <2>2. list[count[x] + 1] \in S /\ count[list[count[x] + 1]] = count[x]
    BY <1>1, <1>2, <1>11, <2>1
  <2> QED
    BY <1>4, <2>1, <2>2
<1>15. list \in Bijection(1..n, S)
  BY <1>12, <1>13, <1>14 DEF Bijection, Injection, Surjection, IsInjective
<1>16. \A i, j \in 1..n : i < j => <<list[i], list[j]>> \in before
  <2> SUFFICES ASSUME NEW i \in 1..n, NEW j \in 1..n, i < j
               PROVE  <<list[i], list[j]>> \in before
    OBVIOUS
  <2>1. count[list[i]] < count[list[j]] /\ list[i] \in S /\ list[j] \in S
    BY <1>1, <1>11
  <2>2. list[i] # list[j] /\ ~(count[list[j]] < count[list[i]])
    BY <1>2, <2>1
  <2> QED
    BY <1>3, <2>1, <2>2 DEF TotalOrder
<1>17. \A i \in 1..n : Cardinality(Earlier(S, before, list[i])) = i - 1
  BY <1>11 DEF count
<1> QED
  BY <1>1, <1>15, <1>16, <1>17 DEF n, list

(***************************************************************************)
(* Tuples of numbers are totally ordered by their first difference, so     *)
(* that sorting by distinct keys lists everything once.                    *)
(***************************************************************************)
LEMMA LowerOrders ==
  ASSUME NEW k \in Nat, NEW a \in [1..k -> Nat], NEW b \in [1..k -> Nat], NEW c \in [1..k -> Nat]
  PROVE  /\ ~Lower(a, a)
         /\ Lower(a, b) /\ Lower(b, c) => Lower(a, c)
         /\ a = b \/ Lower(a, b) \/ Lower(b, a)
<1>1. ~Lower(a, a)
  BY DEF Lower
<1>2. ASSUME Lower(a, b), Lower(b, c) PROVE Lower(a, c)
  <2>1. PICK i \in 1..k : a[i] < b[i] /\ \A j \in 1..(i - 1) : a[j] = b[j]
    BY <1>2 DEF Lower
  <2>2. PICK m \in 1..k : b[m] < c[m] /\ \A j \in 1..(m - 1) : b[j] = c[j]
    BY <1>2 DEF Lower
  <2>3. CASE i <= m
    <3>1. a[i] < c[i]
      BY <2>1, <2>2, <2>3
    <3>2. \A j \in 1..(i - 1) : a[j] = c[j]
      BY <2>1, <2>2, <2>3
    <3> QED
      BY <3>1, <3>2 DEF Lower
  <2>4. CASE m < i
    <3>1. a[m] < c[m]
      BY <2>1, <2>2, <2>4
    <3>2. \A j \in 1..(m - 1) : a[j] = c[j]
      BY <2>1, <2>2, <2>4
    <3> QED
      BY <3>1, <3>2 DEF Lower
  <2> QED
    BY <2>3, <2>4
<1>3. ASSUME a # b PROVE Lower(a, b) \/ Lower(b, a)
  <2> DEFINE D == {i \in 1..k : a[i] # b[i]}
  <2>1. D \in SUBSET Nat /\ D # {}
    <3>1. a = [i \in 1..k |-> a[i]] /\ b = [i \in 1..k |-> b[i]]
      OBVIOUS
    <3>2. \E i \in 1..k : a[i] # b[i]
      BY <1>3, <3>1
    <3>3. PICK i \in 1..k : a[i] # b[i]
      BY <3>2
    <3>4. i \in D
      BY <3>3
    <3>5. \A j \in D : j \in Nat
      OBVIOUS
    <3> HIDE DEF D
    <3> QED
      BY <3>4, <3>5
  <2>2. PICK i \in D : \A x \in D : i <= x
    BY <2>1, LeastNatural
  <2>3. i \in 1..k /\ a[i] # b[i] /\ a[i] \in Nat /\ b[i] \in Nat
    OBVIOUS
  <2>4. \A j \in 1..(i - 1) : a[j] = b[j]
    BY <2>2, <2>3
  <2>5. a[i] < b[i] \/ b[i] < a[i]
    BY <2>3
  <2> QED
    BY <2>3, <2>4, <2>5 DEF Lower
<1> QED
  BY <1>1, <1>2, <1>3

(***************************************************************************)
(* A list of S: every element at one place.                                *)
(***************************************************************************)
Lists(list, S) ==
    /\ Len(list) \in Nat /\ list \in [1..Len(list) -> S]
    /\ \A x \in S : \E i \in 1..Len(list) : list[i] = x
    /\ \A i, j \in 1..Len(list) : list[i] = list[j] => i = j

InOrder(list, key) ==
    \A i, j \in 1..Len(list) : i < j => Lower(key[list[i]], key[list[j]])

LEMMA KeysOrder ==
  ASSUME NEW S, IsFiniteSet(S), NEW k \in Nat, NEW key \in [S -> [1..k -> Nat]],
         \A x, y \in S : key[x] = key[y] => x = y
  PROVE  Lists(ListedBy(key), S) /\ InOrder(ListedBy(key), key)
<1> DEFINE before == {p \in S \X S : Lower(key[p[1]], key[p[2]])}
           list == ListedBy(key)
           n == Cardinality(S)
<1>1. \A x, y \in S : <<x, y>> \in before <=> Lower(key[x], key[y])
  OBVIOUS
<1>2. list = Listed(S, before)
  BY DEF ListedBy
<1> HIDE DEF before, list
<1>3. TotalOrder(S, before)
  <2>1. \A x \in S : <<x, x>> \notin before
    <3>1. \A a \in [1..k -> Nat] : ~Lower(a, a)
      BY LowerOrders
    <3> QED
      BY <1>1, <3>1
  <2>2. \A x, y, z \in S : <<x, y>> \in before /\ <<y, z>> \in before => <<x, z>> \in before
    BY <1>1, LowerOrders
  <2>3. \A x, y \in S : x = y \/ <<x, y>> \in before \/ <<y, x>> \in before
    BY <1>1, LowerOrders
  <2> QED
    BY <2>1, <2>2, <2>3 DEF TotalOrder
<1>4. /\ n \in Nat /\ list \in Bijection(1..n, S)
      /\ \A i, j \in 1..n : i < j => <<list[i], list[j]>> \in before
  BY <1>2, <1>3, ListedOnce
<1> HIDE DEF n
<1>5. list \in [1..n -> S] /\ IsInjective(list) /\ \A x \in S : \E i \in 1..n : list[i] = x
  BY <1>4 DEF Bijection, Injection, Surjection
<1>6. Len(list) = n
  BY <1>4, <1>5
<1>7. InOrder(list, key)
  BY <1>1, <1>4, <1>5, <1>6 DEF InOrder
<1> QED
  BY <1>4, <1>5, <1>6, <1>7 DEF Lists, IsInjective, list

LEMMA KeysList ==
  ASSUME NEW S, IsFiniteSet(S), NEW k \in Nat, NEW key \in [S -> [1..k -> Nat]],
         \A x, y \in S : key[x] = key[y] => x = y
  PROVE  Lists(ListedBy(key), S)
BY KeysOrder

(***************************************************************************)
(* Lists without a common element, joined, list what is in any of them.    *)
(***************************************************************************)
AllAppear(seqs, S) ==
    \A x \in S : \E i \in 1..Len(seqs) : \E j \in 1..Len(seqs[i]) : seqs[i][j] = x

NoneTwice(seqs) ==
    \A i, k \in 1..Len(seqs) : \A j \in 1..Len(seqs[i]), l \in 1..Len(seqs[k]) :
        seqs[i][j] = seqs[k][l] => i = k /\ j = l

LEMMA FlattenLists ==
  ASSUME NEW S, NEW seqs \in Seq(Seq(S)), AllAppear(seqs, S), NoneTwice(seqs)
  PROVE  Lists(FlattenSeq(seqs), S)
<1> DEFINE list == FlattenSeq(seqs)
<1>1. list \in Seq(S)
  BY FlattenLays
<1>2. ASSUME NEW i \in 1..Len(seqs), NEW j \in 1..Len(seqs[i])
      PROVE  Offset(seqs, i) + j \in 1..Len(list) /\ list[Offset(seqs, i) + j] = seqs[i][j]
  <2>1. /\ Offset(seqs, i) \in Nat /\ Offset(seqs, i) + Len(seqs[i]) <= Len(list)
        /\ list[Offset(seqs, i) + j] = seqs[i][j]
    BY FlattenLays
  <2>2. Len(seqs[i]) \in Nat /\ Len(list) \in Nat
    BY <1>1
  <2> DEFINE o == Offset(seqs, i)
             b == Len(seqs[i])
             c == Len(list)
  <2>3. o \in Nat /\ b \in Nat /\ c \in Nat /\ o + b <= c /\ j \in 1..b
    BY <2>1, <2>2
  <2> HIDE DEF o, b, c
  <2>4. o + j \in 1..c
    BY <2>3
  <2> QED
    BY <2>1, <2>4 DEF o, c
<1>3. ASSUME NEW x \in 1..Len(list)
      PROVE  \E i \in 1..Len(seqs) : \E j \in 1..Len(seqs[i]) : x = Offset(seqs, i) + j
  BY FlattenFills
<1> HIDE DEF list
<1>4. \A x \in S : \E i \in 1..Len(list) : list[i] = x
  <2> TAKE x \in S
  <2>1. PICK i \in 1..Len(seqs) : \E j \in 1..Len(seqs[i]) : seqs[i][j] = x
    BY DEF AllAppear
  <2>2. PICK j \in 1..Len(seqs[i]) : seqs[i][j] = x
    BY <2>1
  <2>3. Offset(seqs, i) + j \in 1..Len(list) /\ list[Offset(seqs, i) + j] = x
    BY <1>2, <2>2
  <2> QED
    BY <2>3
<1>5. ASSUME NEW x \in 1..Len(list), NEW y \in 1..Len(list), list[x] = list[y] PROVE x = y
  <2>1. PICK i \in 1..Len(seqs) : \E j \in 1..Len(seqs[i]) : x = Offset(seqs, i) + j
    BY <1>3
  <2>2. PICK j \in 1..Len(seqs[i]) : x = Offset(seqs, i) + j
    BY <2>1
  <2>3. PICK k \in 1..Len(seqs) : \E l \in 1..Len(seqs[k]) : y = Offset(seqs, k) + l
    BY <1>3
  <2>4. PICK l \in 1..Len(seqs[k]) : y = Offset(seqs, k) + l
    BY <2>3
  <2>5. seqs[i][j] = seqs[k][l]
    BY <1>2, <1>5, <2>2, <2>4
  <2> QED
    BY <2>2, <2>4, <2>5 DEF NoneTwice
<1>6. Len(list) \in Nat /\ list \in [1..Len(list) -> S]
  BY <1>1
<1> QED
  BY <1>4, <1>5, <1>6 DEF Lists, list
=============================================================================
