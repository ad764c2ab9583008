------------------------------ MODULE DataLemmas ------------------------------
(***************************************************************************)
(* What the proofs need to know of data.  Of SumFunctionOnSet: the         *)
(* recursion behind it is well defined on a finite set, a sum of naturals  *)
(* is a natural, and the order in which the recursion takes the elements   *)
(* makes no difference.  Of functions by recursion on a number: that they  *)
(* exist and are unique.  Of a total order: that each place is taken.  The *)
(* inductions are on sets, stated with sets instead of predicates so that  *)
(* first-order provers can use them.                                       *)
(***************************************************************************)
EXTENDS Naturals, FiniteSets, Functions, Folds, FiniteSetTheorems,
        WellFoundedInduction, TLAPS

(* Induction on the naturals, for a set instead of a predicate.             *)
LEMMA NatSetInduction ==
  ASSUME NEW D \in SUBSET Nat, 0 \in D, \A n \in D : n + 1 \in D
  PROVE  D = Nat
<1>1. SUFFICES ASSUME Nat \ D # {} PROVE FALSE
  OBVIOUS
<1>2. PICK m \in Nat \ D : \A k \in Nat \ D : ~ (<<k, m>> \in OpToRel(<, Nat))
  BY <1>1, NatLessThanWellFounded, WFMin
<1>3. \A k \in Nat \ D : ~ (k < m)
  BY <1>2 DEF OpToRel
<1>4. QED
  BY <1>3

(* In a non-empty set there is one of the smallest measure.                 *)
LEMMA SmallestExists ==
  ASSUME NEW T, T # {}, NEW f, \A x \in T : f[x] \in Nat
  PROVE  \E x \in T : \A y \in T : f[x] <= f[y]
<1> DEFINE M == {f[x] : x \in T}
<1>1. M \in SUBSET Nat /\ M # {}
  OBVIOUS
<1>2. PICK m \in M : \A k \in M : ~ (<<k, m>> \in OpToRel(<, Nat))
  <2> HIDE DEF M
  <2> QED
    BY <1>1, NatLessThanWellFounded, WFMin
<1>3. \A k \in M : ~ (k < m)
  BY <1>1, <1>2 DEF OpToRel
<1>4. PICK x \in T : m = f[x]
  BY <1>2
<1>5. \A y \in T : f[y] \in M /\ f[y] \in Nat
  OBVIOUS
<1> HIDE DEF M
<1> QED
  BY <1>3, <1>4, <1>5

(* The element the fold takes out of a set, and the recursion it follows.   *)
Taken(s) == CHOOSE x \in s : TRUE

Follows(g, f, s) == g[s] = IF s = {} THEN 0 ELSE f[Taken(s)] + g[s \ {Taken(s)}]

IsFold(g, f, S) ==
  g = [s \in SUBSET S |-> IF s = {} THEN 0 ELSE f[Taken(s)] + g[s \ {Taken(s)}]]

SmallSubsets(S, n) == {s \in SUBSET S : Cardinality(s) <= n}

(* Taking an element out of a non-empty finite set makes it smaller.        *)
LEMMA TakenIsSmaller ==
  ASSUME NEW S, IsFiniteSet(S), NEW s \in SUBSET S, s # {}
  PROVE  /\ Taken(s) \in s
         /\ s \ {Taken(s)} \in SUBSET S
         /\ Cardinality(s) \in Nat \ {0}
         /\ Cardinality(s \ {Taken(s)}) = Cardinality(s) - 1
<1>1. Taken(s) \in s
  BY DEF Taken
<1>2. IsFiniteSet(s)
  BY FS_Subset
<1>3. Cardinality(s) \in Nat /\ Cardinality(s) # 0
  BY <1>2, FS_CardinalityType, FS_EmptySet
<1>4. Cardinality(s \ {Taken(s)}) = Cardinality(s) - 1
  BY <1>1, <1>2, FS_RemoveElement
<1>5. QED
  BY <1>1, <1>3, <1>4

(* The only subset without an element, and how a subset of one element more *)
(* is made.                                                                 *)
LEMMA NoElements ==
  ASSUME NEW S, IsFiniteSet(S)
  PROVE  SmallSubsets(S, 0) = {{}}
<1>1. {} \in SmallSubsets(S, 0)
  BY FS_EmptySet DEF SmallSubsets
<1>2. ASSUME NEW s \in SmallSubsets(S, 0), s # {} PROVE FALSE
  <2>1. s \in SUBSET S /\ Cardinality(s) <= 0
    BY DEF SmallSubsets
  <2>2. Cardinality(s) \in Nat \ {0}
    BY <1>2, <2>1, TakenIsSmaller
  <2>3. QED
    BY <2>1, <2>2
<1>3. QED
  BY <1>1, <1>2

LEMMA OneElementLess ==
  ASSUME NEW S, IsFiniteSet(S), NEW n \in Nat,
         NEW s \in SmallSubsets(S, n + 1), s # {}
  PROVE  /\ s \in SUBSET S
         /\ Taken(s) \in S
         /\ s \ {Taken(s)} \in SmallSubsets(S, n)
         /\ s \ {Taken(s)} \in SmallSubsets(S, n + 1)
<1>1. s \in SUBSET S /\ Cardinality(s) <= n + 1
  BY DEF SmallSubsets
<1>2. /\ Taken(s) \in s
      /\ s \ {Taken(s)} \in SUBSET S
      /\ Cardinality(s) \in Nat \ {0}
      /\ Cardinality(s \ {Taken(s)}) = Cardinality(s) - 1
  BY <1>1, TakenIsSmaller
<1>3. Cardinality(s \ {Taken(s)}) <= n
  BY <1>1, <1>2
<1>4. QED
  BY <1>1, <1>2, <1>3 DEF SmallSubsets

LEMMA SmallerIsSmall ==
  ASSUME NEW S, IsFiniteSet(S), NEW n \in Nat, NEW s \in SmallSubsets(S, n)
  PROVE  s \in SmallSubsets(S, n + 1)
<1>1. s \in SUBSET S /\ Cardinality(s) <= n
  BY DEF SmallSubsets
<1>2. Cardinality(s) \in Nat
  BY <1>1, FS_Subset, FS_CardinalityType
<1>3. Cardinality(s) <= n + 1
  BY <1>1, <1>2
<1>4. QED
  BY <1>1, <1>3 DEF SmallSubsets

(* Subsets of at most n elements have a function that follows the recursion.*)
LEMMA RecursionExists ==
  ASSUME NEW S, IsFiniteSet(S), NEW f, \A x \in S : f[x] \in Nat
  PROVE  \E g : IsFold(g, f, S)
<1> DEFINE Good(n, h) == /\ h \in [SmallSubsets(S, n) -> Nat]
                         /\ \A s \in SmallSubsets(S, n) : Follows(h, f, s)
           D == {n \in Nat : \E h : Good(n, h)}
<1>1. 0 \in D
  <2> DEFINE h == [s \in SmallSubsets(S, 0) |-> 0]
  <2>2. Good(0, h)
    BY NoElements DEF Follows
  <2>3. QED
    BY <2>2
<1>2. ASSUME NEW n \in D PROVE n + 1 \in D
  <2>1. PICK h : Good(n, h)
    OBVIOUS
  <2> DEFINE H == [s \in SmallSubsets(S, n + 1) |->
                     IF s = {} THEN 0 ELSE f[Taken(s)] + h[s \ {Taken(s)}]]
  <2>2. ASSUME NEW s \in SmallSubsets(S, n + 1), s # {}
        PROVE  /\ s \ {Taken(s)} \in SmallSubsets(S, n)
               /\ s \ {Taken(s)} \in SmallSubsets(S, n + 1)
               /\ Taken(s) \in S
    BY <2>2, OneElementLess
  <2>3. H \in [SmallSubsets(S, n + 1) -> Nat]
    <3>1. ASSUME NEW s \in SmallSubsets(S, n + 1), s # {}
          PROVE  f[Taken(s)] + h[s \ {Taken(s)}] \in Nat
      BY <3>1, <2>1, <2>2
    <3>2. QED
      BY <3>1
  <2>4. ASSUME NEW s \in SmallSubsets(S, n) PROVE H[s] = h[s]
    <3>1. s \in SmallSubsets(S, n + 1)
      BY SmallerIsSmall
    <3>2. QED
      BY <3>1, <2>1 DEF Follows
  <2>5. \A s \in SmallSubsets(S, n + 1) : Follows(H, f, s)
    BY <2>2, <2>4 DEF Follows
  <2>6. Good(n + 1, H)
    BY <2>3, <2>5
  <2> HIDE DEF Good, H
  <2>7. QED
    BY <2>6
<1>3. D = Nat
  <2>1. D \in SUBSET Nat
    OBVIOUS
  <2> HIDE DEF D
  <2>2. QED
    BY <2>1, <1>1, <1>2, NatSetInduction
<1>4. Cardinality(S) \in Nat
  BY FS_CardinalityType
<1>5. PICK g : Good(Cardinality(S), g)
  BY <1>3, <1>4
<1>6. SmallSubsets(S, Cardinality(S)) = SUBSET S
  BY FS_Subset DEF SmallSubsets
<1>7. IsFold(g, f, S)
  BY <1>5, <1>6 DEF Follows, IsFold
<1>8. QED
  BY <1>7

(* A function that follows the recursion has naturals for values.           *)
LEMMA RecursionIsNat ==
  ASSUME NEW S, IsFiniteSet(S), NEW f, \A x \in S : f[x] \in Nat,
         NEW g, \A s \in SUBSET S : Follows(g, f, s)
  PROVE  \A s \in SUBSET S : g[s] \in Nat
<1> DEFINE D == {n \in Nat : \A s \in SmallSubsets(S, n) : g[s] \in Nat}
<1>1. 0 \in D
  <2>1. g[{}] = 0
    BY {} \in SUBSET S DEF Follows
  <2>2. SmallSubsets(S, 0) = {{}}
    BY NoElements
  <2>3. \A s \in SmallSubsets(S, 0) : g[s] = 0
    BY <2>1, <2>2
  <2>4. QED
    BY <2>3
<1>2. ASSUME NEW n \in D PROVE n + 1 \in D
  <2>1. SUFFICES ASSUME NEW s \in SmallSubsets(S, n + 1) PROVE g[s] \in Nat
    OBVIOUS
  <2>2. s \in SUBSET S
    BY DEF SmallSubsets
  <2>3. CASE s = {}
    BY <2>2, <2>3 DEF Follows
  <2>4. CASE s # {}
    <3>1. s \ {Taken(s)} \in SmallSubsets(S, n) /\ Taken(s) \in S
      BY <2>4, OneElementLess
    <3>2. g[s \ {Taken(s)}] \in Nat /\ f[Taken(s)] \in Nat
      BY <3>1
    <3>3. g[s] = f[Taken(s)] + g[s \ {Taken(s)}]
      BY <2>2, <2>4 DEF Follows
    <3>4. QED
      BY <3>2, <3>3
  <2>5. QED
    BY <2>3, <2>4
<1>3. D = Nat
  <2>1. D \in SUBSET Nat
    OBVIOUS
  <2> HIDE DEF D
  <2>2. QED
    BY <2>1, <1>1, <1>2, NatSetInduction
<1>4. ASSUME NEW s \in SUBSET S PROVE g[s] \in Nat
  <2>1. Cardinality(s) \in Nat
    BY FS_Subset, FS_CardinalityType
  <2>2. s \in SmallSubsets(S, Cardinality(s))
    BY <2>1 DEF SmallSubsets
  <2>3. QED
    BY <1>3, <2>1, <2>2
<1>5. QED
  BY <1>4

(* The sum is what some function that follows the recursion has for S.      *)
LEMMA SumIsFold ==
  ASSUME NEW S, IsFiniteSet(S), NEW f, \A x \in S : f[x] \in Nat
  PROVE  \E g : SumFunctionOnSet(f, S) = g[S] /\ \A s \in SUBSET S : Follows(g, f, s)
<1> DEFINE g == CHOOSE h : IsFold(h, f, S)
<1>1. SumFunctionOnSet(f, S) = g[S]
  BY DEF SumFunctionOnSet, FoldFunctionOnSet, MapThenFoldSet, Taken, IsFold
<1>2. IsFold(g, f, S)
  <2>1. \E h : IsFold(h, f, S)
    BY RecursionExists
  <2>2. QED
    BY <2>1
<1> HIDE DEF g
<1>3. \A s \in SUBSET S : Follows(g, f, s)
  BY <1>2 DEF IsFold, Follows
<1>4. QED
  BY <1>1, <1>3

(* The sum of naturals over a finite set is a natural.                      *)
LEMMA SumIsNat ==
  ASSUME NEW S, IsFiniteSet(S), NEW f, \A x \in S : f[x] \in Nat
  PROVE  SumFunctionOnSet(f, S) \in Nat
<1>1. PICK g : SumFunctionOnSet(f, S) = g[S] /\ \A s \in SUBSET S : Follows(g, f, s)
  BY SumIsFold
<1>2. \A s \in SUBSET S : g[s] \in Nat
  BY <1>1, RecursionIsNat
<1>3. QED
  BY <1>1, <1>2

(* Two functions that follow the recursion are the same on all subsets.     *)
LEMMA RecursionIsUnique ==
  ASSUME NEW S, IsFiniteSet(S), NEW f,
         NEW g, \A s \in SUBSET S : Follows(g, f, s),
         NEW h, \A s \in SUBSET S : Follows(h, f, s)
  PROVE  \A s \in SUBSET S : g[s] = h[s]
<1> DEFINE D == {n \in Nat : \A s \in SmallSubsets(S, n) : g[s] = h[s]}
<1>1. 0 \in D
  <2>1. g[{}] = 0 /\ h[{}] = 0
    BY {} \in SUBSET S DEF Follows
  <2>2. \A s \in SmallSubsets(S, 0) : g[s] = h[s]
    BY <2>1, NoElements
  <2>3. QED
    BY <2>2
<1>2. ASSUME NEW n \in D PROVE n + 1 \in D
  <2>1. SUFFICES ASSUME NEW s \in SmallSubsets(S, n + 1) PROVE g[s] = h[s]
    OBVIOUS
  <2>2. s \in SUBSET S
    BY DEF SmallSubsets
  <2>3. CASE s = {}
    BY <2>2, <2>3 DEF Follows
  <2>4. CASE s # {}
    <3>1. s \ {Taken(s)} \in SmallSubsets(S, n)
      BY <2>4, OneElementLess
    <3>2. g[s \ {Taken(s)}] = h[s \ {Taken(s)}]
      BY <3>1
    <3>3. QED
      BY <2>2, <2>4, <3>2 DEF Follows
  <2>5. QED
    BY <2>3, <2>4
<1>3. D = Nat
  <2>1. D \in SUBSET Nat
    OBVIOUS
  <2> HIDE DEF D
  <2>2. QED
    BY <2>1, <1>1, <1>2, NatSetInduction
<1>4. ASSUME NEW s \in SUBSET S PROVE g[s] = h[s]
  <2>1. Cardinality(s) \in Nat
    BY FS_Subset, FS_CardinalityType
  <2>2. s \in SmallSubsets(S, Cardinality(s))
    BY <2>1 DEF SmallSubsets
  <2>3. QED
    BY <1>3, <2>1, <2>2
<1>5. QED
  BY <1>4

(* The sums over all subsets follow the recursion.                          *)
LEMMA SumFollows ==
  ASSUME NEW S, IsFiniteSet(S), NEW f, \A x \in S : f[x] \in Nat
  PROVE  /\ SumFunctionOnSet(f, {}) = 0
         /\ S # {} => SumFunctionOnSet(f, S) =
                        f[Taken(S)] + SumFunctionOnSet(f, S \ {Taken(S)})
<1>1. SumFunctionOnSet(f, {}) = 0
  <2>1. PICK g : SumFunctionOnSet(f, {}) = g[{}] /\ \A s \in SUBSET {} : Follows(g, f, s)
    BY FS_EmptySet, SumIsFold
  <2>2. QED
    BY <2>1 DEF Follows
<1>2. ASSUME S # {}
      PROVE  SumFunctionOnSet(f, S) = f[Taken(S)] + SumFunctionOnSet(f, S \ {Taken(S)})
  <2> DEFINE T == S \ {Taken(S)}
  <2>1. IsFiniteSet(T) /\ T \subseteq S
    BY FS_Subset
  <2>2. PICK g : SumFunctionOnSet(f, S) = g[S] /\ \A s \in SUBSET S : Follows(g, f, s)
    BY SumIsFold
  <2>3. PICK h : SumFunctionOnSet(f, T) = h[T] /\ \A s \in SUBSET T : Follows(h, f, s)
    BY <2>1, SumIsFold
  <2>4. \A s \in SUBSET T : Follows(g, f, s)
    BY <2>1, <2>2
  <2>5. g[T] = h[T]
    <3> HIDE DEF T
    <3>1. QED
      BY <2>1, <2>3, <2>4, RecursionIsUnique
  <2>6. g[S] = f[Taken(S)] + g[T]
    BY <1>2, <2>2 DEF Follows
  <2>7. QED
    BY <2>2, <2>3, <2>5, <2>6
<1>3. QED
  BY <1>1, <1>2

(* Any element can be taken out first: the order makes no difference.       *)
LEMMA SumWithout ==
  ASSUME NEW S, IsFiniteSet(S), NEW f, \A x \in S : f[x] \in Nat, NEW y \in S
  PROVE  SumFunctionOnSet(f, S) = f[y] + SumFunctionOnSet(f, S \ {y})
<1> DEFINE Sum(s) == SumFunctionOnSet(f, s)
           Any(s) == \A x \in s : Sum(s) = f[x] + Sum(s \ {x})
           D == {n \in Nat : \A s \in SmallSubsets(S, n) : Any(s)}
<1>1. ASSUME NEW s \in SUBSET S
      PROVE  /\ Sum(s) \in Nat
             /\ s # {} => Sum(s) = f[Taken(s)] + Sum(s \ {Taken(s)})
             /\ s # {} => Taken(s) \in s
  <2>1. IsFiniteSet(s) /\ \A x \in s : f[x] \in Nat
    BY FS_Subset
  <2>2. QED
    BY <2>1, SumIsNat, SumFollows DEF Taken
<1> HIDE DEF Sum
<1>2. 0 \in D
  BY NoElements
<1>3. ASSUME NEW n \in D PROVE n + 1 \in D
  <2>1. SUFFICES ASSUME NEW s \in SmallSubsets(S, n + 1), NEW x \in s
                 PROVE  Sum(s) = f[x] + Sum(s \ {x})
    OBVIOUS
  <2> DEFINE t == Taken(s)
  <2>2. s \in SUBSET S /\ s # {} /\ t \in s
    BY <1>1 DEF SmallSubsets
  <2>3. Sum(s) = f[t] + Sum(s \ {t})
    BY <1>1, <2>2
  <2>4. CASE x = t
    BY <2>3, <2>4
  <2>5. CASE x # t
    <3>1. ASSUME NEW z \in s
          PROVE  Any(s \ {z}) /\ s \ {z} \in SUBSET S
      <4>1. IsFiniteSet(s) /\ Cardinality(s) <= n + 1
        BY <2>2, FS_Subset DEF SmallSubsets
      <4>2. Cardinality(s \ {z}) = Cardinality(s) - 1 /\ Cardinality(s) \in Nat
        BY <4>1, FS_RemoveElement, FS_CardinalityType
      <4>3. s \ {z} \in SmallSubsets(S, n)
        BY <2>2, <4>1, <4>2 DEF SmallSubsets
      <4>4. QED
        BY <4>3 DEF SmallSubsets
    <3>2. Sum(s \ {t}) = f[x] + Sum((s \ {t}) \ {x})
      BY <2>2, <2>5, <3>1
    <3>3. Sum(s \ {x}) = f[t] + Sum((s \ {x}) \ {t})
      BY <2>2, <2>5, <3>1
    <3>4. Sum((s \ {t}) \ {x}) = Sum((s \ {x}) \ {t})
      <4>1. (s \ {t}) \ {x} = (s \ {x}) \ {t}
        OBVIOUS
      <4>2. QED
        BY <4>1
    <3>5. Sum((s \ {x}) \ {t}) \in Nat /\ f[x] \in Nat /\ f[t] \in Nat
      BY <1>1, <2>2
    <3> HIDE DEF t
    <3>6. \A a, b, c \in Nat : a + (b + c) = b + (a + c)
      OBVIOUS
    <3>7. QED
      BY <2>3, <3>2, <3>3, <3>4, <3>5, <3>6
  <2>6. QED
    BY <2>4, <2>5
<1>4. D = Nat
  <2>1. D \in SUBSET Nat
    OBVIOUS
  <2> HIDE DEF D
  <2>2. QED
    BY <2>1, <1>2, <1>3, NatSetInduction
<1>5. Cardinality(S) \in Nat /\ S \in SmallSubsets(S, Cardinality(S))
  BY FS_CardinalityType DEF SmallSubsets
<1>6. Any(S)
  BY <1>4, <1>5
<1>7. QED
  BY <1>6 DEF Sum

(* Induction on a finite set, for a set of subsets instead of a predicate.  *)
LEMMA SubsetInduction ==
  ASSUME NEW S, IsFiniteSet(S), NEW E \in SUBSET (SUBSET S), {} \in E,
         \A s \in E : \A x \in S \ s : s \cup {x} \in E
  PROVE  S \in E
<1> DEFINE D == {n \in Nat : SmallSubsets(S, n) \subseteq E}
<1>1. 0 \in D
  BY NoElements
<1>2. ASSUME NEW n \in D PROVE n + 1 \in D
  <2>1. SUFFICES ASSUME NEW s \in SmallSubsets(S, n + 1), s # {} PROVE s \in E
    OBVIOUS
  <2> DEFINE t == Taken(s)
  <2>2. s \ {t} \in SmallSubsets(S, n) /\ t \in S /\ s \in SUBSET S
    BY <2>1, OneElementLess
  <2>3. t \in s
    BY <2>1 DEF Taken
  <2> HIDE DEF t
  <2>4. (s \ {t}) \cup {t} \in E
    BY <2>2
  <2>5. (s \ {t}) \cup {t} = s
    BY <2>3
  <2>6. QED
    BY <2>4, <2>5
<1>3. D = Nat
  <2>1. D \in SUBSET Nat
    OBVIOUS
  <2> HIDE DEF D
  <2>2. QED
    BY <2>1, <1>1, <1>2, NatSetInduction
<1>4. Cardinality(S) \in Nat /\ S \in SmallSubsets(S, Cardinality(S))
  BY FS_CardinalityType DEF SmallSubsets
<1>5. QED
  BY <1>3, <1>4

LEMMA SumOfNothing ==
  ASSUME NEW f
  PROVE  SumFunctionOnSet(f, {}) = 0
  BY FS_EmptySet, SumFollows

LEMMA SumOfPart ==
  ASSUME NEW S, IsFiniteSet(S), NEW f, \A x \in S : f[x] \in Nat, NEW s \in SUBSET S
  PROVE  SumFunctionOnSet(f, s) \in Nat
<1>1. IsFiniteSet(s) /\ \A x \in s : f[x] \in Nat
  BY FS_Subset
<1>2. QED
  BY <1>1, SumIsNat

(* What is added to a set adds its term to the sum.                         *)
LEMMA SumWith ==
  ASSUME NEW S, IsFiniteSet(S), NEW f, \A x \in S : f[x] \in Nat,
         NEW s \in SUBSET S, NEW y \in S \ s
  PROVE  SumFunctionOnSet(f, s \cup {y}) = f[y] + SumFunctionOnSet(f, s)
<1> DEFINE t == s \cup {y}
<1>1. IsFiniteSet(s) /\ \A x \in s : f[x] \in Nat
  BY FS_Subset
<1>2. IsFiniteSet(t) /\ (\A x \in t : f[x] \in Nat) /\ y \in t /\ t \ {y} = s
  BY <1>1, FS_AddElement
<1> HIDE DEF t
<1>3. SumFunctionOnSet(f, t) = f[y] + SumFunctionOnSet(f, t \ {y})
  BY <1>2, SumWithout
<1>4. QED
  BY <1>2, <1>3 DEF t

(* Only the values on the set count.                                        *)
LEMMA SumAgrees ==
  ASSUME NEW S, IsFiniteSet(S), NEW f, NEW h,
         \A x \in S : f[x] \in Nat /\ h[x] = f[x]
  PROVE  SumFunctionOnSet(h, S) = SumFunctionOnSet(f, S)
<1> DEFINE E == {s \in SUBSET S : SumFunctionOnSet(h, s) = SumFunctionOnSet(f, s)}
<1>1. {} \in E
  BY FS_EmptySet, SumFollows
<1>2. ASSUME NEW s \in E, NEW x \in S \ s PROVE s \cup {x} \in E
  BY SumWith
<1> HIDE DEF E
<1>3. S \in E
  BY <1>1, <1>2, SubsetInduction DEF E
<1>4. QED
  BY <1>3 DEF E

(* The sum of a sum of functions.                                           *)
LEMMA SumAdds ==
  ASSUME NEW S, IsFiniteSet(S), NEW f, NEW e, NEW h,
         \A x \in S : f[x] \in Nat,
         \A x \in S : e[x] \in Nat,
         \A x \in S : h[x] = f[x] + e[x]
  PROVE  SumFunctionOnSet(h, S) = SumFunctionOnSet(f, S) + SumFunctionOnSet(e, S)
<1> DEFINE E == {s \in SUBSET S : SumFunctionOnSet(h, s)
                                   = SumFunctionOnSet(f, s) + SumFunctionOnSet(e, s)}
<1>0. \A y \in S : h[y] \in Nat
  OBVIOUS
<1>1. {} \in E
  <2>1. /\ SumFunctionOnSet(f, {}) = 0
        /\ SumFunctionOnSet(e, {}) = 0
        /\ SumFunctionOnSet(h, {}) = 0
    BY SumOfNothing
  <2>2. QED
    BY <2>1
<1>2. ASSUME NEW s \in E, NEW x \in S \ s PROVE s \cup {x} \in E
  <2>1. /\ s \in SUBSET S
        /\ SumFunctionOnSet(h, s) = SumFunctionOnSet(f, s) + SumFunctionOnSet(e, s)
    OBVIOUS
  <2> HIDE DEF E
  <2>2. SumFunctionOnSet(f, s) \in Nat
    BY <2>1, SumOfPart
  <2>3. SumFunctionOnSet(e, s) \in Nat
    BY <2>1, SumOfPart
  <2>4. SumFunctionOnSet(f, s \cup {x}) = f[x] + SumFunctionOnSet(f, s)
    BY <2>1, SumWith
  <2>5. SumFunctionOnSet(e, s \cup {x}) = e[x] + SumFunctionOnSet(e, s)
    BY <2>1, SumWith
  <2>6. SumFunctionOnSet(h, s \cup {x}) = h[x] + SumFunctionOnSet(h, s)
    BY <1>0, <2>1, SumWith
  <2>7. QED
    BY <2>1, <2>2, <2>3, <2>4, <2>5, <2>6 DEF E
<1> HIDE DEF E
<1>3. S \in E
  BY <1>1, <1>2, SubsetInduction DEF E
<1>4. QED
  BY <1>3 DEF E

(* Elements that count for nothing may be left out.                         *)
LEMMA SumWithoutZeros ==
  ASSUME NEW S, IsFiniteSet(S), NEW f, \A x \in S : f[x] \in Nat,
         NEW T \in SUBSET S, \A x \in S \ T : f[x] = 0
  PROVE  SumFunctionOnSet(f, S) = SumFunctionOnSet(f, T)
<1> DEFINE E == {s \in SUBSET S : SumFunctionOnSet(f, s) = SumFunctionOnSet(f, s \cap T)}
<1>1. {} \in E
  <2>1. {} \cap T = {}
    OBVIOUS
  <2>2. QED
    BY <2>1
<1>2. ASSUME NEW s \in E, NEW x \in S \ s PROVE s \cup {x} \in E
  <2>0. SumFunctionOnSet(f, s) \in Nat
    BY SumOfPart
  <2>1. SumFunctionOnSet(f, s \cup {x}) = f[x] + SumFunctionOnSet(f, s)
    BY SumWith
  <2>2. CASE x \in T
    <3> DEFINE r == s \cap T
    <3>1. r \in SUBSET S /\ x \in S \ r
      OBVIOUS
    <3>2. (s \cup {x}) \cap T = r \cup {x}
      BY <2>2
    <3>3. SumFunctionOnSet(f, s) = SumFunctionOnSet(f, r)
      OBVIOUS
    <3> HIDE DEF r
    <3>4. SumFunctionOnSet(f, r \cup {x}) = f[x] + SumFunctionOnSet(f, r)
      BY <3>1, SumWith
    <3>5. SumFunctionOnSet(f, s \cup {x}) = SumFunctionOnSet(f, (s \cup {x}) \cap T)
      BY <2>1, <3>2, <3>3, <3>4
    <3>6. QED
      BY <3>5
  <2>3. CASE x \notin T
    <3>1. (s \cup {x}) \cap T = s \cap T
      BY <2>3
    <3>2. SumFunctionOnSet(f, (s \cup {x}) \cap T) = SumFunctionOnSet(f, s \cap T)
      BY <3>1
    <3>3. f[x] = 0
      BY <2>3
    <3>4. SumFunctionOnSet(f, s \cup {x}) = SumFunctionOnSet(f, s)
      BY <2>0, <2>1, <3>3
    <3>5. QED
      BY <3>2, <3>4
  <2>4. QED
    BY <2>2, <2>3
<1> HIDE DEF E
<1>3. S \in E
  BY <1>1, <1>2, SubsetInduction DEF E
<1>4. S \cap T = T
  OBVIOUS
<1>5. QED
  BY <1>3, <1>4 DEF E

(* If each term is in proportion, the sum is.                               *)
LEMMA SumInProportion ==
  ASSUME NEW S, IsFiniteSet(S), NEW f, NEW c, NEW t \in Nat, NEW l \in Nat,
         \A x \in S : f[x] \in Nat,
         \A x \in S : c[x] \in Nat,
         \A x \in S : t * f[x] <= l * c[x]
  PROVE  t * SumFunctionOnSet(f, S) <= l * SumFunctionOnSet(c, S)
<1> DEFINE E == {s \in SUBSET S :
                   t * SumFunctionOnSet(f, s) <= l * SumFunctionOnSet(c, s)}
<1>1. {} \in E
  <2>1. SumFunctionOnSet(f, {}) = 0 /\ SumFunctionOnSet(c, {}) = 0
    BY SumOfNothing
  <2>2. t * 0 <= l * 0
    OBVIOUS
  <2>4. QED
    BY <2>1, <2>2
<1>2. ASSUME NEW s \in E, NEW x \in S \ s PROVE s \cup {x} \in E
  <2> DEFINE F == SumFunctionOnSet(f, s)
             C == SumFunctionOnSet(c, s)
  <2>0. s \in SUBSET S /\ t * F <= l * C /\ t * f[x] <= l * c[x]
    OBVIOUS
  <2> HIDE DEF E
  <2>1. F \in Nat /\ C \in Nat
    BY <2>0, SumOfPart
  <2>2. SumFunctionOnSet(f, s \cup {x}) = f[x] + F
    BY <2>0, SumWith
  <2>3. SumFunctionOnSet(c, s \cup {x}) = c[x] + C
    BY <2>0, SumWith
  <2> HIDE DEF F, C
  <2>4. f[x] \in Nat /\ c[x] \in Nat
    OBVIOUS
  <2>5. t * (f[x] + F) = t * f[x] + t * F /\ l * (c[x] + C) = l * c[x] + l * C
    BY <2>1, <2>2, <2>4
  <2>6. t * f[x] \in Nat /\ t * F \in Nat /\ l * c[x] \in Nat /\ l * C \in Nat
    BY <2>1, <2>2, <2>4
  <2>7. t * (f[x] + F) <= l * (c[x] + C)
    BY <2>0, <2>5, <2>6
  <2>8. QED
    BY <2>0, <2>2, <2>7, <2>3 DEF E, F, C
<1> HIDE DEF E
<1>3. S \in E
  BY <1>1, <1>2, SubsetInduction DEF E
<1>4. QED
  BY <1>3 DEF E

(* The sum of ones counts the set.                                          *)
LEMMA SumOfOnes ==
  ASSUME NEW S, IsFiniteSet(S)
  PROVE  SumFunctionOnSet([x \in S |-> 1], S) = Cardinality(S)
<1> DEFINE f == [x \in S |-> 1]
           E == {s \in SUBSET S : SumFunctionOnSet(f, s) = Cardinality(s)}
<1>1. \A x \in S : f[x] = 1 /\ f[x] \in Nat
  OBVIOUS
<1> HIDE DEF f
<1>2. {} \in E
  BY FS_EmptySet, SumFollows
<1>3. ASSUME NEW s \in E, NEW x \in S \ s PROVE s \cup {x} \in E
  <2>1. SumFunctionOnSet(f, s \cup {x}) = 1 + SumFunctionOnSet(f, s)
    BY <1>1, SumWith
  <2>2. IsFiniteSet(s)
    BY FS_Subset
  <2>3. Cardinality(s \cup {x}) = Cardinality(s) + 1 /\ Cardinality(s) \in Nat
    BY <2>2, FS_AddElement, FS_CardinalityType
  <2>4. QED
    BY <2>1, <2>3
<1> HIDE DEF E
<1>4. S \in E
  BY <1>2, <1>3, SubsetInduction DEF E
<1>5. QED
  BY <1>4 DEF E, f

-------------------------------------------------------------------------------
(* Recursion on the numbers up to n, whose step may depend on the number.   *)

StaysIn(X, step, n) == \A k \in 1 .. n : \A x \in X : step[k][x] \in X

Iterates(f, X, base, step, n) ==
  /\ f \in [0 .. n -> X]
  /\ f[0] = base
  /\ \A k \in 1 .. n : f[k] = step[k][f[k - 1]]

LEMMA IterationExists ==
  ASSUME NEW X, NEW n \in Nat, NEW base \in X, NEW step, StaysIn(X, step, n)
  PROVE  \E f : Iterates(f, X, base, step, n)
<1>0. \A k \in 1 .. n : \A x \in X : step[k][x] \in X
  BY DEF StaysIn
<1> DEFINE Good(m, f) == /\ f \in [0 .. m -> X]
                         /\ f[0] = base
                         /\ \A k \in 1 .. m : f[k] = step[k][f[k - 1]]
           D == {m \in Nat : m <= n => \E f : Good(m, f)}
<1>1. 0 \in D
  <2>1. Good(0, [k \in 0 .. 0 |-> base])
    OBVIOUS
  <2> QED
    BY <2>1
<1>2. ASSUME NEW m \in D PROVE m + 1 \in D
  <2>1. SUFFICES ASSUME m + 1 <= n PROVE \E f : Good(m + 1, f)
    <3>1. m + 1 \in Nat
      OBVIOUS
    <3> HIDE DEF Good
    <3> QED
      BY <3>1
  <2>2. m \in Nat /\ m <= n
    BY <2>1
  <2>3. PICK f : Good(m, f)
    BY <2>2
  <2> DEFINE last == step[m + 1][f[m]]
             g == [k \in 0 .. m + 1 |-> IF k <= m THEN f[k] ELSE last]
  <2>4. last \in X
    BY <1>0, <2>1, <2>2, <2>3
  <2>5. g \in [0 .. m + 1 -> X]
    <3> HIDE DEF last
    <3> QED
      BY <2>2, <2>3, <2>4
  <2>6. g[0] = base
    BY <2>2, <2>3
  <2>7. ASSUME NEW k \in 1 .. m + 1 PROVE g[k] = step[k][g[k - 1]]
    <3>1. CASE k <= m
      <4>1. g[k] = f[k] /\ g[k - 1] = f[k - 1] /\ k \in 1 .. m
        BY <2>2, <3>1
      <4> HIDE DEF g
      <4> QED
        BY <2>3, <4>1
    <3>2. CASE k = m + 1
      <4>1. g[k] = last /\ g[k - 1] = f[m]
        BY <2>2, <3>2
      <4> QED
        BY <3>2, <4>1
    <3> QED
      BY <3>1, <3>2, <2>2
  <2>8. Good(m + 1, g)
    BY <2>5, <2>6, <2>7
  <2> QED
    BY <2>8
<1>3. D = Nat
  <2>1. D \in SUBSET Nat
    OBVIOUS
  <2> HIDE DEF D
  <2> QED
    BY <2>1, <1>1, <1>2, NatSetInduction
<1>4. PICK f : Good(n, f)
  <2> HIDE DEF Good
  <2>1. n \in D
    BY <1>3
  <2> QED
    BY <2>1
<1> QED
  BY <1>4 DEF Iterates

(* Two functions that start alike, and go on alike, are one.                *)
GoOnAlike(f, g, n) ==
  f[0] = g[0] /\ \A k \in 1 .. n : f[k - 1] = g[k - 1] => f[k] = g[k]

LEMMA IterationIsOne ==
  ASSUME NEW n \in Nat, NEW f, NEW g, GoOnAlike(f, g, n)
  PROVE  \A k \in 0 .. n : f[k] = g[k]
<1>0. f[0] = g[0] /\ \A k \in 1 .. n : f[k - 1] = g[k - 1] => f[k] = g[k]
  BY DEF GoOnAlike
<1> DEFINE D == {m \in Nat : m <= n => f[m] = g[m]}
<1>1. 0 \in D
  BY <1>0
<1>2. ASSUME NEW m \in D PROVE m + 1 \in D
  <2>1. m + 1 \in Nat /\ (m + 1) - 1 = m /\ (m + 1 <= n => m + 1 \in 1 .. n /\ m <= n)
    OBVIOUS
  <2> QED
    BY <1>0, <2>1
<1>3. D = Nat
  <2>1. D \in SUBSET Nat
    OBVIOUS
  <2> HIDE DEF D
  <2> QED
    BY <2>1, <1>1, <1>2, NatSetInduction
<1> QED
  BY <1>3

-------------------------------------------------------------------------------
(* Places in an order. *)

(* R is a strict and total order of S.                                      *)
Orders(R, S) ==
  /\ \A x \in S : <<x, x>> \notin R
  /\ \A x, y, z \in S : <<x, y>> \in R /\ <<y, z>> \in R => <<x, z>> \in R
  /\ \A x, y \in S : x # y => <<x, y>> \in R \/ <<y, x>> \in R

Before(R, S, x) == {y \in S : <<y, x>> \in R}

(* In a finite set each place is somebody's.                                *)
LEMMA PlacesAreTaken ==
  ASSUME NEW S, IsFiniteSet(S), NEW R, Orders(R, S)
  PROVE  /\ Cardinality(S) \in Nat
         /\ \A i \in 1 .. Cardinality(S) : \E x \in S : Cardinality(Before(R, S, x)) = i - 1
<1> DEFINE n == Cardinality(S)
           place == [x \in S |-> Cardinality(Before(R, S, x))]
<1>1. n \in Nat
  BY FS_CardinalityType
<1>2. ASSUME NEW x \in S
      PROVE  /\ IsFiniteSet(Before(R, S, x))
             /\ Cardinality(Before(R, S, x)) \in 0 .. n - 1
  <2>1. Before(R, S, x) \in SUBSET (S \ {x})
    BY DEF Before, Orders
  <2>2. IsFiniteSet(S \ {x}) /\ Cardinality(S \ {x}) = n - 1
    BY FS_RemoveElement
  <2>3. /\ IsFiniteSet(Before(R, S, x))
        /\ Cardinality(Before(R, S, x)) <= n - 1
    BY <2>1, <2>2, FS_Subset
  <2>4. Cardinality(Before(R, S, x)) \in Nat
    BY <2>3, FS_CardinalityType
  <2> QED
    BY <1>1, <2>3, <2>4
<1>3. ASSUME NEW x \in S, NEW y \in S, <<x, y>> \in R
      PROVE  place[x] # place[y]
  <2>1. Before(R, S, x) \in SUBSET Before(R, S, y)
    BY <1>3 DEF Before, Orders
  <2>2. x \in Before(R, S, y) /\ x \notin Before(R, S, x)
    BY <1>3 DEF Before, Orders
  <2>3. Cardinality(Before(R, S, x)) # Cardinality(Before(R, S, y))
    BY <1>2, <2>1, <2>2, FS_Subset
  <2> QED
    BY <2>3
<1>4. place \in Injection(S, 0 .. n - 1)
  <2>1. place \in [S -> 0 .. n - 1]
    BY <1>2
  <2>2. \A x, y \in S : x # y => place[x] # place[y]
    <3> HIDE DEF place
    <3> QED
      BY <1>3 DEF Orders
  <2> HIDE DEF place
  <2> QED
    BY <2>1, <2>2 DEF Injection, IsInjective
<1>5. IsFiniteSet(0 .. n - 1) /\ Cardinality(0 .. n - 1) = n
  <2>1. 0 \in Int /\ n - 1 \in Int
    BY <1>1
  <2> HIDE DEF n
  <2>2. IsFiniteSet(0 .. n - 1) /\ Cardinality(0 .. n - 1) = IF 0 > n - 1 THEN 0 ELSE (n - 1) - 0 + 1
    BY <2>1, FS_Interval
  <2> QED
    BY <1>1, <2>2
<1>6. place \in Surjection(S, 0 .. n - 1)
  <2> HIDE DEF place
  <2> QED
    BY <1>4, <1>5, FS_Injection
<1>7. ASSUME NEW i \in 1 .. n PROVE \E x \in S : place[x] = i - 1
  <2>1. i - 1 \in 0 .. n - 1
    BY <1>1
  <2> HIDE DEF place
  <2> QED
    BY <1>6, <2>1 DEF Surjection
<1> QED
  BY <1>1, <1>7
(* What two disjoint sets sum up to.                                        *)
LEMMA SumOfUnion ==
  ASSUME NEW S, IsFiniteSet(S), NEW f, \A x \in S : f[x] \in Nat,
         NEW A \in SUBSET S, NEW B \in SUBSET S, A \cap B = {}
  PROVE  SumFunctionOnSet(f, A \cup B) = SumFunctionOnSet(f, A) + SumFunctionOnSet(f, B)
<1> DEFINE E == {s \in SUBSET B : SumFunctionOnSet(f, A \cup s)
                                  = SumFunctionOnSet(f, A) + SumFunctionOnSet(f, s)}
<1>0. IsFiniteSet(B) /\ \A s \in SUBSET S : SumFunctionOnSet(f, s) \in Nat
  BY FS_Subset, SumOfPart
<1>1. {} \in E
  <2>1. A \cup {} = A
    OBVIOUS
  <2> QED
    BY <1>0, <2>1, SumOfNothing
<1>2. ASSUME NEW s \in E, NEW x \in B \ s PROVE s \cup {x} \in E
  <2>1. s \in SUBSET S /\ x \in S \ s /\ (A \cup s) \in SUBSET S /\ x \in S \ (A \cup s)
    OBVIOUS
  <2>2. SumFunctionOnSet(f, s \cup {x}) = f[x] + SumFunctionOnSet(f, s)
    BY <2>1, SumWith
  <2> DEFINE r == A \cup s
  <2>3. r \in SUBSET S /\ x \in S \ r /\ A \cup (s \cup {x}) = r \cup {x}
    BY <2>1
  <2>4. SumFunctionOnSet(f, r) = SumFunctionOnSet(f, A) + SumFunctionOnSet(f, s)
    OBVIOUS
  <2> HIDE DEF r
  <2>5. SumFunctionOnSet(f, r \cup {x}) = f[x] + SumFunctionOnSet(f, r)
    BY <2>3, SumWith
  <2>6. /\ SumFunctionOnSet(f, A) \in Nat /\ SumFunctionOnSet(f, s) \in Nat
        /\ SumFunctionOnSet(f, r) \in Nat /\ f[x] \in Nat
    BY <1>0, <2>1, <2>3
  <2> DEFINE a == SumFunctionOnSet(f, A)
             b == SumFunctionOnSet(f, s)
             c == SumFunctionOnSet(f, r)
             e == f[x]
  <2>7. a \in Nat /\ b \in Nat /\ c \in Nat /\ e \in Nat /\ c = a + b
    BY <2>4, <2>6
  <2>8. SumFunctionOnSet(f, r \cup {x}) = e + c /\ SumFunctionOnSet(f, s \cup {x}) = e + b
    BY <2>2, <2>5
  <2>9. SumFunctionOnSet(f, A \cup (s \cup {x})) = e + c
    BY <2>3, <2>8
  <2> HIDE DEF a, b, c, e
  <2>10. e + c = a + (e + b)
    BY <2>7
  <2>11. SumFunctionOnSet(f, A \cup (s \cup {x})) = a + SumFunctionOnSet(f, s \cup {x})
    BY <2>8, <2>9, <2>10
  <2> QED
    BY <2>1, <2>11 DEF a
<1>3. E \in SUBSET (SUBSET B)
  OBVIOUS
<1>4. IsFiniteSet(B)
  BY <1>0
<1> HIDE DEF E
<1>5. B \in E
  BY <1>1, <1>2, <1>3, <1>4, SubsetInduction
<1> QED
  BY <1>5 DEF E

(* A part sums up to no more than the whole.                                *)
LEMMA PartIsLess ==
  ASSUME NEW S, IsFiniteSet(S), NEW f, \A x \in S : f[x] \in Nat, NEW T \in SUBSET S
  PROVE  SumFunctionOnSet(f, T) <= SumFunctionOnSet(f, S)
<1>1. S \ T \in SUBSET S /\ T \cap (S \ T) = {} /\ T \cup (S \ T) = S
  OBVIOUS
<1>2. SumFunctionOnSet(f, T \cup (S \ T)) = SumFunctionOnSet(f, T) + SumFunctionOnSet(f, S \ T)
  BY <1>1, SumOfUnion
<1>3. SumFunctionOnSet(f, T) \in Nat /\ SumFunctionOnSet(f, S \ T) \in Nat
  BY <1>1, SumOfPart
<1> DEFINE a == SumFunctionOnSet(f, T)
           b == SumFunctionOnSet(f, S \ T)
<1>4. a \in Nat /\ b \in Nat /\ SumFunctionOnSet(f, S) = a + b
  BY <1>1, <1>2, <1>3
<1> HIDE DEF a, b
<1>5. a <= a + b
  BY <1>4
<1> QED
  BY <1>4, <1>5 DEF a

(* Smaller terms have the smaller sum.                                      *)
LEMMA SumIsLess ==
  ASSUME NEW S, IsFiniteSet(S), NEW f, NEW h,
         \A x \in S : f[x] \in Nat, \A x \in S : h[x] \in Nat,
         \A x \in S : f[x] <= h[x]
  PROVE  SumFunctionOnSet(f, S) <= SumFunctionOnSet(h, S)
<1>1. \A x \in S : 1 * f[x] <= 1 * h[x]
  OBVIOUS
<1>2. 1 * SumFunctionOnSet(f, S) <= 1 * SumFunctionOnSet(h, S)
  BY <1>1, SumInProportion
<1>3. SumFunctionOnSet(f, S) \in Nat /\ SumFunctionOnSet(h, S) \in Nat
  BY SumIsNat
<1> QED
  BY <1>2, <1>3

(* Terms of one value.                                                      *)
LEMMA SumOfEqual ==
  ASSUME NEW S, IsFiniteSet(S), NEW k \in Nat, NEW f, \A x \in S : f[x] = k
  PROVE  SumFunctionOnSet(f, S) = k * Cardinality(S)
<1> DEFINE one == [x \in S |-> 1]
<1>1. \A x \in S : one[x] = 1 /\ one[x] \in Nat
  OBVIOUS
<1>2. SumFunctionOnSet(one, S) = Cardinality(S)
  BY SumOfOnes
<1> HIDE DEF one
<1>3. \A x \in S : 1 * f[x] <= k * one[x] /\ k * one[x] <= 1 * f[x] /\ f[x] \in Nat
  BY <1>1
<1>4. 1 * SumFunctionOnSet(f, S) <= k * SumFunctionOnSet(one, S)
  BY <1>1, <1>3, SumInProportion
<1>5. k * SumFunctionOnSet(one, S) <= 1 * SumFunctionOnSet(f, S)
  BY <1>1, <1>3, SumInProportion
<1>6. SumFunctionOnSet(f, S) \in Nat /\ SumFunctionOnSet(one, S) \in Nat
  BY <1>1, <1>3, SumIsNat
<1>7. \A n \in Nat : k * n \in Nat
  OBVIOUS
<1> QED
  BY <1>2, <1>4, <1>5, <1>6, <1>7

(* A set cut into parts, one for each x of L, is summed part by part.       *)
LEMMA SumOfParts ==
  ASSUME NEW L, IsFiniteSet(L), NEW C, IsFiniteSet(C), NEW f, \A c \in C : f[c] \in Nat,
         NEW own, \A x \in L : own[x] \in SUBSET C,
         \A x, y \in L : x # y => own[x] \cap own[y] = {},
         NEW w, \A x \in L : w[x] = SumFunctionOnSet(f, own[x])
  PROVE  SumFunctionOnSet(f, UNION {own[x] : x \in L}) = SumFunctionOnSet(w, L)
<1> DEFINE All(s) == UNION {own[x] : x \in s}
           E == {s \in SUBSET L : SumFunctionOnSet(f, All(s)) = SumFunctionOnSet(w, s)}
<1>1. {} \in E
  <2>1. All({}) = {}
    OBVIOUS
  <2> QED
    BY <2>1, SumOfNothing
<1>2. \A x \in L : w[x] \in Nat
  BY SumOfPart
<1>3. ASSUME NEW s \in E, NEW x \in L \ s PROVE s \cup {x} \in E
  <2>1. s \in SUBSET L /\ SumFunctionOnSet(f, All(s)) = SumFunctionOnSet(w, s)
    OBVIOUS
  <2>2. All(s \cup {x}) = All(s) \cup own[x]
    OBVIOUS
  <2>3. All(s) \in SUBSET C /\ own[x] \in SUBSET C
    BY <2>1
  <2>4. All(s) \cap own[x] = {}
    BY <2>1
  <2> HIDE DEF All
  <2>5. SumFunctionOnSet(f, All(s) \cup own[x])
          = SumFunctionOnSet(f, All(s)) + SumFunctionOnSet(f, own[x])
    BY <2>3, <2>4, SumOfUnion
  <2>6. SumFunctionOnSet(w, s \cup {x}) = w[x] + SumFunctionOnSet(w, s)
    BY <1>2, <2>1, SumWith
  <2>7. /\ SumFunctionOnSet(w, s) \in Nat /\ w[x] \in Nat /\ w[x] = SumFunctionOnSet(f, own[x])
    BY <1>2, <2>1, SumOfPart
  <2>7a. SumFunctionOnSet(w, s) + w[x] = w[x] + SumFunctionOnSet(w, s)
    BY <2>7
  <2>8. SumFunctionOnSet(f, All(s \cup {x})) = SumFunctionOnSet(w, s \cup {x})
    BY <2>1, <2>2, <2>5, <2>6, <2>7, <2>7a
  <2> QED
    BY <2>8
<1> HIDE DEF E
<1>4. L \in E
  BY <1>1, <1>3, SubsetInduction DEF E
<1> QED
  BY <1>4 DEF E

-------------------------------------------------------------------------------
(* Division.                                                               *)

(* What division leaves.                                                    *)
LEMMA DivisionIs ==
  ASSUME NEW n \in Nat, NEW d \in Nat \ {0}
  PROVE  /\ n \div d \in Nat /\ n % d \in Nat
         /\ n % d < d /\ n = d * (n \div d) + (n % d)
  OBVIOUS

(* The larger of two numbers has the larger quotient.                       *)
LEMMA QuotientsInOrder ==
  ASSUME NEW d \in Nat \ {0}, NEW p \in Nat, NEW q \in Nat, NEW r \in Nat, NEW s \in Nat,
         r < d, s < d, d * p + r <= d * q + s
  PROVE  p < q \/ (p = q /\ r <= s)
<1>1. ASSUME q < p PROVE FALSE
  <2>1. PICK k \in Nat : p = q + 1 + k
    <3>1. p - q - 1 \in Nat /\ p = q + 1 + (p - q - 1)
      BY <1>1
    <3> QED
      BY <3>1
  <2>2. d * p = d * q + d + d * k
    BY <2>1
  <2>3. d * k \in Nat /\ d * q \in Nat /\ d * p \in Nat
    BY <2>1
  <2> QED
    BY <2>2, <2>3
<1>2. ASSUME p = q PROVE r <= s
  <2>1. d * p \in Nat
    OBVIOUS
  <2> QED
    BY <1>2, <2>1
<1> QED
  BY <1>1, <1>2

================================================================================
