------------------------- MODULE RecommendationProofs -------------------------
(***************************************************************************)
(* What the recommendation engine promises, for every network, every first *)
(* failures, every scenario of the user and any number of recommendations  *)
(* applied one after the other: a card says what its payload brings, and   *)
(* its claims about supply are true.                                       *)
(***************************************************************************)
EXTENDS Recommendations, DataLemmas, SequenceTheorems

-------------------------------------------------------------------------------
(* Paths.  Within(h, S, k) are the pairs with at most k links between them. *)

Longer(h, S, near) ==
  near \cup {p \in S \X S : \E w \in S : <<p[1], w>> \in near /\ p[2] \in Successors(h, w)}

LEMMA WithinGrows ==
  ASSUME NEW h, NEW S, NEW k \in Nat
  PROVE  /\ Within(h, S, k) \in SUBSET (S \X S)
         /\ Within(h, S, 0) = {<<u, u>> : u \in S}
         /\ Within(h, S, k + 1) = Longer(h, S, Within(h, S, k))
<1> DEFINE base == {<<u, u>> : u \in S}
           Near(f, n) == f = [j \in 0 .. n |-> IF j = 0 THEN base ELSE
                               LET closer == f[j - 1]
                               IN  closer \cup {p \in S \X S : \E w \in S :
                                      <<p[1], w>> \in closer /\ p[2] \in Successors(h, w)}]
           Way(n) == CHOOSE f : Near(f, n)
<1>1. ASSUME NEW n \in Nat
      PROVE  /\ Within(h, S, n) = Way(n)[n]
             /\ Way(n) \in [0 .. n -> SUBSET (S \X S)]
             /\ Way(n)[0] = base
             /\ \A j \in 1 .. n : Way(n)[j] = Longer(h, S, Way(n)[j - 1])
  <2> DEFINE step == [j \in 1 .. n |-> [x \in SUBSET (S \X S) |-> Longer(h, S, x)]]
  <2>1. PICK f \in [0 .. n -> SUBSET (S \X S)] :
          /\ f[0] = base
          /\ \A j \in 1 .. n : f[j] = step[j][f[j - 1]]
    <3>1. base \in SUBSET (S \X S)
      OBVIOUS
    <3>2. \A j \in 1 .. n : \A x \in SUBSET (S \X S) : step[j][x] \in SUBSET (S \X S)
      BY DEF Longer
    <3> DEFINE X == SUBSET (S \X S)
    <3> HIDE DEF base, step, X
    <3>3. base \in X /\ StaysIn(X, step, n)
      BY <3>1, <3>2 DEF X, StaysIn
    <3>4. \E f : Iterates(f, X, base, step, n)
      BY <3>3, IterationExists
    <3> QED
      BY <3>4 DEF X, Iterates
  <2>2. \A j \in 1 .. n : f[j] = Longer(h, S, f[j - 1])
    <3> SUFFICES ASSUME NEW j \in 1 .. n PROVE f[j] = Longer(h, S, f[j - 1])
      OBVIOUS
    <3>1. f[j - 1] \in SUBSET (S \X S)
      BY <2>1
    <3> QED
      BY <2>1, <3>1
  <2> HIDE DEF base, step
  <2>3. Near(f, n)
    <3>1. \A j \in 0 .. n : f[j] = IF j = 0 THEN base ELSE Longer(h, S, f[j - 1])
      BY <2>1, <2>2
    <3>2. f = [j \in 0 .. n |-> IF j = 0 THEN base ELSE Longer(h, S, f[j - 1])]
      BY <2>1, <3>1
    <3> QED
      BY <3>2 DEF Longer
  <2>4. Near(Way(n), n)
    <3> HIDE DEF Near
    <3> QED
      BY <2>3
  <2>5. /\ Way(n)[0] = base
        /\ \A j \in 1 .. n : Way(n)[j] = Longer(h, S, Way(n)[j - 1])
    <3> DEFINE way == Way(n)
    <3> HIDE DEF way
    <3>1. way = [j \in 0 .. n |-> IF j = 0 THEN base ELSE Longer(h, S, way[j - 1])]
      BY <2>4 DEF Longer, way
    <3>2. \A j \in 0 .. n : way[j] = IF j = 0 THEN base ELSE Longer(h, S, way[j - 1])
      BY <3>1
    <3>3. way[0] = base /\ \A j \in 1 .. n : way[j] = Longer(h, S, way[j - 1])
      BY <3>2
    <3> QED
      BY <3>3 DEF way
  <2> HIDE DEF Near
  <2>6. \A j \in 0 .. n : Way(n)[j] = f[j]
    <3> HIDE DEF Way
    <3>1. GoOnAlike(Way(n), f, n)
      BY <2>1, <2>2, <2>5 DEF GoOnAlike
    <3> QED
      BY <3>1, IterationIsOne
  <2>7. DOMAIN Way(n) = 0 .. n
    BY <2>4 DEF Near
  <2>8. Way(n) \in [0 .. n -> SUBSET (S \X S)]
    <3> HIDE DEF Way
    <3>1. Way(n) = [j \in 0 .. n |-> Way(n)[j]]
      BY <2>4 DEF Near
    <3> QED
      BY <2>1, <2>6, <3>1
  <2>9. Within(h, S, n) = Way(n)[n]
    BY DEF Within, Near, base
  <2> QED
    BY <2>5, <2>8, <2>9
<1> HIDE DEF Way
<1>2. Within(h, S, 0) = base
  BY <1>1
<1>3. \A j \in 0 .. k : Way(k)[j] = Way(k + 1)[j]
  <2>1. k + 1 \in Nat /\ \A j \in 1 .. k : j \in 1 .. k + 1
    OBVIOUS
  <2>2. Way(k)[0] = base /\ Way(k + 1)[0] = base
    BY <1>1, <2>1
  <2>3. \A j \in 1 .. k : Way(k)[j - 1] = Way(k + 1)[j - 1] => Way(k)[j] = Way(k + 1)[j]
    BY <1>1, <2>1
  <2> HIDE DEF base
  <2>4. GoOnAlike(Way(k), Way(k + 1), k)
    BY <2>2, <2>3 DEF GoOnAlike
  <2> QED
    BY <2>4, IterationIsOne
<1>4. Within(h, S, k + 1) = Longer(h, S, Within(h, S, k))
  <2>1. k + 1 \in Nat /\ k + 1 \in 1 .. k + 1 /\ (k + 1) - 1 = k /\ k \in 0 .. k
    OBVIOUS
  <2> QED
    BY <1>1, <1>3, <2>1
<1> QED
  BY <1>1, <1>2, <1>4

LEMMA LongerIs ==
  ASSUME NEW h, NEW S, NEW near, NEW u \in S, NEW v \in S
  PROVE  <<u, v>> \in Longer(h, S, near) <=>
           <<u, v>> \in near \/ \E w \in S : <<u, w>> \in near /\ v \in Successors(h, w)
<1>1. <<u, v>>[1] = u /\ <<u, v>>[2] = v /\ <<u, v>> \in S \X S
  OBVIOUS
<1> QED
  BY <1>1, Zenon DEF Longer

LEMMA WithinStep ==
  ASSUME NEW h, NEW S, NEW k \in Nat, NEW u \in S, NEW v \in S
  PROVE  <<u, v>> \in Within(h, S, k + 1) <=>
           \/ <<u, v>> \in Within(h, S, k)
           \/ \E w \in S : <<u, w>> \in Within(h, S, k) /\ v \in Successors(h, w)
<1>1. Within(h, S, k + 1) = Longer(h, S, Within(h, S, k))
  BY WithinGrows
<1>2. <<u, v>> \in Longer(h, S, Within(h, S, k)) <=>
        \/ <<u, v>> \in Within(h, S, k)
        \/ \E w \in S : <<u, w>> \in Within(h, S, k) /\ v \in Successors(h, w)
  BY LongerIs, Zenon
<1> QED
  BY <1>1, <1>2, Zenon

\* A set of n assets is walked through in n steps: as long as there is anything
\* new, each step reaches one asset more.
LEMMA WithinIsClosed ==
  ASSUME NEW h, NEW S, IsFiniteSet(S), NEW n \in Nat, Cardinality(S) <= n
  PROVE  Within(h, S, n + 1) = Within(h, S, n)
<1> DEFINE Reached(u, k) == {v \in S : <<u, v>> \in Within(h, S, k)}
<1>1. ASSUME NEW u \in S, NEW k \in Nat
      PROVE  Reached(u, k + 1) = Reached(u, k) \cup
               {v \in S : \E w \in Reached(u, k) : v \in Successors(h, w)}
  <2>1. \A v \in S : v \in Reached(u, k + 1) <=>
          v \in Reached(u, k) \/ \E w \in Reached(u, k) : v \in Successors(h, w)
    BY WithinStep
  <2> HIDE DEF Reached
  <2>2. \A j \in Nat : Reached(u, j) \in SUBSET S
    BY DEF Reached
  <2> QED
    BY <2>1, <2>2
<1>2. ASSUME NEW u \in S, NEW k \in Nat
      PROVE  IsFiniteSet(Reached(u, k)) /\ Cardinality(Reached(u, k)) \in Nat
  <2>1. Reached(u, k) \in SUBSET S
    OBVIOUS
  <2> HIDE DEF Reached
  <2> QED
    BY <2>1, FS_Subset, FS_CardinalityType
<1>3. ASSUME NEW u \in S
      PROVE  Reached(u, n + 1) = Reached(u, n)
  <2> DEFINE D == {k \in Nat : \/ Reached(u, k + 1) = Reached(u, k)
                               \/ Cardinality(Reached(u, k)) >= k + 1}
  <2>1. 0 \in D
    <3>1. Reached(u, 0) = {u}
      BY WithinGrows
    <3> HIDE DEF Reached
    <3> QED
      BY <3>1, FS_Singleton
  <2>2. ASSUME NEW k \in D PROVE k + 1 \in D
    <3>0. k \in Nat /\ k + 1 \in Nat
      OBVIOUS
    <3>1. CASE Reached(u, k + 1) = Reached(u, k)
      <4> HIDE DEF Reached
      <4> DEFINE j == k + 1
             Onward(R) == R \cup {v \in S : \E w \in R : v \in Successors(h, w)}
      <4>0. /\ Reached(u, k + 1) = Onward(Reached(u, k))
            /\ Reached(u, j + 1) = Onward(Reached(u, j))
        BY <1>1, <3>0
      <4> HIDE DEF Onward
      <4>1. Reached(u, (k + 1) + 1) = Reached(u, k + 1)
        BY <3>1, <4>0
      <4> QED
        BY <3>0, <4>1
    <3>2. CASE Reached(u, k + 1) # Reached(u, k)
      <4>1. Reached(u, k) \in SUBSET Reached(u, k + 1)
        BY <1>1, <3>0
      <4> HIDE DEF Reached
      <4>2. Cardinality(Reached(u, k)) >= k + 1
        BY <3>2
      <4>3. /\ Cardinality(Reached(u, k)) <= Cardinality(Reached(u, k + 1))
            /\ Cardinality(Reached(u, k)) # Cardinality(Reached(u, k + 1))
        BY <1>2, <3>0, <3>2, <4>1, FS_Subset
      <4>4. /\ Cardinality(Reached(u, k)) \in Nat
            /\ Cardinality(Reached(u, k + 1)) \in Nat
        BY <1>2, <3>0
      <4>5. Cardinality(Reached(u, k + 1)) >= (k + 1) + 1
        BY <3>0, <4>2, <4>3, <4>4
      <4> QED
        BY <3>0, <4>5
    <3> QED
      BY <3>1, <3>2
  <2>3. D = Nat
    <3>1. D \in SUBSET Nat
      OBVIOUS
    <3> HIDE DEF D
    <3> QED
      BY <3>1, <2>1, <2>2, NatSetInduction
  <2>4. Cardinality(Reached(u, n)) <= n /\ Cardinality(Reached(u, n)) \in Nat
    <3>1. Reached(u, n) \in SUBSET S
      OBVIOUS
    <3> HIDE DEF Reached
    <3>2. Cardinality(Reached(u, n)) <= Cardinality(S)
      BY <3>1, FS_Subset
    <3>3. Cardinality(S) \in Nat /\ Cardinality(Reached(u, n)) \in Nat
      BY <1>2, FS_CardinalityType
    <3> QED
      BY <3>2, <3>3
  <2>5. n \in D
    BY <2>3
  <2> HIDE DEF Reached
  <2> QED
    BY <2>4, <2>5
<1>4. Within(h, S, n) \in SUBSET (S \X S) /\ Within(h, S, n + 1) \in SUBSET (S \X S)
  BY WithinGrows
<1>5. \A u, v \in S : <<u, v>> \in Within(h, S, n + 1) <=> <<u, v>> \in Within(h, S, n)
  BY <1>3
<1> QED
  BY <1>4, <1>5

\* Who reaches K, reaches it by the last link of a path, backwards.
LEMMA NothingLeadsIn ==
  ASSUME NEW h, NEW S, NEW K \in SUBSET S,
         \A v \in K, w \in S : v \in Successors(h, w) => w \in K
  PROVE  \A k \in Nat : \A u \in S, v \in K : <<u, v>> \in Within(h, S, k) => u \in K
<1> DEFINE D == {k \in Nat : \A u \in S, v \in K : <<u, v>> \in Within(h, S, k) => u \in K}
<1>1. 0 \in D
  BY WithinGrows
<1>2. ASSUME NEW k \in D PROVE k + 1 \in D
  <2>1. k \in Nat /\ k + 1 \in Nat
    OBVIOUS
  <2>2. ASSUME NEW u \in S, NEW v \in K, <<u, v>> \in Within(h, S, k + 1)
        PROVE  u \in K
    <3>1. \/ <<u, v>> \in Within(h, S, k)
          \/ \E w \in S : <<u, w>> \in Within(h, S, k) /\ v \in Successors(h, w)
      BY <2>1, <2>2, WithinStep
    <3> QED
      BY <3>1
  <2> QED
    BY <2>1, <2>2
<1>3. D = Nat
  <2>1. D \in SUBSET Nat
    OBVIOUS
  <2> HIDE DEF D
  <2> QED
    BY <2>1, <1>1, <1>2, NatSetInduction
<1> QED
  BY <1>3

\* Connected is the reflexive and transitive closure of the links in S.
LEMMA ConnectedIsClosure ==
  ASSUME NEW h, NEW S \in SUBSET Node
  PROVE  LET path == Connected(h, S)
         IN  /\ path \in SUBSET (S \X S)
             /\ \A u \in S : <<u, u>> \in path
             /\ \A u, w, v \in S : <<u, w>> \in path /\ v \in Successors(h, w) => <<u, v>> \in path
             /\ \A u, w, v \in S : <<u, w>> \in path /\ <<w, v>> \in path => <<u, v>> \in path
<1> DEFINE n == Cardinality(Node)
           path == Connected(h, S)
<1>1. n \in Nat /\ IsFiniteSet(S) /\ Cardinality(S) <= n
  BY NodeAssumption, FS_CardinalityType, FS_Subset
<1>2. path = Within(h, S, n) /\ path \in SUBSET (S \X S) /\ Longer(h, S, path) = path
  <2>1. Within(h, S, n + 1) = Within(h, S, n)
    <3> HIDE DEF n
    <3> QED
      BY <1>1, WithinIsClosed
  <2>2. path = Within(h, S, n)
    BY DEF Connected
  <2> HIDE DEF n
  <2> QED
    BY <1>1, <2>1, <2>2, WithinGrows
<1> HIDE DEF path
<1>3. ASSUME NEW u \in S, NEW w \in S, NEW v \in S, <<u, w>> \in path, v \in Successors(h, w)
      PROVE  <<u, v>> \in path
  <2>1. <<u, v>> \in Longer(h, S, path)
    BY <1>3 DEF Longer
  <2> QED
    BY <1>2, <2>1
<1>4. \A k \in Nat : \A u \in S : <<u, u>> \in Within(h, S, k)
  <2> DEFINE D == {k \in Nat : \A u \in S : <<u, u>> \in Within(h, S, k)}
  <2>1. 0 \in D
    BY WithinGrows
  <2>2. ASSUME NEW k \in D PROVE k + 1 \in D
    BY WithinGrows DEF Longer
  <2>3. D = Nat
    <3>1. D \in SUBSET Nat
      OBVIOUS
    <3> HIDE DEF D
    <3> QED
      BY <3>1, <2>1, <2>2, NatSetInduction
  <2> QED
    BY <2>3
<1>5. ASSUME NEW u \in S, NEW w \in S, <<u, w>> \in path
      PROVE  \A k \in Nat : \A v \in S : <<w, v>> \in Within(h, S, k) => <<u, v>> \in path
  <2> DEFINE D == {k \in Nat : \A v \in S : <<w, v>> \in Within(h, S, k) => <<u, v>> \in path}
  <2>1. 0 \in D
    BY <1>5, WithinGrows
  <2>2. ASSUME NEW k \in D PROVE k + 1 \in D
    <3>1. k \in Nat /\ k + 1 \in Nat
      OBVIOUS
    <3>2. ASSUME NEW v \in S, <<w, v>> \in Within(h, S, k + 1)
          PROVE  <<u, v>> \in path
      <4>1. \/ <<w, v>> \in Within(h, S, k)
            \/ \E x \in S : <<w, x>> \in Within(h, S, k) /\ v \in Successors(h, x)
        BY <3>1, <3>2, WithinStep
      <4> QED
        BY <1>3, <4>1
    <3> QED
      BY <3>1, <3>2
  <2>3. D = Nat
    <3>1. D \in SUBSET Nat
      OBVIOUS
    <3> HIDE DEF D
    <3> QED
      BY <3>1, <2>1, <2>2, NatSetInduction
  <2> QED
    BY <2>3
<1>6. /\ \A u \in S : <<u, u>> \in path
      /\ \A u, w, v \in S : <<u, w>> \in path /\ <<w, v>> \in path => <<u, v>> \in path
  <2> HIDE DEF n
  <2> QED
    BY <1>1, <1>2, <1>4, <1>5
<1> QED
  BY <1>2, <1>3, <1>6 DEF path

-------------------------------------------------------------------------------
(* Supply. *)

Path(h, failed) == Connected(h, Node \ failed)

Harmed(h, failed) == {u \in Node \ failed : Predecessors(h, u) \cap failed # {}}

Unharmed(h, failed) ==
  {r \in Node \ failed : \A u \in Harmed(h, failed) : <<u, r>> \notin Path(h, failed)}

\* What surviving_source_reach calls the fed in degree of a component.
Feeders(h, C) == (UNION {Predecessors(h, v) : v \in C}) \ C

Roots(h, failed) == UNION {C \in Components(h, Node \ failed) : Feeders(h, C) = {}}

LEMMA PathIsClosure ==
  ASSUME NEW h, NEW failed
  PROVE  /\ Path(h, failed) \in SUBSET ((Node \ failed) \X (Node \ failed))
         /\ \A u \in Node \ failed : <<u, u>> \in Path(h, failed)
         /\ \A u, w, v \in Node \ failed :
              <<u, w>> \in Path(h, failed) /\ v \in Successors(h, w) => <<u, v>> \in Path(h, failed)
         /\ \A u, w, v \in Node \ failed :
              <<u, w>> \in Path(h, failed) /\ <<w, v>> \in Path(h, failed) => <<u, v>> \in Path(h, failed)
<1>1. Node \ failed \in SUBSET Node
  OBVIOUS
<1> QED
  BY <1>1, ConnectedIsClosure DEF Path

LEMMA PredecessorsAre ==
  ASSUME NEW h, NEW u, NEW v \in Node
  PROVE  u \in Predecessors(h, v) <=> u \in Node /\ v \in Successors(h, u)
  BY DEF Predecessors, Successors

LEMMA FeedersAre ==
  ASSUME NEW h, NEW C
  PROVE  \A p : p \in Feeders(h, C) <=> p \notin C /\ \E v \in C : p \in Predecessors(h, v)
<1> DEFINE M == {Predecessors(h, v) : v \in C}
<1>1. \A p : p \in UNION M <=> \E m \in M : p \in m
  OBVIOUS
<1>2. \A p : p \in UNION M <=> \E v \in C : p \in Predecessors(h, v)
  BY <1>1
<1>3. Feeders(h, C) = (UNION M) \ C
  BY DEF Feeders
<1> HIDE DEF M
<1> QED
  BY <1>2, <1>3

\* A root has lost nothing, and nobody that has leads to it.
LEMMA RootsAreUnharmed ==
  ASSUME NEW h, NEW failed
  PROVE  Roots(h, failed) \subseteq Unharmed(h, failed)
<1> DEFINE alive == Node \ failed
           path == Path(h, failed)
<1>1. SUFFICES ASSUME NEW C \in Components(h, alive), Feeders(h, C) = {}, NEW r \in C
               PROVE  r \in Unharmed(h, failed)
  BY DEF Roots
<1>2. PICK a \in alive : C = {v \in alive : <<a, v>> \in path /\ <<v, a>> \in path}
  BY DEF Components, Path
<1>3. C \in SUBSET alive /\ alive \in SUBSET Node
  BY <1>2
<1> HIDE DEF alive
<1>4. \A v \in C, w \in alive : v \in Successors(h, w) => w \in C
  <2>1. \A v \in C : \A w : w \in Predecessors(h, v) => w \in C
    BY <1>1, FeedersAre
  <2> QED
    BY <1>3, <2>1, PredecessorsAre
<1>5. \A u \in alive, v \in C : <<u, v>> \in path => u \in C
  <2>1. path = Within(h, alive, Cardinality(Node)) /\ Cardinality(Node) \in Nat
    BY NodeAssumption, FS_CardinalityType DEF Path, Connected, alive
  <2> HIDE DEF path
  <2> QED
    BY <1>3, <1>4, <2>1, NothingLeadsIn
<1>6. ASSUME NEW u \in Harmed(h, failed), <<u, r>> \in path PROVE FALSE
  <2>1. u \in alive /\ Predecessors(h, u) \cap failed # {}
    BY <1>6 DEF Harmed, alive
  <2>2. u \in C
    BY <1>5, <1>6, <2>1
  <2>3. PICK p \in Predecessors(h, u) : p \in failed
    BY <2>1
  <2>4. p \notin C
    BY <1>3, <2>3 DEF alive
  <2> QED
    BY <1>1, <2>2, <2>3, <2>4, FeedersAre
<1> QED
  BY <1>3, <1>6 DEF Unharmed, alive

\* Where something is unharmed there is a root: go upstream to an asset with
\* the fewest above it.
LEMMA UnharmedHasRoot ==
  ASSUME NEW h, NEW failed, Unharmed(h, failed) # {}
  PROVE  Roots(h, failed) # {}
<1> DEFINE alive == Node \ failed
           path == Path(h, failed)
           Above(a) == {x \in alive : <<x, a>> \in path}
<1>1. PICK r \in alive : \A u \in Harmed(h, failed) : <<u, r>> \notin path
  BY DEF Unharmed
<1>2. /\ \A u \in alive : <<u, u>> \in path
      /\ \A u, w, v \in alive : <<u, w>> \in path /\ v \in Successors(h, w) => <<u, v>> \in path
      /\ \A u, w, v \in alive : <<u, w>> \in path /\ <<w, v>> \in path => <<u, v>> \in path
  BY PathIsClosure
<1>0. alive \in SUBSET Node
  OBVIOUS
<1> HIDE DEF path
<1>3. \A a \in alive : IsFiniteSet(Above(a)) /\ Cardinality(Above(a)) \in Nat
  <2> SUFFICES ASSUME NEW a \in alive PROVE IsFiniteSet(Above(a)) /\ Cardinality(Above(a)) \in Nat
    OBVIOUS
  <2>1. Above(a) \in SUBSET Node
    OBVIOUS
  <2> HIDE DEF Above
  <2> QED
    BY <2>1, NodeAssumption, FS_Subset, FS_CardinalityType
<1>4. PICK a \in Above(r) : \A b \in Above(r) : Cardinality(Above(a)) <= Cardinality(Above(b))
  <2> DEFINE many == [x \in Above(r) |-> Cardinality(Above(x))]
  <2>1. Above(r) # {} /\ \A x \in Above(r) : many[x] \in Nat
    BY <1>2, <1>3
  <2> HIDE DEF many
  <2>2. \E x \in Above(r) : \A y \in Above(r) : many[x] <= many[y]
    BY <2>1, SmallestExists
  <2> HIDE DEF Above
  <2> QED
    BY <2>2 DEF many
<1> DEFINE C == {v \in alive : <<a, v>> \in path /\ <<v, a>> \in path}
<1>5. C \in Components(h, alive) /\ a \in C
  BY <1>2 DEF Components, Path, path
<1>6. ASSUME NEW x \in C, NEW p \in Predecessors(h, x), p \notin C PROVE FALSE
  <2>1. p \in Node /\ x \in Successors(h, p) /\ x \in alive
    BY <1>0, PredecessorsAre
  <2>2. <<x, r>> \in path
    BY <1>2, <1>4
  <2>3. x \notin Harmed(h, failed)
    BY <1>1, <2>2
  <2>4. p \in alive
    BY <2>1, <2>3 DEF Harmed
  <2>5. <<p, a>> \in path
    BY <1>2, <2>1, <2>4
  <2>6. p \in Above(r)
    BY <1>2, <1>4, <2>4, <2>5
  <2>7. Above(p) \in SUBSET Above(a)
    BY <1>2, <2>4, <2>5
  <2>8. Above(p) = Above(a)
    <3>1. a \in alive
      OBVIOUS
    <3> HIDE DEF Above, alive
    <3>2. Cardinality(Above(p)) <= Cardinality(Above(a)) /\ Cardinality(Above(a)) <= Cardinality(Above(p))
      BY <1>3, <1>4, <2>6, <2>7, <3>1, FS_Subset
    <3>3. Cardinality(Above(p)) = Cardinality(Above(a))
      BY <1>3, <2>4, <3>1, <3>2
    <3> QED
      BY <1>3, <2>7, <3>1, <3>3, FS_Subset
  <2>9. <<a, p>> \in path
    BY <1>2, <2>8
  <2> QED
    BY <1>6, <2>4, <2>5, <2>9
<1>7. Feeders(h, C) = {}
  <2> HIDE DEF C
  <2> QED
    <3>1. \A p : p \notin Feeders(h, C)
      BY <1>6, FeedersAre
    <3> QED
      BY <3>1
<1> QED
  <2> HIDE DEF C
  <2> QED
    BY <1>5, <1>7 DEF Roots

\* Whoever surviving_source_reach returns is supplied.
LEMMA ReachIsSupplied ==
  ASSUME NEW h, NEW failed, NEW v \in surviving_source_reach(h, failed)
  PROVE  v \in Node \ failed /\ Supplied(h, failed, v)
<1>1. surviving_source_reach(h, failed) =
        IF Roots(h, failed) = {} THEN Node \ failed
        ELSE {x \in Node \ failed : \E r \in Roots(h, failed) : <<r, x>> \in Path(h, failed)}
  BY DEF surviving_source_reach, Roots, Feeders, Path
<1>2. Supplied(h, failed, v) <=>
        /\ v \in Node \ failed
        /\ Unharmed(h, failed) # {} => \E r \in Unharmed(h, failed) : <<r, v>> \in Path(h, failed)
  BY DEF Supplied, Unharmed, Harmed, Path
<1> QED
  BY <1>1, <1>2, RootsAreUnharmed, UnharmedHasRoot

-------------------------------------------------------------------------------
(* Graphs.  What the rows r and the modifications of scenarios build. *)

GoodLink == [edge_types : SUBSET EdgeType, edge_type : PostedEdgeType, capacity : Nat \ {0},
             weight : Nat]

Links == UNION {[D -> GoodLink] : D \in SUBSET (Node \X Node)}

Graphs(r) ==
  [link : Links, node_type : {r.node_type}, load : {r.load}, capacity : [Node -> Nat],
   failure_threshold : [Node -> Nat], population_served : {r.population_served},
   called_hospital : {r.called_hospital}, has_area : {r.has_area}, area : {r.area}]

LEMMA LinksAre ==
  ASSUME NEW f
  PROVE  f \in Links <=> /\ DOMAIN f \in SUBSET (Node \X Node)
                         /\ f \in [DOMAIN f -> GoodLink]
  BY DEF Links

LEMMA WithIsLinks ==
  ASSUME NEW f \in Links, NEW u \in Node, NEW v \in Node, NEW l \in GoodLink
  PROVE  With(f, <<u, v>>, l) \in Links
<1> DEFINE g == With(f, <<u, v>>, l)
<1>1. DOMAIN f \in SUBSET (Node \X Node) /\ f \in [DOMAIN f -> GoodLink]
  BY LinksAre
<1>2. DOMAIN g = DOMAIN f \cup {<<u, v>>}
  BY DEF With
<1>3. DOMAIN g \in SUBSET (Node \X Node)
  BY <1>1, <1>2
<1>4. g \in [DOMAIN g -> GoodLink]
  BY <1>1, <1>2 DEF With
<1>5. g \in Links
  <2> HIDE DEF g
  <2> QED
    BY <1>3, <1>4, LinksAre
<1> QED
  BY <1>5

EdgeRow ==
  [source : Node, target : Node, edge_type : PostedEdgeType,
   capacity : Nat \ {0}, weight : Nat, is_bidirectional : BOOLEAN]

LEMMA AddTypedEdgeIsLinks ==
  ASSUME NEW f \in Links, NEW u \in Node, NEW v \in Node, NEW row \in EdgeRow
  PROVE  AddTypedEdge(f, u, v, row) \in Links
<1> DEFINE new == [edge_types |-> {row.edge_type}, edge_type |-> row.edge_type,
                   capacity |-> row.capacity, weight |-> row.weight]
           old == f[<<u, v>>]
           merged == [edge_types |-> old.edge_types \cup {row.edge_type},
                      edge_type |-> old.edge_type, capacity |-> old.capacity + row.capacity,
                      weight |-> old.weight]
<1>0. /\ row.edge_type \in PostedEdgeType /\ row.capacity \in Nat \ {0} /\ row.weight \in Nat
      /\ PostedEdgeType \subseteq EdgeType
  BY DEF EdgeRow, PostedEdgeType, EdgeType
<1>1. new \in GoodLink
  BY <1>0 DEF GoodLink
<1>2. ASSUME <<u, v>> \in DOMAIN f PROVE merged \in GoodLink
  <2>1. old \in GoodLink
    BY <1>2, LinksAre
  <2> HIDE DEF old
  <2>2. /\ old = [edge_types |-> old.edge_types, edge_type |-> old.edge_type,
                  capacity |-> old.capacity, weight |-> old.weight]
        /\ old.edge_types \in SUBSET EdgeType /\ old.edge_type \in PostedEdgeType
        /\ old.capacity \in Nat \ {0} /\ old.weight \in Nat
    BY <2>1 DEF GoodLink
  <2>3. /\ old.edge_types \cup {row.edge_type} \in SUBSET EdgeType
        /\ old.capacity + row.capacity \in Nat \ {0}
    BY <1>0, <2>2
  <2> QED
    BY <2>2, <2>3 DEF GoodLink
<1>3. (IF <<u, v>> \in DOMAIN f THEN merged ELSE new) \in GoodLink
  <2> HIDE DEF merged, new
  <2> QED
    BY <1>1, <1>2
<1>4. AddTypedEdge(f, u, v, row) = With(f, <<u, v>>, IF <<u, v>> \in DOMAIN f THEN merged ELSE new)
  BY DEF AddTypedEdge
<1> HIDE DEF merged, new
<1> QED
  BY <1>3, <1>4, WithIsLinks

LEMMA AddRowIsLinks ==
  ASSUME NEW f \in Links, NEW row \in EdgeRow
  PROVE  AddRow(f, row) \in Links
<1>1. row.source \in Node /\ row.target \in Node
  BY DEF EdgeRow
<1>2. AddTypedEdge(f, row.source, row.target, row) \in Links
  BY <1>1, AddTypedEdgeIsLinks
<1>3. AddTypedEdge(AddTypedEdge(f, row.source, row.target, row), row.target, row.source, row) \in Links
  BY <1>1, <1>2, AddTypedEdgeIsLinks
<1> QED
  BY <1>2, <1>3 DEF AddRow

LEMMA BuildIsGraph ==
  ASSUME NEW r, IsRows(r)
  PROVE  /\ build_graph(r) \in Graphs(r)
         /\ build_graph(r).capacity = r.capacity
<1> DEFINE n == Len(r.edges)
           Sweep(f) == f = [k \in 0 .. n |-> IF k = 0 THEN NoLinks ELSE AddRow(f[k - 1], r.edges[k])]
           all == CHOOSE f : Sweep(f)
           step == [k \in 1 .. n |-> [x \in Links |-> AddRow(x, r.edges[k])]]
<1>1. /\ n \in Nat
      /\ \A k \in 1 .. n : r.edges[k] \in EdgeRow
  <2>1. r.edges \in Seq(EdgeRow)
    BY DEF IsRows, EdgeRow
  <2> QED
    BY <2>1, LenProperties
<1>2. NoLinks \in Links
  <2>1. DOMAIN NoLinks = {}
    BY DEF NoLinks
  <2>2. NoLinks \in [DOMAIN NoLinks -> GoodLink]
    BY <2>1 DEF NoLinks
  <2> QED
    BY <2>1, <2>2, LinksAre
<1>3. StaysIn(Links, step, n)
  BY <1>1, AddRowIsLinks DEF StaysIn
<1>4. PICK f : Iterates(f, Links, NoLinks, step, n)
  <2> HIDE DEF n, step
  <2> QED
    BY <1>1, <1>2, <1>3, IterationExists
<1>5. /\ f \in [0 .. n -> Links] /\ f[0] = NoLinks
      /\ \A k \in 1 .. n : f[k] = AddRow(f[k - 1], r.edges[k])
  <2>1. f \in [0 .. n -> Links] /\ f[0] = NoLinks /\ \A k \in 1 .. n : f[k] = step[k][f[k - 1]]
    BY <1>4 DEF Iterates
  <2>2. \A k \in 1 .. n : f[k - 1] \in Links
    BY <1>1, <2>1
  <2> QED
    BY <2>1, <2>2
<1> HIDE DEF step
<1>6. Sweep(f)
  <2> HIDE DEF n
  <2>1. \A k \in 0 .. n : f[k] = IF k = 0 THEN NoLinks ELSE AddRow(f[k - 1], r.edges[k])
    BY <1>1, <1>5
  <2> QED
    BY <1>5, <2>1
<1>7. Sweep(all)
  <2> HIDE DEF Sweep
  <2> QED
    BY <1>6
<1>8. all[0] = NoLinks /\ \A k \in 1 .. n : all[k] = AddRow(all[k - 1], r.edges[k])
  <2> HIDE DEF all, n
  <2>1. \A k \in 0 .. n : all[k] = IF k = 0 THEN NoLinks ELSE AddRow(all[k - 1], r.edges[k])
    BY <1>7
  <2> QED
    BY <1>1, <2>1
<1>9. all[n] \in Links
  <2> HIDE DEF all, n
  <2>1. GoOnAlike(all, f, n)
    BY <1>5, <1>8 DEF GoOnAlike
  <2>2. \A k \in 0 .. n : all[k] = f[k]
    BY <1>1, <2>1, IterationIsOne
  <2> QED
    BY <1>1, <1>5, <2>2
<1>10. build_graph(r) = [link |-> all[n], node_type |-> r.node_type, load |-> r.load,
          capacity |-> r.capacity, failure_threshold |-> r.failure_threshold,
          population_served |-> r.population_served, called_hospital |-> r.called_hospital,
          has_area |-> r.has_area, area |-> r.area]
  BY DEF build_graph
<1> HIDE DEF all, n
<1>11. r.capacity \in [Node -> Nat] /\ r.failure_threshold \in [Node -> Nat]
  BY DEF IsRows
<1> QED
  BY <1>9, <1>10, <1>11 DEF Graphs

LEMMA AddEdgeIsLinks ==
  ASSUME NEW f \in Links, NEW u \in Node, NEW v \in Node, NEW mod,
         mod.edge_type \in PostedEdgeType, mod.capacity \in Nat \ {0}, mod.weight \in Nat
  PROVE  AddEdge(f, u, v, mod) \in Links
<1> DEFINE old == IF <<u, v>> \in DOMAIN f THEN f[<<u, v>>].edge_types ELSE {}
           new == [edge_types |-> old, edge_type |-> mod.edge_type, capacity |-> mod.capacity,
                   weight |-> mod.weight]
<1>1. old \in SUBSET EdgeType
  <2>1. CASE <<u, v>> \in DOMAIN f
    <3>1. f[<<u, v>>] \in GoodLink
      BY <2>1, LinksAre
    <3> QED
      BY <2>1, <3>1 DEF GoodLink
  <2> QED
    BY <2>1
<1>2. AddEdge(f, u, v, mod) = With(f, <<u, v>>, new)
  BY DEF AddEdge
<1>3. new \in GoodLink
  <2> HIDE DEF old
  <2> QED
    BY <1>1 DEF GoodLink
<1> HIDE DEF new
<1> QED
  BY <1>2, <1>3, WithIsLinks

LEMMA GraphIsRecord ==
  ASSUME NEW r, NEW g \in Graphs(r)
  PROVE  /\ g = [link |-> g.link, node_type |-> g.node_type, load |-> g.load,
                 capacity |-> g.capacity, failure_threshold |-> g.failure_threshold,
                 population_served |-> g.population_served,
                 called_hospital |-> g.called_hospital, has_area |-> g.has_area,
                 area |-> g.area]
         /\ g.link \in Links /\ g.node_type = r.node_type /\ g.load = r.load
         /\ g.capacity \in [Node -> Nat] /\ g.failure_threshold \in [Node -> Nat]
         /\ g.population_served = r.population_served
         /\ g.called_hospital = r.called_hospital
         /\ g.has_area = r.has_area /\ g.area = r.area
  BY DEF Graphs

LEMMA AddLinkIsGraph ==
  ASSUME NEW r, NEW g \in Graphs(r), NEW mod, mod.source \in Node, mod.target \in Node,
         mod.edge_type \in PostedEdgeType, mod.capacity \in Nat \ {0}, mod.weight \in Nat
  PROVE  AddLink(g, mod) \in Graphs(r)
<1> DEFINE there == AddEdge(g.link, mod.source, mod.target, mod)
           links == IF mod.is_bidirectional THEN AddEdge(there, mod.target, mod.source, mod)
                    ELSE there
<1>1. g.link \in Links
  BY GraphIsRecord
<1>2. there \in Links
  BY <1>1, AddEdgeIsLinks
<1>3. links \in Links
  <2> HIDE DEF there
  <2> QED
    BY <1>2, AddEdgeIsLinks
<1>4. AddLink(g, mod) = [g EXCEPT !.link = links]
  BY DEF AddLink
<1> HIDE DEF links
<1> QED
  BY <1>3, <1>4 DEF Graphs

LEMMA UpgradeIsGraph ==
  ASSUME NEW r, NEW g \in Graphs(r), NEW mod, mod.node_id \in Node,
         \A field \in DOMAIN mod.fields : mod.fields[field] \in Nat
  PROVE  UpgradeNode(g, mod) \in Graphs(r)
<1> DEFINE v == mod.node_id
           given == mod.fields
           capacity == CASE "capacity" \in DOMAIN given -> given.capacity
                         [] "capacity_multiplier" \in DOMAIN given /\ "capacity" \notin DOMAIN given ->
                              g.capacity[v] * given.capacity_multiplier
                         [] OTHER -> g.capacity[v] + (IF "capacity_add" \in DOMAIN given
                                                      THEN given.capacity_add ELSE 0)
           threshold == CASE "failure_threshold" \in DOMAIN given -> given.failure_threshold
                          [] OTHER -> g.failure_threshold[v]
                                      + (IF "failure_threshold_add" \in DOMAIN given
                                         THEN given.failure_threshold_add ELSE 0)
<1>1. g.capacity[v] \in Nat /\ g.failure_threshold[v] \in Nat
  BY GraphIsRecord
<1>2. capacity \in Nat
  <2>1. \A a, b \in Nat : a * b \in Nat /\ a + b \in Nat
    OBVIOUS
  <2> QED
    BY <1>1, <2>1
<1>3. threshold \in Nat
  <2>1. \A a, b \in Nat : a + b \in Nat
    OBVIOUS
  <2> QED
    BY <1>1, <2>1
<1>4. UpgradeNode(g, mod) = [g EXCEPT !.capacity[v] = capacity, !.failure_threshold[v] = threshold]
  BY DEF UpgradeNode
<1> HIDE DEF capacity, threshold, v
<1> DEFINE h == [g EXCEPT !.capacity = [g.capacity EXCEPT ![v] = capacity]]
<1>5. h \in Graphs(r)
  <2>1. [g.capacity EXCEPT ![v] = capacity] \in [Node -> Nat]
    BY <1>2, GraphIsRecord
  <2> QED
    BY <2>1 DEF Graphs
<1>6. h.failure_threshold = g.failure_threshold
  BY DEF Graphs
<1>7. UpgradeNode(g, mod) =
        [h EXCEPT !.failure_threshold = [h.failure_threshold EXCEPT ![v] = threshold]]
  BY <1>4, <1>6
<1> HIDE DEF h
<1>8. [h.failure_threshold EXCEPT ![v] = threshold] \in [Node -> Nat]
  BY <1>3, <1>5, GraphIsRecord
<1> QED
  BY <1>5, <1>7, <1>8 DEF Graphs

LEMMA ModifiedIsGraph ==
  ASSUME NEW r, NEW g \in Graphs(r), NEW mod, IsModification(mod)
  PROVE  Modified(g, mod) \in Graphs(r)
<1>1. CASE mod.type = "add_edge"
  <2>1. mod \in [type : {"add_edge"}, source : Node, target : Node, edge_type : PostedEdgeType,
                 capacity : Nat \ {0}, weight : Nat, is_bidirectional : BOOLEAN]
    BY <1>1 DEF IsModification
  <2> QED
    BY <1>1, <2>1, AddLinkIsGraph DEF Modified
<1>2. CASE mod.type # "add_edge"
  <2>1. mod.node_id \in Node /\ \A field \in DOMAIN mod.fields : mod.fields[field] \in Nat
    BY <1>2 DEF IsModification
  <2> QED
    BY <1>2, <2>1, UpgradeIsGraph DEF Modified
<1> QED
  BY <1>1, <1>2

\* The modifications of a scenario are made one after the other.
LEMMA ScenarioIsGraph ==
  ASSUME NEW r, NEW g \in Graphs(r), NEW mods, IsScenario(mods)
  PROVE  /\ apply_scenario_modifications(g, mods) \in Graphs(r)
         /\ Len(mods) = 1 => apply_scenario_modifications(g, mods) = Modified(g, mods[1])
<1> DEFINE n == Len(mods)
           Sweep(f) == f = [k \in 0 .. n |-> IF k = 0 THEN g ELSE Modified(f[k - 1], mods[k])]
           all == CHOOSE f : Sweep(f)
           step == [k \in 1 .. n |-> [x \in Graphs(r) |-> Modified(x, mods[k])]]
<1>1. n \in Nat /\ \A k \in 1 .. n : IsModification(mods[k])
  BY DEF IsScenario
<1>2. StaysIn(Graphs(r), step, n)
  BY <1>1, ModifiedIsGraph DEF StaysIn
<1>3. PICK f : Iterates(f, Graphs(r), g, step, n)
  <2> HIDE DEF n, step
  <2> QED
    BY <1>1, <1>2, IterationExists
<1>4. /\ f \in [0 .. n -> Graphs(r)] /\ f[0] = g
      /\ \A k \in 1 .. n : f[k] = Modified(f[k - 1], mods[k])
  <2>1. f \in [0 .. n -> Graphs(r)] /\ f[0] = g /\ \A k \in 1 .. n : f[k] = step[k][f[k - 1]]
    BY <1>3 DEF Iterates
  <2>2. \A k \in 1 .. n : f[k - 1] \in Graphs(r)
    BY <1>1, <2>1
  <2> QED
    BY <2>1, <2>2
<1> HIDE DEF step
<1>5. Sweep(f)
  <2> HIDE DEF n
  <2>1. \A k \in 0 .. n : f[k] = IF k = 0 THEN g ELSE Modified(f[k - 1], mods[k])
    BY <1>1, <1>4
  <2> QED
    BY <1>4, <2>1
<1>6. Sweep(all)
  <2> HIDE DEF Sweep
  <2> QED
    BY <1>5
<1>7. all[0] = g /\ \A k \in 1 .. n : all[k] = Modified(all[k - 1], mods[k])
  <2> HIDE DEF all, n
  <2>1. \A k \in 0 .. n : all[k] = IF k = 0 THEN g ELSE Modified(all[k - 1], mods[k])
    BY <1>6
  <2> QED
    BY <1>1, <2>1
<1>8. all[n] \in Graphs(r)
  <2> HIDE DEF all, n
  <2>1. GoOnAlike(all, f, n)
    BY <1>4, <1>7 DEF GoOnAlike
  <2>2. \A k \in 0 .. n : all[k] = f[k]
    BY <1>1, <2>1, IterationIsOne
  <2> QED
    BY <1>1, <1>4, <2>2
<1>9. apply_scenario_modifications(g, mods) = all[n]
  BY DEF apply_scenario_modifications
<1> HIDE DEF all
<1>10. ASSUME n = 1 PROVE all[n] = Modified(g, mods[1])
  BY <1>7, <1>10
<1> QED
  BY <1>8, <1>9, <1>10

\* The cascade is defined on whatever graph comes out.
LEMMA GraphIsNetwork ==
  ASSUME NEW r, IsRows(r), NEW g \in Graphs(r)
  PROVE  IsNetwork(AsNetwork(g))
<1> DEFINE net == AsNetwork(g)
           limit == [v \in Node |-> (g.capacity[v] * g.failure_threshold[v]) \div 10]
           read == [e \in DOMAIN g.link |-> [edge_types |-> g.link[e].edge_types,
                                             edge_type |-> g.link[e].edge_type,
                                             capacity |-> g.link[e].capacity]]
<1>1. net = [link |-> read, node_type |-> g.node_type, load |-> g.load, limit |-> limit]
  BY DEF AsNetwork
<1>2. limit \in [Node -> Nat]
  <2> SUFFICES ASSUME NEW v \in Node PROVE (g.capacity[v] * g.failure_threshold[v]) \div 10 \in Nat
    OBVIOUS
  <2>1. g.capacity[v] \in Nat /\ g.failure_threshold[v] \in Nat
    BY GraphIsRecord
  <2>2. g.capacity[v] * g.failure_threshold[v] \in Nat
    <3>1. \A a, b \in Nat : a * b \in Nat
      OBVIOUS
    <3> QED
      BY <2>1, <3>1
  <2>3. \A a \in Nat : a \div 10 \in Nat
    OBVIOUS
  <2> QED
    BY <2>2, <2>3
<1>3. DOMAIN g.link \in SUBSET (Node \X Node) /\ g.link \in [DOMAIN g.link -> GoodLink]
  BY GraphIsRecord, LinksAre
<1>4. DOMAIN read = DOMAIN g.link /\ \A e \in DOMAIN read : read[e] \in Link
  <2> SUFFICES ASSUME NEW e \in DOMAIN g.link PROVE read[e] \in Link
    OBVIOUS
  <2> DEFINE l == g.link[e]
  <2>1. l \in GoodLink
    BY <1>3
  <2>2. read[e] = [edge_types |-> l.edge_types, edge_type |-> l.edge_type, capacity |-> l.capacity]
    OBVIOUS
  <2> HIDE DEF l, read
  <2>3. /\ l.edge_types \in SUBSET EdgeType /\ l.edge_type \in EdgeType
        /\ l.capacity \in Nat \cup {NoCapacity}
    BY <2>1 DEF GoodLink, PostedEdgeType, EdgeType
  <2> QED
    BY <2>2, <2>3 DEF Link
<1> HIDE DEF net, limit, read
<1>5. g.node_type \in [Node -> AssetType] /\ g.load \in [Node -> Nat]
  BY GraphIsRecord DEF IsRows
<1>6. IsNetwork(net)
  BY <1>1, <1>2, <1>3, <1>4, <1>5 DEF IsNetwork
<1> QED
  BY <1>6 DEF net

-------------------------------------------------------------------------------
(* A run. *)

\* Where a run starts, and what one wave makes of it.
Start(net, initial) == [wave |-> initial, failed |-> {}, load |-> net.load, waves |-> <<>>]

WaveAfter(net, s) ==
  LET gone == s.failed \cup s.wave
      load == [v \in Node |-> IF v \in gone THEN s.load[v]
                              ELSE s.load[v] + Received(net, s.load, s.wave, gone, v)]
  IN  IF s.wave = {} THEN s
      ELSE [wave   |-> {v \in Node \ gone : Fails(net, TRUE, load, gone, v)},
            failed |-> gone, load |-> load, waves |-> Append(s.waves, s.wave)]

\* A guardrail of one wave more lets the run go on for one wave.
LEMMA RunGoesOn ==
  ASSUME NEW net, NEW initial, NEW k \in Nat
  PROVE  /\ RunCascade(net, initial, 0) = Start(net, initial)
         /\ RunCascade(net, initial, k + 1) = WaveAfter(net, RunCascade(net, initial, k))
<1> DEFINE start == Start(net, initial)
           Wave(s) == WaveAfter(net, s)
           Sweep(f, n) == f = [j \in 0 .. n |-> IF j = 0 THEN start ELSE Wave(f[j - 1])]
           all(n) == CHOOSE f : Sweep(f, n)
<1>1. ASSUME NEW n \in Nat PROVE RunCascade(net, initial, n) = all(n)[n]
  BY DEF RunCascade, Start, WaveAfter
<1> HIDE DEF start, Wave
<1>2. ASSUME NEW m \in Nat PROVE \E f : Sweep(f, m)
  <2> DEFINE D == {n \in Nat : \E f : Sweep(f, n)}
  <2>1. 0 \in D
    <3>1. Sweep([j \in 0 .. 0 |-> start], 0)
      OBVIOUS
    <3> QED
      BY <3>1
  <2>2. ASSUME NEW n \in D PROVE n + 1 \in D
    <3>1. n \in Nat /\ n + 1 \in Nat
      OBVIOUS
    <3>2. PICK f : Sweep(f, n)
      OBVIOUS
    <3>3. \A j \in 0 .. n : f[j] = IF j = 0 THEN start ELSE Wave(f[j - 1])
      BY <3>2
    <3> DEFINE g == [j \in 0 .. n + 1 |-> IF j <= n THEN f[j] ELSE Wave(f[n])]
    <3>4. ASSUME NEW j \in 0 .. n + 1
          PROVE  g[j] = IF j = 0 THEN start ELSE Wave(g[j - 1])
      <4>1. CASE j <= n
        <5>1. j \in 0 .. n /\ g[j] = f[j] /\ (j # 0 => g[j - 1] = f[j - 1])
          BY <3>1, <4>1
        <5> HIDE DEF g
        <5> QED
          BY <3>3, <5>1
      <4>2. CASE j = n + 1
        <5>1. j # 0 /\ g[j] = Wave(f[n]) /\ g[j - 1] = f[n]
          BY <3>1, <4>2
        <5> HIDE DEF g
        <5> QED
          BY <5>1
      <4> QED
        BY <4>1, <4>2, <3>1
    <3>5. Sweep(g, n + 1)
      <4>1. g = [j \in 0 .. n + 1 |-> g[j]]
        OBVIOUS
      <4> HIDE DEF g
      <4> QED
        BY <3>4, <4>1
    <3> QED
      BY <3>1, <3>5
  <2>3. D = Nat
    <3>1. D \in SUBSET Nat
      OBVIOUS
    <3> HIDE DEF D
    <3> QED
      BY <3>1, <2>1, <2>2, NatSetInduction
  <2>4. m \in D
    BY <2>3
  <2> QED
    BY <2>4
<1>3. ASSUME NEW n \in Nat
      PROVE  all(n)[0] = start /\ \A j \in 1 .. n : all(n)[j] = Wave(all(n)[j - 1])
  <2>1. Sweep(all(n), n)
    <3> HIDE DEF Sweep
    <3> QED
      BY <1>2
  <2> DEFINE way == all(n)
  <2> HIDE DEF way
  <2>2. \A j \in 0 .. n : way[j] = IF j = 0 THEN start ELSE Wave(way[j - 1])
    BY <2>1 DEF way
  <2>3. way[0] = start /\ \A j \in 1 .. n : way[j] = Wave(way[j - 1])
    BY <2>2
  <2> QED
    BY <2>3 DEF way
<1> HIDE DEF all
<1>4. k \in 0 .. k /\ k + 1 \in Nat /\ k + 1 \in 1 .. k + 1 /\ (k + 1) - 1 = k /\ 0 \in Nat
  OBVIOUS
<1>5. all(k)[k] = all(k + 1)[k]
  <2>1. \A j \in 1 .. k : j \in 1 .. k + 1
    OBVIOUS
  <2>2. GoOnAlike(all(k), all(k + 1), k)
    BY <1>3, <1>4, <2>1 DEF GoOnAlike
  <2> QED
    BY <1>4, <2>2, IterationIsOne
<1>6. RunCascade(net, initial, 0) = start
  BY <1>1, <1>3, <1>4
<1>7. RunCascade(net, initial, k + 1) = Wave(RunCascade(net, initial, k))
  BY <1>1, <1>3, <1>4, <1>5
<1> QED
  BY <1>6, <1>7 DEF start, Wave

LEMMA RunIsOfAssets ==
  ASSUME NEW net, NEW initial \in SUBSET Node, NEW m \in Nat \ {0}
  PROVE  LET run == RunCascade(net, initial, m)
         IN  /\ initial \subseteq run.failed /\ run.failed \in SUBSET Node
             /\ run.waves \in Seq(SUBSET Node)
<1> DEFINE Run(n) == RunCascade(net, initial, n)
           Wave(s) == WaveAfter(net, s)
<1>1. Run(0) = Start(net, initial) /\ \A n \in Nat : Run(n + 1) = Wave(Run(n))
  BY RunGoesOn
<1>2. ASSUME NEW s, s.wave \in SUBSET Node, s.failed \in SUBSET Node,
             s.waves \in Seq(SUBSET Node)
      PROVE  /\ Wave(s).wave \in SUBSET Node /\ Wave(s).failed \in SUBSET Node
             /\ Wave(s).waves \in Seq(SUBSET Node)
             /\ s.failed \subseteq Wave(s).failed /\ s.wave \subseteq Wave(s).failed
  <2>1. CASE s.wave = {}
    BY <1>2, <2>1 DEF WaveAfter
  <2>2. CASE s.wave # {}
    <3> DEFINE gone == s.failed \cup s.wave
               load == [v \in Node |-> IF v \in gone THEN s.load[v]
                                       ELSE s.load[v] + Received(net, s.load, s.wave, gone, v)]
               next == {v \in Node \ gone : Fails(net, TRUE, load, gone, v)}
    <3>1. Wave(s) = [wave |-> next, failed |-> gone, load |-> load,
                     waves |-> Append(s.waves, s.wave)]
      BY <2>2 DEF WaveAfter
    <3>2. next \in SUBSET Node
      OBVIOUS
    <3>3. Append(s.waves, s.wave) \in Seq(SUBSET Node)
      BY <1>2, AppendProperties
    <3> HIDE DEF load, next, Wave
    <3> QED
      BY <1>2, <3>1, <3>2, <3>3
  <2> QED
    BY <2>1, <2>2
<1> HIDE DEF Run, Wave
<1> DEFINE D == {n \in Nat : /\ Run(n + 1).wave \in SUBSET Node
                             /\ Run(n + 1).failed \in SUBSET Node
                             /\ Run(n + 1).waves \in Seq(SUBSET Node)
                             /\ initial \subseteq Run(n + 1).failed}
<1>6. 0 \in D
  <2> DEFINE start == Start(net, initial)
  <2>1. start.wave = initial /\ start.failed \in SUBSET Node /\ start.waves \in Seq(SUBSET Node)
    BY DEF Start
  <2>2. Run(1) = Wave(start) /\ 0 + 1 = 1
    BY <1>1
  <2> HIDE DEF start
  <2> QED
    BY <1>2, <2>1, <2>2
<1>7. ASSUME NEW n \in D PROVE n + 1 \in D
  <2> DEFINE s == Run(n + 1)
  <2>1. n \in Nat /\ n + 1 \in Nat
    OBVIOUS
  <2>2. Run((n + 1) + 1) = Wave(s)
    BY <1>1, <2>1
  <2>3. s.wave \in SUBSET Node /\ s.failed \in SUBSET Node /\ s.waves \in Seq(SUBSET Node)
        /\ initial \subseteq s.failed
    OBVIOUS
  <2> HIDE DEF s
  <2>4. /\ Wave(s).wave \in SUBSET Node /\ Wave(s).failed \in SUBSET Node
        /\ Wave(s).waves \in Seq(SUBSET Node) /\ initial \subseteq Wave(s).failed
    BY <1>2, <2>3
  <2> QED
    BY <2>1, <2>2, <2>4
<1>8. D = Nat
  <2>1. D \in SUBSET Nat
    OBVIOUS
  <2> HIDE DEF D
  <2> QED
    BY <2>1, <1>6, <1>7, NatSetInduction
<1>9. m - 1 \in D /\ (m - 1) + 1 = m
  <2> HIDE DEF D
  <2> QED
    BY <1>8
<1> QED
  BY <1>9 DEF Run

\* A cascade that has come to its end stays there, whatever the guardrail.
LEMMA SettledStays ==
  ASSUME NEW net, NEW initial, NEW m \in Nat, RunCascade(net, initial, m).wave = {}
  PROVE  \A k \in Nat : RunCascade(net, initial, m + k) = RunCascade(net, initial, m)
<1> DEFINE Run(n) == RunCascade(net, initial, n)
           D == {k \in Nat : Run(m + k) = Run(m)}
<1>1. 0 \in D
  OBVIOUS
<1>2. ASSUME NEW k \in D PROVE k + 1 \in D
  <2>1. k \in Nat /\ k + 1 \in Nat /\ m + k \in Nat /\ m + (k + 1) = (m + k) + 1
    OBVIOUS
  <2>2. Run((m + k) + 1) = WaveAfter(net, Run(m + k))
    BY <2>1, RunGoesOn
  <2>3. Run(m + k) = Run(m)
    OBVIOUS
  <2> HIDE DEF Run
  <2>4. Run(m).wave = {}
    BY DEF Run
  <2>5. WaveAfter(net, Run(m)) = Run(m)
    BY <2>4 DEF WaveAfter
  <2> QED
    BY <2>1, <2>2, <2>3, <2>5
<1>3. D = Nat
  <2>1. D \in SUBSET Nat
    OBVIOUS
  <2> HIDE DEF D
  <2> QED
    BY <2>1, <1>1, <1>2, NatSetInduction
<1> QED
  BY <1>3

\* Two guardrails that both let a cascade come to its end give the same run.
LEMMA SettledRunsAgree ==
  ASSUME NEW net, NEW initial, NEW m \in Nat, NEW n \in Nat,
         RunCascade(net, initial, m).wave = {}, RunCascade(net, initial, n).wave = {}
  PROVE  RunCascade(net, initial, m) = RunCascade(net, initial, n)
<1>1. CASE m <= n
  <2>1. n - m \in Nat /\ m + (n - m) = n
    BY <1>1
  <2>2. \A k \in Nat : RunCascade(net, initial, m + k) = RunCascade(net, initial, m)
    BY SettledStays
  <2> QED
    BY <2>1, <2>2
<1>2. CASE n <= m
  <2>1. m - n \in Nat /\ n + (m - n) = m
    BY <1>2
  <2>2. \A k \in Nat : RunCascade(net, initial, n + k) = RunCascade(net, initial, n)
    BY SettledStays
  <2> QED
    BY <2>1, <2>2
<1> QED
  BY <1>1, <1>2

LEMMA PeopleAreNat ==
  ASSUME NEW r, IsRows(r), NEW g \in Graphs(r), NEW S \in SUBSET Node
  PROVE  People(g, S) = People(r, S) /\ People(g, S) \in Nat
<1>1. g.population_served = r.population_served
  BY GraphIsRecord
<1>2. IsFiniteSet(S)
  BY NodeAssumption, FS_Subset
<1>3. \A v \in S : r.population_served[v] \in Nat
  BY DEF IsRows
<1>4. SumFunctionOnSet(r.population_served, S) \in Nat
  BY <1>2, <1>3, SumIsNat
<1> QED
  BY <1>1, <1>4 DEF People

LEMMA EfficiencyIsNat ==
  ASSUME NEW h, NEW S \in SUBSET Node
  PROVE  Efficiency(h, S) \in Nat
<1> DEFINE K == 1 .. Cardinality(Node) - 1
           atDistance(k) == Cardinality(Within(h, S, k)) - Cardinality(Within(h, S, k - 1))
           f == [k \in K |-> (EfficiencyUnit \div k) * atDistance(k)]
<1>1. IsFiniteSet(S \X S)
  BY NodeAssumption, FS_Subset, FS_Product
<1>2. ASSUME NEW k \in K PROVE f[k] \in Nat
  <2>1. k \in Nat \ {0} /\ k - 1 \in Nat /\ (k - 1) + 1 = k
    BY NodeAssumption, FS_CardinalityType
  <2> HIDE DEF K
  <2>2. Within(h, S, k) = Longer(h, S, Within(h, S, k - 1)) /\ Within(h, S, k) \in SUBSET (S \X S)
    BY <2>1, WithinGrows
  <2>3. Within(h, S, k - 1) \in SUBSET Within(h, S, k)
    BY <2>2 DEF Longer
  <2>4. IsFiniteSet(Within(h, S, k)) /\ Cardinality(Within(h, S, k)) \in Nat
    BY <1>1, <2>2, FS_Subset, FS_CardinalityType
  <2>5. /\ Cardinality(Within(h, S, k - 1)) <= Cardinality(Within(h, S, k))
        /\ Cardinality(Within(h, S, k - 1)) \in Nat
    BY <2>3, <2>4, FS_Subset, FS_CardinalityType
  <2>6. atDistance(k) \in Nat
    BY <2>4, <2>5
  <2>7. EfficiencyUnit \div k \in Nat
    BY <2>1 DEF EfficiencyUnit
  <2>8. \A a, b \in Nat : a * b \in Nat
    OBVIOUS
  <2> HIDE DEF atDistance
  <2> QED
    BY <2>6, <2>7, <2>8
<1>3. IsFiniteSet(K)
  <2>1. Cardinality(Node) - 1 \in Int
    BY NodeAssumption, FS_CardinalityType
  <2> QED
    BY <2>1, FS_Interval
<1>4. SumFunctionOnSet(f, K) \in Nat
  <2> HIDE DEF f, K
  <2> QED
    BY <1>2, <1>3, SumIsNat
<1> QED
  BY <1>4 DEF Efficiency

\* What RunTask makes of the rows r.
GraphOf(r, mods) == apply_scenario_modifications(build_graph(r), mods)

CascadeOn(g, initial) == RunCascade(AsNetwork(g), initial, MaxWaves)

\* What Score makes of a candidate graph.
Rerun(g, initial) == RunCascade(AsNetwork(g), initial, DefaultWaves)

\* No guardrail sets the two apart.
StopAlike(g, initial) ==
  \/ MaxWaves = DefaultWaves
  \/ \A n \in {MaxWaves, DefaultWaves} : SettlesWithin(g, initial, n)

LEMMA RerunIsRun ==
  ASSUME NEW g, NEW initial, StopAlike(g, initial)
  PROVE  Rerun(g, initial) = CascadeOn(g, initial)
<1>1. MaxWaves \in Nat /\ DefaultWaves \in Nat
  BY BoundsAssumption
<1>2. CASE MaxWaves = DefaultWaves
  BY <1>2 DEF Rerun, CascadeOn
<1>3. CASE MaxWaves # DefaultWaves
  <2>1. /\ RunCascade(AsNetwork(g), initial, MaxWaves).wave = {}
        /\ RunCascade(AsNetwork(g), initial, DefaultWaves).wave = {}
    BY <1>3 DEF StopAlike, SettlesWithin
  <2> QED
    BY <1>1, <2>1, SettledRunsAgree DEF Rerun, CascadeOn
<1> QED
  BY <1>2, <1>3

Task(r, mods, initial) ==
  LET G == GraphOf(r, mods)
      run == CascadeOn(G, initial)
  IN  [initial_failures |-> initial, waves |-> run.waves, failed |-> run.failed,
       total_failed |-> Cardinality(run.failed),
       population |-> calculate_population_impact(G, run.failed),
       efficiency_after |-> Efficiency(G, Node \ run.failed),
       modifications |-> mods]

IsRun(r, s) ==
  /\ IsScenario(s.modifications)
  /\ s.initial_failures # {} /\ s.initial_failures \in SUBSET Node
  /\ s = Task(r, s.modifications, s.initial_failures)

LEMMA RunTaskIs == \A mods, initial : RunTask(mods, initial) = Task(rows, mods, initial)
  BY DEF RunTask, Task, GraphOf, CascadeOn

LEMMA CascadeFacts ==
  ASSUME NEW g, NEW initial \in SUBSET Node
  PROVE  \A run \in {CascadeOn(g, initial), Rerun(g, initial)} :
           /\ initial \subseteq run.failed /\ run.failed \in SUBSET Node
           /\ run.waves \in Seq(SUBSET Node)
           /\ Cardinality(run.failed) \in Nat
<1>1. MaxWaves \in Nat \ {0} /\ DefaultWaves \in Nat \ {0}
  BY BoundsAssumption
<1>2. LET run == CascadeOn(g, initial)
      IN  /\ initial \subseteq run.failed /\ run.failed \in SUBSET Node
          /\ run.waves \in Seq(SUBSET Node)
  BY <1>1, RunIsOfAssets DEF CascadeOn
<1>3. LET run == Rerun(g, initial)
      IN  /\ initial \subseteq run.failed /\ run.failed \in SUBSET Node
          /\ run.waves \in Seq(SUBSET Node)
  BY <1>1, RunIsOfAssets DEF Rerun
<1>4. \A S \in SUBSET Node : Cardinality(S) \in Nat
  BY NodeAssumption, FS_Subset, FS_CardinalityType
<1> QED
  BY <1>2, <1>3, <1>4

LEMMA TaskFacts ==
  ASSUME NEW r, IsRows(r), NEW mods, IsScenario(mods), NEW initial \in SUBSET Node
  PROVE  LET G == GraphOf(r, mods)
             run == CascadeOn(G, initial)
             s == Task(r, mods, initial)
         IN  /\ G \in Graphs(r)
             /\ s.initial_failures = initial /\ s.modifications = mods
             /\ s.failed = run.failed /\ s.waves = run.waves
             /\ s.total_failed = Cardinality(run.failed)
             /\ s.population.raw_population_affected = People(r, run.failed)
             /\ s.efficiency_after = Efficiency(G, Node \ run.failed)
<1> DEFINE G == GraphOf(r, mods)
           run == CascadeOn(G, initial)
<1>1. G \in Graphs(r)
  BY BuildIsGraph, ScenarioIsGraph DEF GraphOf
<1> HIDE DEF G
<1>2. calculate_population_impact(G, run.failed).raw_population_affected = People(G, run.failed)
  BY DEF calculate_population_impact
<1>3. run.failed \in SUBSET Node
  BY CascadeFacts
<1>4. People(G, run.failed) = People(r, run.failed)
  BY <1>1, <1>3, PeopleAreNat
<1> HIDE DEF run
<1>5. Task(r, mods, initial) =
        [initial_failures |-> initial, waves |-> run.waves, failed |-> run.failed,
         total_failed |-> Cardinality(run.failed),
         population |-> calculate_population_impact(G, run.failed),
         efficiency_after |-> Efficiency(G, Node \ run.failed),
         modifications |-> mods]
  BY DEF Task, G, run
<1> QED
  BY <1>1, <1>2, <1>4, <1>5 DEF G, run

LEMMA RunFacts ==
  ASSUME NEW r, IsRows(r), NEW s, IsRun(r, s)
  PROVE  /\ s.initial_failures \subseteq s.failed /\ s.failed \in SUBSET Node
         /\ s.waves \in Seq(SUBSET Node) /\ s.total_failed \in Nat
         /\ s.population.raw_population_affected = People(r, s.failed)
         /\ s.efficiency_after \in Nat
         /\ IsNetwork(AsNetwork(GraphOf(r, s.modifications)))
<1> DEFINE G == GraphOf(r, s.modifications)
           run == CascadeOn(G, s.initial_failures)
<1>1. /\ G \in Graphs(r)
      /\ s.failed = run.failed /\ s.waves = run.waves
      /\ s.total_failed = Cardinality(run.failed)
      /\ s.population.raw_population_affected = People(r, run.failed)
      /\ s.efficiency_after = Efficiency(G, Node \ run.failed)
  BY TaskFacts DEF IsRun
<1> HIDE DEF G
<1>2. /\ s.initial_failures \subseteq run.failed /\ run.failed \in SUBSET Node
      /\ run.waves \in Seq(SUBSET Node)
      /\ Cardinality(run.failed) \in Nat
  BY CascadeFacts DEF IsRun
<1>3. Efficiency(G, Node \ run.failed) \in Nat
  BY EfficiencyIsNat
<1>4. IsNetwork(AsNetwork(G))
  BY <1>1, GraphIsNetwork
<1> HIDE DEF run
<1> QED
  BY <1>1, <1>2, <1>3, <1>4 DEF G

-------------------------------------------------------------------------------
(* Lists in an order. *)

LEMMA ListIsSeq ==
  ASSUME NEW S, NEW n \in Nat, NEW s \in [1 .. n -> S]
  PROVE  s \in Seq(S) /\ Len(s) = n
<1>1. s \in Seq(S)
  OBVIOUS
<1>2. Len(s) \in Nat /\ 1 .. Len(s) = 1 .. n
  BY <1>1, LenProperties
<1>3. Len(s) = n
  <2>1. \A k \in Nat : 1 .. k = 1 .. n => k = n
    <3> SUFFICES ASSUME NEW k \in Nat, 1 .. k = 1 .. n, k # n PROVE FALSE
      OBVIOUS
    <3>1. k < n => n \in 1 .. n /\ n \notin 1 .. k
      OBVIOUS
    <3>2. n < k => k \in 1 .. k /\ k \notin 1 .. n
      OBVIOUS
    <3> QED
      BY <3>1, <3>2
  <2> QED
    BY <1>2, <2>1
<1> QED
  BY <1>1, <1>3

LEMMA IdsAreNumbers ==
  \A v \in Node : v \in Nat /\ v # 0
  BY IdsAssumption

LEMMA LinksInOrder ==
  ASSUME NEW L \in SUBSET (Node \X Node)
  PROVE  InOrder(L, EarlierLink) \in Seq(L)
<1> DEFINE R == {p \in L \X L : EarlierLink(p[1], p[2])}
           list == InOrder(L, EarlierLink)
           n == Cardinality(L)
<1>1. IsFiniteSet(L)
  BY NodeAssumption, FS_Product, FS_Subset
<1>2. \A x, y \in L : <<x, y>> \in R <=> EarlierLink(x, y)
  OBVIOUS
<1>3. \A x \in L : x[1] \in Int /\ x[2] \in Int /\ x = <<x[1], x[2]>>
  <2>1. \A x \in L : x[1] \in Node /\ x[2] \in Node /\ x = <<x[1], x[2]>>
    OBVIOUS
  <2> QED
    BY <2>1, IdsAreNumbers
<1> HIDE DEF R
<1>4. Orders(R, L)
  BY <1>2, <1>3 DEF Orders, EarlierLink
<1>5. n \in Nat /\ \A i \in 1 .. n : \E x \in L : Cardinality(Before(R, L, x)) = i - 1
  BY <1>1, <1>4, PlacesAreTaken
<1>6. \A x \in L : Before(R, L, x) = {y \in L : EarlierLink(y, x)}
  BY <1>2 DEF Before
<1>7. \A i \in 1 .. n : \E x \in L : Cardinality({y \in L : EarlierLink(y, x)}) = i - 1
  BY <1>5, <1>6
<1>8. \A i \in 1 .. n : (CHOOSE x \in L : Cardinality({y \in L : EarlierLink(y, x)}) = i - 1) \in L
  BY <1>7
<1>9. list \in [1 .. n -> L]
  BY <1>8 DEF InOrder
<1> QED
  BY <1>5, <1>9, ListIsSeq

LEMMA DonorsInOrder ==
  ASSUME NEW w1, NEW succ, Able(w1, succ) \in SUBSET Node, G_baseline.capacity \in [Node -> Nat]
  PROVE  Donors(w1, succ) \in Seq(Able(w1, succ))
<1> DEFINE A == Able(w1, succ)
           R == {p \in A \X A : BetterDonor(w1, p[1], p[2])}
           n == Cardinality(A)
<1>1. IsFiniteSet(A)
  BY NodeAssumption, FS_Subset
<1>2. \A x \in A : x \in Int /\ G_baseline.capacity[x] \in Int
  BY IdsAreNumbers
<1>3. Donors(w1, succ) = [i \in 1 .. n |->
        CHOOSE x \in A : Cardinality({y \in A : BetterDonor(w1, y, x)}) = i - 1]
  BY DEF Donors, InOrder
<1> HIDE DEF A
<1>4. \A x, y \in A : <<x, y>> \in R <=> BetterDonor(w1, x, y)
  OBVIOUS
<1> HIDE DEF R
<1>5. Orders(R, A)
  BY <1>2, <1>4 DEF Orders, BetterDonor
<1>6. n \in Nat /\ \A i \in 1 .. n : \E x \in A : Cardinality(Before(R, A, x)) = i - 1
  BY <1>1, <1>5, PlacesAreTaken
<1>7. \A x \in A : Before(R, A, x) = {y \in A : BetterDonor(w1, y, x)}
  BY <1>4 DEF Before
<1>8. \A i \in 1 .. n : \E x \in A : Cardinality({y \in A : BetterDonor(w1, y, x)}) = i - 1
  BY <1>6, <1>7
<1>9. \A i \in 1 .. n : (CHOOSE x \in A : Cardinality({y \in A : BetterDonor(w1, y, x)}) = i - 1) \in A
  BY <1>8
<1>10. Donors(w1, succ) \in [1 .. n -> A]
  BY <1>3, <1>9
<1>11. Donors(w1, succ) \in Seq(A)
  BY <1>6, <1>10, ListIsSeq
<1> QED
  BY <1>11 DEF A

\* Two keys that differ, differ first somewhere.
Less(k, l) == \E i \in 1 .. 6 : k[i] < l[i] /\ \A j \in 1 .. i - 1 : k[j] = l[j]

LEMMA LessIsAnOrder ==
  /\ \A k \in [1 .. 6 -> Int] : ~ Less(k, k)
  /\ \A k, l, m \in [1 .. 6 -> Int] : Less(k, l) /\ Less(l, m) => Less(k, m)
  /\ \A k, l \in [1 .. 6 -> Int] : k # l => Less(k, l) \/ Less(l, k)
<1>1. ASSUME NEW k \in [1 .. 6 -> Int] PROVE ~ Less(k, k)
  BY DEF Less
<1>2. ASSUME NEW k \in [1 .. 6 -> Int], NEW l \in [1 .. 6 -> Int], NEW m \in [1 .. 6 -> Int],
             Less(k, l), Less(l, m)
      PROVE  Less(k, m)
  <2>1. PICK a \in 1 .. 6 : k[a] < l[a] /\ \A j \in 1 .. a - 1 : k[j] = l[j]
    BY <1>2 DEF Less
  <2>2. PICK b \in 1 .. 6 : l[b] < m[b] /\ \A j \in 1 .. b - 1 : l[j] = m[j]
    BY <1>2 DEF Less
  <2>0. \A j \in 1 .. 6 : k[j] \in Int /\ l[j] \in Int /\ m[j] \in Int
    OBVIOUS
  <2>3. CASE a <= b
    <3>1. k[a] < m[a] /\ \A j \in 1 .. a - 1 : k[j] = m[j]
      BY <2>0, <2>1, <2>2, <2>3
    <3> QED
      BY <3>1 DEF Less
  <2>4. CASE b < a
    <3>1. k[b] < m[b] /\ \A j \in 1 .. b - 1 : k[j] = m[j]
      BY <2>0, <2>1, <2>2, <2>4
    <3> QED
      BY <3>1 DEF Less
  <2> QED
    BY <2>3, <2>4
<1>3. ASSUME NEW k \in [1 .. 6 -> Int], NEW l \in [1 .. 6 -> Int], k # l
      PROVE  Less(k, l) \/ Less(l, k)
  <2> DEFINE T == {i \in 1 .. 6 : k[i] # l[i]}
             id == [i \in T |-> i]
  <2>1. T # {}
    BY <1>3
  <2>2. PICK i \in T : \A j \in T : i <= j
    <3>1. \A j \in T : id[j] \in Nat
      OBVIOUS
    <3>2. \E i \in T : \A j \in T : id[i] <= id[j]
      <4> HIDE DEF T, id
      <4> QED
        BY <2>1, <3>1, SmallestExists
    <3> QED
      BY <3>2
  <2>3. \A j \in 1 .. i - 1 : k[j] = l[j]
    BY <2>2
  <2>4. k[i] \in Int /\ l[i] \in Int /\ k[i] # l[i] /\ i \in 1 .. 6
    OBVIOUS
  <2>5. k[i] < l[i] \/ l[i] < k[i]
    BY <2>4
  <2> QED
    BY <2>3, <2>4, <2>5 DEF Less
<1> QED
  BY <1>1, <1>2, <1>3

\* Cards between the same two assets are one.
AreDistinct(C) ==
  \A c, d \in C : c.node_id = d.node_id /\ c.target_node_id = d.target_node_id => c = d

\* The numbers a card is ranked by.
HasKey(c) ==
  /\ c.outcome.failures_prevented \in Int /\ c.outcome.raw_population_saved \in Int
  /\ c.outcome.efficiency_gain \in Int /\ c.node_id \in Int /\ c.target_node_id \in Int

LEMMA CardsInOrder ==
  ASSUME NEW C, IsFiniteSet(C), AreDistinct(C), \A c \in C : HasKey(c)
  PROVE  InOrder(C, RankedBefore) \in Seq(C)
<1> DEFINE R == {p \in C \X C : RankedBefore(p[1], p[2])}
           list == InOrder(C, RankedBefore)
           n == Cardinality(C)
           key == [c \in C |-> RankKey(c)]
<1>1. \A x, y \in C : <<x, y>> \in R <=> Less(RankKey(x), RankKey(y))
  BY DEF RankedBefore, Less
<1>2. \A c \in C : RankKey(c) \in [1 .. 6 -> Int]
  BY DEF RankKey, HasKey
<1>3. \A c, d \in C : RankKey(c) = RankKey(d) => c = d
  BY DEF RankKey, HasKey, AreDistinct
<1> HIDE DEF R
<1>4. Orders(R, C)
  BY <1>1, <1>2, <1>3, LessIsAnOrder DEF Orders
<1>5. n \in Nat /\ \A i \in 1 .. n : \E x \in C : Cardinality(Before(R, C, x)) = i - 1
  BY <1>4, PlacesAreTaken
<1>6. \A x \in C : Before(R, C, x) = {y \in C : RankedBefore(y, x)}
  BY <1>1 DEF Before, RankedBefore, Less
<1>7. \A i \in 1 .. n : \E x \in C : Cardinality({y \in C : RankedBefore(y, x)}) = i - 1
  BY <1>5, <1>6
<1>8. \A i \in 1 .. n : (CHOOSE x \in C : Cardinality({y \in C : RankedBefore(y, x)}) = i - 1) \in C
  BY <1>7
<1>9. list \in [1 .. n -> C]
  BY <1>8 DEF InOrder
<1> QED
  BY <1>5, <1>9, ListIsSeq

-------------------------------------------------------------------------------
(* Cards. *)

\* The graph of the rows r with the modification of the card.
Promised(r, c) == Modified(build_graph(r), Modification(c))

\* The hospitals of S, by their class or by what they are called.
HospitalsIn(r, S) == {v \in S : r.node_type[v] = "hospital" \/ r.called_hospital[v]}

\* What a card says of the run s is what a rerun with its modification brings.
IsCard(r, s, c) ==
  LET h == Promised(r, c)
      run == Rerun(h, s.initial_failures)
      hospitals == HospitalsIn(r, s.failed)
      worth == c.outcome
  IN  /\ IsModification(Modification(c))
      /\ worth.failed = run.failed
      /\ worth.failures_prevented = s.total_failed - Cardinality(run.failed)
      /\ worth.raw_population_saved = People(r, s.failed) - People(r, run.failed)
      /\ worth.efficiency_gain = Efficiency(h, Node \ run.failed) - s.efficiency_after
      /\ worth.protects_critical_services <=> hospitals \ run.failed # {}
      /\ c.node_id \in Node
      /\ \/ /\ c.intervention_type = "upgrade_node" /\ c.target_node_id = 0
            /\ c.proposed_capacity > 0 /\ c.restores_supply_path = FALSE
         \/ /\ c.intervention_type = "add_edge" /\ c.target_node_id \in Node
            /\ c.link.type = "add_edge"
            /\ c.link.source = c.node_id /\ c.link.target = c.target_node_id
            /\ c.node_id # c.target_node_id
            /\ Supplied(build_graph(r), s.failed, c.node_id)
            /\ c.restores_supply_path => Supplied(h, run.failed, c.target_node_id)

\* A recommendation is a card and the payload that is posted for it.
IsOffer(r, s, rec) ==
  /\ IsCard(r, s, rec.candidate)
  /\ rec.scenario_payload = [modifications |-> <<Modification(rec.candidate)>>,
                             initial_failures |-> s.initial_failures]

LostPairs(r) ==
  {p \in Node \X Node : p[2] \in Successors(build_graph(r), p[1])}

\* The second halves of PromisesAreKept and of SupplyClaimsAreTrue.
PromiseIsKept ==
  phase = "completed" /\ promise # None /\ GuardrailsAgree =>
    LET made == promise.rec.candidate.outcome
        before == promise.made_for
    IN  /\ made.failures_prevented = before.total_failed - sim.total_failed
        /\ made.raw_population_saved = before.population.raw_population_affected
                                       - sim.population.raw_population_affected
        /\ made.efficiency_gain = sim.efficiency_after - before.efficiency_after
        /\ made.protects_critical_services <=> Hospitals(before.failed) \ sim.failed # {}

SupplyIsRestored ==
  phase = "completed" /\ promise # None /\ GuardrailsAgree
  /\ promise.rec.candidate.restores_supply_path =>
    LET h == apply_scenario_modifications(build_graph(rows), sim.modifications)
    IN  Supplied(h, sim.failed, promise.rec.candidate.target_node_id)

Phases == {"run", "completed", "upgrades", "links", "offered"}

RunsInv ==
  /\ rows \in Networks /\ phase \in Phases /\ ran \in 0 .. MaxRuns
  /\ IF phase = "run" THEN sim = None /\ promise = None ELSE IsRun(rows, sim)
  /\ phase \in {"upgrades", "links", "offered"} \/ promise # None =>
       G_baseline = build_graph(rows)

SearchInv ==
  /\ phase = "upgrades" => Len(sim.waves) > 1
  /\ IF phase = "links" THEN todo \in Seq(LostPairs(rows)) ELSE todo = <<>>
  /\ tested \in SUBSET (Node \X Node)
  /\ IsFiniteSet(scored)
  /\ \A c \in scored : c.intervention_type \in Interventions /\ c.outcome.failed \subseteq Node

CardsInv ==
  phase = "links" =>
    /\ \A c \in scored : /\ IsCard(rows, sim, c)
                         /\ c.target_node_id # 0 => <<c.node_id, c.target_node_id>> \in tested
    /\ AreDistinct(scored)

OffersInv ==
  /\ Len(recs) <= Limit
  /\ phase = "offered" => \A i \in DOMAIN recs : IsOffer(rows, sim, recs[i])

Inv ==
  /\ RunsInv /\ SearchInv /\ CardsInv /\ OffersInv
  /\ PromiseIsKept /\ SupplyIsRestored

LEMMA HospitalsAre ==
  ASSUME IsRows(rows), G_baseline = build_graph(rows), NEW S
  PROVE  Hospitals(S) = HospitalsIn(rows, S)
<1>1. /\ G_baseline.node_type = rows.node_type
      /\ G_baseline.called_hospital = rows.called_hospital
  BY BuildIsGraph, GraphIsRecord
<1> QED
  BY <1>1 DEF Hospitals, HospitalsIn

LEMMA ScoreIs ==
  ASSUME IsRows(rows), G_baseline = build_graph(rows), IsRun(rows, sim), NEW h
  PROVE  LET run == Rerun(h, sim.initial_failures)
             worth == Score(h)
             hospitals == HospitalsIn(rows, sim.failed)
         IN  /\ worth.failed = run.failed
             /\ worth.failures_prevented = sim.total_failed - Cardinality(run.failed)
             /\ worth.raw_population_saved = People(rows, sim.failed) - People(rows, run.failed)
             /\ worth.efficiency_gain = Efficiency(h, Node \ run.failed) - sim.efficiency_after
             /\ worth.protects_critical_services <=> hospitals \ run.failed # {}
<1> DEFINE run == Rerun(h, sim.initial_failures)
<1>1. /\ sim.failed \in SUBSET Node /\ run.failed \in SUBSET Node
  BY RunFacts, CascadeFacts DEF IsRun
<1>2. /\ People(G_baseline, sim.failed) = People(rows, sim.failed)
      /\ People(G_baseline, run.failed) = People(rows, run.failed)
  <2> HIDE DEF run
  <2> QED
    BY <1>1, BuildIsGraph, PeopleAreNat
<1>3. Hospitals(sim.failed) = HospitalsIn(rows, sim.failed)
  BY HospitalsAre
<1>4. Score(h) =
        [failed               |-> run.failed,
         failures_prevented   |-> sim.total_failed - Cardinality(run.failed),
         raw_population_saved |-> People(G_baseline, sim.failed) - People(G_baseline, run.failed),
         efficiency_gain      |-> Efficiency(h, Node \ run.failed) - sim.efficiency_after,
         protects_critical_services |-> Hospitals(sim.failed) \ run.failed # {}]
  BY DEF Score, Rerun
<1> HIDE DEF run
<1> DEFINE worth == Score(h)
<1> HIDE DEF worth
<1>5. /\ worth.failed = run.failed
      /\ worth.failures_prevented = sim.total_failed - Cardinality(run.failed)
      /\ worth.raw_population_saved = People(G_baseline, sim.failed) - People(G_baseline, run.failed)
      /\ worth.efficiency_gain = Efficiency(h, Node \ run.failed) - sim.efficiency_after
  BY <1>4 DEF worth
<1>6. worth.protects_critical_services <=> Hospitals(sim.failed) \ run.failed # {}
  <2> DEFINE a == sim.total_failed - Cardinality(run.failed)
             b == People(G_baseline, sim.failed) - People(G_baseline, run.failed)
             d == Efficiency(h, Node \ run.failed) - sim.efficiency_after
             kept == Hospitals(sim.failed) \ run.failed # {}
  <2>1. worth = [failed |-> run.failed, failures_prevented |-> a, raw_population_saved |-> b,
                 efficiency_gain |-> d, protects_critical_services |-> kept]
    BY <1>4 DEF worth
  <2> HIDE DEF a, b, d, kept
  <2>2. worth.protects_critical_services = kept
    BY <2>1
  <2> QED
    BY <2>2 DEF kept
<1> QED
  BY <1>2, <1>3, <1>5, <1>6 DEF run, worth

LEMMA UpgradeIsCard ==
  ASSUME IsRows(rows), G_baseline = build_graph(rows), IsRun(rows, sim), NEW v \in Node
  PROVE  LET c == Upgrade(v)
         IN  IsCard(rows, sim, c) /\ c.node_id = v /\ c.target_node_id = 0
<1> DEFINE more == 2 * G_baseline.capacity[v]
           given == [capacity |-> more]
           h == Upgraded(v)
           worth == Score(h)
           c == Upgrade(v)
           mod == [type |-> "upgrade_node", node_id |-> v, fields |-> given]
<1>1. more \in Nat \ {0}
  <2>1. G_baseline.capacity[v] \in Nat \ {0}
    BY BuildIsGraph DEF IsRows
  <2> QED
    BY <2>1
<1>2. c = [intervention_type |-> "upgrade_node", node_id |-> v, target_node_id |-> 0,
           proposed_capacity |-> more, restores_supply_path |-> FALSE, outcome |-> worth]
  BY DEF Upgrade
<1>3. h = UpgradeNode(G_baseline, [node_id |-> v, fields |-> given])
  BY DEF Upgraded
<1> HIDE DEF more, worth, c
<1>4. /\ c.intervention_type = "upgrade_node" /\ c.node_id = v /\ c.target_node_id = 0
      /\ c.proposed_capacity = more /\ c.restores_supply_path = FALSE /\ c.outcome = worth
  BY <1>2
<1>5. Modification(c) = mod
  BY <1>4 DEF Modification
<1>6. IsModification(mod)
  <2>1. DOMAIN given = {"capacity"} /\ given["capacity"] \in Nat
    BY <1>1
  <2> HIDE DEF given
  <2>2. \A field \in DOMAIN given : given[field] \in Nat
    BY <2>1
  <2>3. DOMAIN given \subseteq UpgradeField
    BY <2>1 DEF UpgradeField
  <2> QED
    BY <2>2, <2>3 DEF IsModification
<1>7. h = Promised(rows, c)
  <2>1. Modified(G_baseline, mod) = UpgradeNode(G_baseline, mod)
    BY DEF Modified
  <2>2. UpgradeNode(G_baseline, mod) = UpgradeNode(G_baseline, [node_id |-> v, fields |-> given])
    <3> HIDE DEF given
    <3> QED
      BY DEF UpgradeNode
  <2> HIDE DEF h, mod
  <2> QED
    BY <1>3, <1>5, <2>1, <2>2 DEF Promised
<1> HIDE DEF mod, h
<1>8. c.proposed_capacity > 0
  BY <1>1, <1>4
<1>9. IsCard(rows, sim, c)
  <2> DEFINE run == Rerun(h, sim.initial_failures)
  <2>1. /\ worth.failed = run.failed
        /\ worth.failures_prevented = sim.total_failed - Cardinality(run.failed)
        /\ worth.raw_population_saved = People(rows, sim.failed) - People(rows, run.failed)
        /\ worth.efficiency_gain = Efficiency(h, Node \ run.failed) - sim.efficiency_after
        /\ worth.protects_critical_services <=>
             HospitalsIn(rows, sim.failed) \ run.failed # {}
    BY ScoreIs DEF worth
  <2> HIDE DEF run
  <2> QED
    BY <1>4, <1>5, <1>6, <1>7, <1>8, <2>1 DEF IsCard, run
<1> QED
  BY <1>4, <1>9 DEF c

LEMMA RedundancyIsCard ==
  ASSUME IsRows(rows), G_baseline = build_graph(rows), IsRun(rows, sim),
         NEW p \in LostPairs(rows), NEW u \in Able(p[1], p[2])
  PROVE  LET c == Redundancy(u, p[1], p[2])
         IN  IsCard(rows, sim, c) /\ c.node_id = u /\ c.target_node_id = p[2]
<1> DEFINE w1 == p[1]
           succ == p[2]
           old == G_baseline.link[<<w1, succ>>]
           mod == [type |-> "add_edge", source |-> u, target |-> succ,
                   edge_type |-> old.edge_type, capacity |-> old.capacity,
                   weight |-> old.weight, is_bidirectional |-> FALSE]
           h == AddLink(G_baseline, mod)
           worth == Score(h)
           restores == succ \in surviving_source_reach(h, worth.failed)
           c == Redundancy(u, w1, succ)
<1>1. /\ w1 \in Node /\ succ \in Node /\ <<w1, succ>> \in DOMAIN G_baseline.link
  BY DEF LostPairs, Successors
<1>2. old \in GoodLink
  <2>1. G_baseline.link \in Links
    BY BuildIsGraph, GraphIsRecord
  <2> QED
    BY <1>1, <2>1, LinksAre
<1>3. old.edge_type \in PostedEdgeType /\ old.capacity \in Nat \ {0} /\ old.weight \in Nat
  BY <1>2 DEF GoodLink
<1>4. /\ u \in surviving_source_reach(G_baseline, sim.failed) /\ u # succ
  BY DEF Able
<1>5. u \in Node /\ Supplied(G_baseline, sim.failed, u)
  BY <1>4, ReachIsSupplied
<1>6. c = [intervention_type |-> "add_edge", node_id |-> u, target_node_id |-> succ, link |-> mod,
           restores_supply_path |-> restores, outcome |-> worth]
  BY DEF Redundancy
<1> HIDE DEF old, c, worth
<1>7. IsModification(mod) /\ mod.type = "add_edge" /\ mod.source = u /\ mod.target = succ
  BY <1>1, <1>3, <1>5 DEF IsModification
<1>8. Modified(G_baseline, mod) = h
  BY DEF Modified
<1> HIDE DEF mod, h, restores, succ
<1>9. /\ c.intervention_type = "add_edge" /\ c.node_id = u /\ c.target_node_id = succ
      /\ c.link = mod /\ c.restores_supply_path = restores /\ c.outcome = worth
  BY <1>6
<1>10. Modification(c) = mod
  BY <1>9 DEF Modification
<1>11. Promised(rows, c) = h
  BY <1>8, <1>10 DEF Promised
<1>12. restores => Supplied(h, worth.failed, succ)
  BY ReachIsSupplied DEF restores
<1>13. IsCard(rows, sim, c)
  <2> DEFINE run == Rerun(h, sim.initial_failures)
  <2>1. /\ worth.failed = run.failed
        /\ worth.failures_prevented = sim.total_failed - Cardinality(run.failed)
        /\ worth.raw_population_saved = People(rows, sim.failed) - People(rows, run.failed)
        /\ worth.efficiency_gain = Efficiency(h, Node \ run.failed) - sim.efficiency_after
        /\ worth.protects_critical_services <=>
             HospitalsIn(rows, sim.failed) \ run.failed # {}
    BY ScoreIs DEF worth
  <2> HIDE DEF run
  <2> QED
    BY <1>1, <1>4, <1>5, <1>7, <1>9, <1>10, <1>11, <1>12, <2>1 DEF IsCard, run, succ
<1> QED
  BY <1>9, <1>13 DEF c, succ

LEMMA CardFacts ==
  ASSUME NEW r, IsRows(r), NEW s, IsRun(r, s), NEW c, IsCard(r, s, c)
  PROVE  /\ HasKey(c) /\ c.intervention_type \in Interventions
         /\ c.outcome.failed \subseteq Node
<1> DEFINE h == Promised(r, c)
           run == Rerun(h, s.initial_failures)
<1>1. /\ c.outcome.failed = run.failed
      /\ c.outcome.failures_prevented = s.total_failed - Cardinality(run.failed)
      /\ c.outcome.raw_population_saved = People(r, s.failed) - People(r, run.failed)
      /\ c.outcome.efficiency_gain = Efficiency(h, Node \ run.failed) - s.efficiency_after
      /\ c.node_id \in Node /\ c.intervention_type \in Interventions
      /\ c.target_node_id = 0 \/ c.target_node_id \in Node
  BY DEF IsCard, Interventions
<1>2. /\ run.failed \in SUBSET Node /\ Cardinality(run.failed) \in Nat
  BY CascadeFacts DEF IsRun
<1>3. s.failed \in SUBSET Node /\ s.total_failed \in Nat /\ s.efficiency_after \in Nat
  BY RunFacts
<1>4. Efficiency(h, Node \ run.failed) \in Nat
  BY EfficiencyIsNat
<1> HIDE DEF h, run
<1>5. People(r, s.failed) \in Nat /\ People(r, run.failed) \in Nat
  BY <1>2, <1>3, BuildIsGraph, PeopleAreNat
<1> QED
  BY <1>1, <1>2, <1>3, <1>4, <1>5, IdsAreNumbers DEF HasKey

-------------------------------------------------------------------------------
(* The steps. *)

LEMMA InvInit == Init => Inv
<1> SUFFICES ASSUME Init PROVE Inv
  OBVIOUS
<1> USE DEF Init
<1>1. RunsInv
  BY BoundsAssumption DEF RunsInv, Phases
<1>2. SearchInv
  BY FS_EmptySet DEF SearchInv
<1>3. CardsInv /\ PromiseIsKept /\ SupplyIsRestored
  BY DEF CardsInv, PromiseIsKept, SupplyIsRestored
<1>4. OffersInv
  BY BoundsAssumption DEF OffersInv
<1> QED
  BY <1>1, <1>2, <1>3, <1>4 DEF Inv

LEMMA RowsAre ==
  ASSUME rows \in Networks
  PROVE  IsRows(rows) /\ build_graph(rows) \in Graphs(rows)
  BY RunsAssumption, BuildIsGraph

LEMMA FirstRunStep == Inv /\ FirstRun => Inv'
<1> SUFFICES ASSUME Inv, FirstRun PROVE Inv'
  OBVIOUS
<1> USE DEF FirstRun
<1>0. rows \in Networks /\ IsRows(rows) /\ promise = None /\ todo = <<>> /\ ran = 0
  BY RowsAre DEF Inv, RunsInv, SearchInv
<1>1. PICK initial \in InitialFailures, mods \in UserScenarios : sim' = Task(rows, mods, initial)
  BY RunTaskIs
<1>2. initial # {} /\ initial \in SUBSET Node /\ IsScenario(mods)
  BY RunsAssumption
<1>3. IsRun(rows, sim')
  <2> DEFINE s == Task(rows, mods, initial)
  <2>1. s.initial_failures = initial /\ s.modifications = mods
    BY DEF Task
  <2> HIDE DEF s
  <2> QED
    BY <1>1, <1>2, <2>1 DEF IsRun, s
<1>4. RunsInv'
  BY <1>0, <1>3, BoundsAssumption DEF RunsInv, Phases
<1>5. SearchInv'
  BY <1>0 DEF Inv, SearchInv
<1>6. CardsInv' /\ OffersInv'
  BY DEF Inv, CardsInv, OffersInv
<1>7. PromiseIsKept' /\ SupplyIsRestored'
  BY <1>0 DEF PromiseIsKept, SupplyIsRestored
<1> QED
  BY <1>4, <1>5, <1>6, <1>7 DEF Inv

LEMMA GetRecommendationsStep == Inv /\ GetRecommendations => Inv'
<1> SUFFICES ASSUME Inv, GetRecommendations PROVE Inv'
  OBVIOUS
<1> USE DEF GetRecommendations
<1>1. RunsInv'
  BY DEF Inv, RunsInv, Phases
<1>2. phase' = "upgrades" => Len(sim.waves) > 1
  <2>1. IsRun(rows, sim) /\ IsRows(rows)
    BY RowsAre DEF Inv, RunsInv
  <2>2. sim.waves \in Seq(SUBSET Node)
    BY <2>1, RunFacts
  <2>3. Len(sim.waves) \in Nat
    BY <2>2, LenProperties
  <2> QED
    BY <2>3 DEF NothingToMitigate
<1>3. SearchInv'
  BY <1>2, FS_EmptySet DEF SearchInv
<1>4. CardsInv' /\ PromiseIsKept' /\ SupplyIsRestored'
  BY DEF CardsInv, PromiseIsKept, SupplyIsRestored
<1>5. OffersInv'
  BY BoundsAssumption DEF OffersInv
<1> QED
  BY <1>1, <1>3, <1>4, <1>5 DEF Inv

LEMMA ScoreUpgradesStep == Inv /\ ScoreUpgrades => Inv'
<1> SUFFICES ASSUME Inv, ScoreUpgrades PROVE Inv'
  OBVIOUS
<1> USE DEF ScoreUpgrades
<1>1. /\ IsRows(rows) /\ IsRun(rows, sim) /\ G_baseline = build_graph(rows)
      /\ Len(sim.waves) > 1
  BY RowsAre DEF Inv, RunsInv, SearchInv
<1>2. /\ sim.failed \in SUBSET Node /\ sim.waves \in Seq(SUBSET Node)
  BY <1>1, RunFacts
<1>3. Wave1 \in SUBSET Node
  <2>1. sim.waves[2] \in SUBSET Node
    <3>1. 2 \in 1 .. Len(sim.waves)
      BY <1>1, <1>2, LenProperties
    <3> QED
      BY <1>2, <3>1, ElementOfSeq
  <2> QED
    BY <2>1 DEF Wave1
<1>4. PICK central \in TopCentral :
        scored' = {c \in {Upgrade(v) : v \in Wave1 \cup central} :
                     c.outcome.failures_prevented > 0 \/ c.outcome.raw_population_saved > 0}
  OBVIOUS
<1>5. Wave1 \cup central \in SUBSET Node
  <2>1. central \in SUBSET Node
    BY <1>2 DEF TopCentral, kSubset
  <2> QED
    BY <1>3, <2>1
<1>6. \A c \in scored' : \E v \in Node : c = Upgrade(v)
  BY <1>4, <1>5
<1>7. IsFiniteSet(scored')
  <2> DEFINE T == {Upgrade(v) : v \in Node}
             f == [v \in Node |-> Upgrade(v)]
  <2>1. f \in Surjection(Node, T)
    BY DEF Surjection
  <2>2. IsFiniteSet(T)
    <3> HIDE DEF f, T
    <3> QED
      BY <2>1, NodeAssumption, FS_Surjection
  <2>3. scored' \in SUBSET T
    BY <1>6
  <2> HIDE DEF T
  <2> QED
    BY <2>2, <2>3, FS_Subset
<1>8. \A c \in scored' : IsCard(rows, sim, c) /\ c.target_node_id = 0 /\ c = Upgrade(c.node_id)
  BY <1>1, <1>6, UpgradeIsCard
<1>9. todo' \in Seq(LostPairs(rows))
  <2>1. LostLinks \in SUBSET (Node \X Node) /\ LostLinks \in SUBSET LostPairs(rows)
    BY <1>1, <1>3 DEF LostLinks, LostPairs
  <2>2. todo' \in Seq(LostLinks)
    BY <2>1, LinksInOrder
  <2> QED
    BY <2>1, <2>2, SeqMonotonic
<1>10. RunsInv'
  BY DEF Inv, RunsInv, Phases
<1>11. SearchInv'
  <2>1. \A c \in scored' : c.intervention_type \in Interventions /\ c.outcome.failed \subseteq Node
    BY <1>1, <1>8, CardFacts
  <2> QED
    BY <1>7, <1>9, <2>1 DEF Inv, SearchInv
<1>12. CardsInv'
  BY <1>8 DEF CardsInv, AreDistinct
<1>13. OffersInv' /\ PromiseIsKept' /\ SupplyIsRestored'
  BY DEF Inv, OffersInv, PromiseIsKept, SupplyIsRestored
<1> QED
  BY <1>10, <1>11, <1>12, <1>13 DEF Inv

LEMMA ScoreLinkStep == Inv /\ ScoreLink => Inv'
<1> SUFFICES ASSUME Inv, ScoreLink PROVE Inv'
  OBVIOUS
<1> USE DEF ScoreLink
<1> DEFINE p == Head(todo)
           w1 == Head(todo)[1]
           succ == Head(todo)[2]
           donors == Donors(w1, succ)
           top == ToSet(SubSeq(donors, 1, Least(2, Len(donors))))
           new == {c \in {Redundancy(u, w1, succ) : u \in top} : Accepted(c.outcome)}
<1>1. /\ IsRows(rows) /\ IsRun(rows, sim) /\ G_baseline = build_graph(rows)
      /\ todo \in Seq(LostPairs(rows)) /\ todo # <<>>
  BY RowsAre DEF Inv, RunsInv, SearchInv
<1>2. p \in LostPairs(rows) /\ Tail(todo) \in Seq(LostPairs(rows))
  BY <1>1, HeadTailProperties
<1>3. p \in Node \X Node /\ w1 \in Node /\ succ \in Node /\ succ # 0
  <2>1. p \in Node \X Node
    BY <1>2 DEF LostPairs
  <2> QED
    BY <2>1, IdsAreNumbers
<1>4. tested' = tested \cup top \X {succ} /\ scored' = scored \cup new
  OBVIOUS
<1> HIDE DEF w1, succ
<1>5. Able(w1, succ) \in SUBSET Node
  BY ReachIsSupplied DEF Able
<1>6. top \in SUBSET Able(w1, succ)
  <2>1. donors \in Seq(Able(w1, succ))
    BY <1>1, <1>5, BuildIsGraph, GraphIsRecord, DonorsInOrder
  <2> HIDE DEF donors
  <2>2. Len(donors) \in Nat /\ Least(2, Len(donors)) \in Nat /\ Least(2, Len(donors)) <= Len(donors)
    BY <2>1, LenProperties DEF Least
  <2> DEFINE n == Least(2, Len(donors))
  <2>3. SubSeq(donors, 1, n) \in Seq(Able(w1, succ))
    <3>1. \A i \in 1 .. n : donors[i] \in Able(w1, succ)
      BY <2>1, <2>2, ElementOfSeq
    <3> HIDE DEF n
    <3>2. \A i \in 1 .. Len(donors) : donors[i] \in Able(w1, succ)
      BY <2>1, ElementOfSeq
    <3> QED
      BY <2>1, <2>2, SubSeqProperties DEF n
  <2> DEFINE few == SubSeq(donors, 1, n)
  <2> HIDE DEF few, n
  <2>4. \A i \in DOMAIN few : few[i] \in Able(w1, succ)
    BY <2>3, LenProperties, ElementOfSeq DEF few
  <2> QED
    BY <2>4 DEF ToSet, few, n
<1> HIDE DEF top
<1>7. \A c \in new : \E u \in top : c = Redundancy(u, w1, succ)
  OBVIOUS
<1>8. ASSUME NEW u \in top
      PROVE  LET c == Redundancy(u, w1, succ)
             IN  IsCard(rows, sim, c) /\ c.node_id = u /\ c.target_node_id = succ
  BY <1>1, <1>2, <1>6, RedundancyIsCard DEF w1, succ
<1>9. \A u \in top : u \in Node /\ <<u, succ>> \notin tested
  BY <1>5, <1>6 DEF Able
<1>10. IsFiniteSet(new)
  <2> DEFINE T == {Redundancy(u, w1, succ) : u \in top}
             f == [u \in top |-> Redundancy(u, w1, succ)]
  <2>1. f \in Surjection(top, T)
    BY DEF Surjection
  <2>2. IsFiniteSet(top)
    BY <1>5, <1>6, NodeAssumption, FS_Subset
  <2>3. new \in SUBSET T
    OBVIOUS
  <2> HIDE DEF T, f, new
  <2> QED
    BY <2>1, <2>2, <2>3, FS_Surjection, FS_Subset
<1>11. \A c \in new : /\ IsCard(rows, sim, c) /\ c.node_id \in top /\ c.target_node_id = succ
                      /\ c = Redundancy(c.node_id, w1, succ)
  BY <1>7, <1>8
<1> HIDE DEF new
<1>12. RunsInv'
  BY DEF Inv, RunsInv, Phases
<1>13. SearchInv'
  <2>1. \A c \in new : c.intervention_type \in Interventions /\ c.outcome.failed \subseteq Node
    BY <1>1, <1>11, CardFacts
  <2>2. IsFiniteSet(scored')
    <3>1. IsFiniteSet(scored)
      BY DEF Inv, SearchInv
    <3>2. IsFiniteSet(scored \cup new)
      BY <1>10, <3>1, FS_Union
    <3> QED
      BY <1>4, <3>2
  <2>3. tested' \in SUBSET (Node \X Node)
    BY <1>3, <1>4, <1>9 DEF Inv, SearchInv
  <2>4. \A c \in scored' : c.intervention_type \in Interventions /\ c.outcome.failed \subseteq Node
    BY <1>4, <2>1 DEF Inv, SearchInv
  <2> QED
    BY <1>2, <2>2, <2>3, <2>4 DEF SearchInv
<1>14. CardsInv'
  <2>1. \A c \in scored : /\ IsCard(rows, sim, c)
                          /\ c.target_node_id # 0 => <<c.node_id, c.target_node_id>> \in tested
    BY DEF Inv, CardsInv
  <2>2. AreDistinct(scored)
    BY DEF Inv, CardsInv
  <2>3. \A c \in new : <<c.node_id, c.target_node_id>> \in tested'
    BY <1>4, <1>11
  <2>4. AreDistinct(scored')
    <3>1. \A c \in new, d \in scored :
            ~ (c.node_id = d.node_id /\ c.target_node_id = d.target_node_id)
      BY <1>3, <1>9, <1>11, <2>1
    <3>2. \A c, d \in new : c.node_id = d.node_id => c = d
      BY <1>11
    <3> QED
      BY <1>4, <2>2, <3>1, <3>2 DEF AreDistinct
  <2> QED
    BY <1>4, <1>11, <2>1, <2>3, <2>4 DEF CardsInv
<1>15. OffersInv' /\ PromiseIsKept' /\ SupplyIsRestored'
  BY DEF Inv, OffersInv, PromiseIsKept, SupplyIsRestored
<1> QED
  BY <1>12, <1>13, <1>14, <1>15 DEF Inv

LEMMA RankStep == Inv /\ Rank => Inv'
<1> SUFFICES ASSUME Inv, Rank PROVE Inv'
  OBVIOUS
<1> USE DEF Rank
<1> DEFINE ranked == InOrder(scored, RankedBefore)
           n == Least(Limit, Len(ranked))
<1>1. /\ IsRows(rows) /\ IsRun(rows, sim) /\ IsFiniteSet(scored) /\ AreDistinct(scored)
      /\ \A c \in scored : IsCard(rows, sim, c)
  BY RowsAre DEF Inv, RunsInv, SearchInv, CardsInv
<1>2. ranked \in Seq(scored)
  <2>1. \A c \in scored : HasKey(c)
    BY <1>1, CardFacts
  <2> QED
    BY <1>1, <2>1, CardsInOrder
<1>3. recs' = [i \in 1 .. n |-> Synthesize(ranked[i])]
  OBVIOUS
<1> HIDE DEF ranked
<1>4. n \in Nat /\ n <= Limit /\ n <= Len(ranked)
  BY <1>2, LenProperties, BoundsAssumption DEF Least
<1> HIDE DEF n
<1>5. ASSUME NEW i \in 1 .. n PROVE IsOffer(rows, sim, recs'[i])
  <2>1. i \in 1 .. Len(ranked)
    <3>1. Len(ranked) \in Nat
      BY <1>2, LenProperties
    <3> QED
      BY <1>4, <3>1
  <2>2. ranked[i] \in scored
    BY <1>2, <2>1, ElementOfSeq
  <2> DEFINE c == ranked[i]
             cause == Diagnose(Patient(c))
             kind == MitigationFor(Patient(c), cause, c.intervention_type)
             payload == [modifications |-> <<Modification(c)>>,
                         initial_failures |-> sim.initial_failures]
  <2>3. recs'[i] = Synthesize(c)
    BY <1>3
  <2>4. Synthesize(c) = [candidate |-> c, root_cause |-> cause, mitigation_kind |-> kind,
                         scenario_payload |-> payload]
    BY DEF Synthesize
  <2> HIDE DEF cause, kind, payload, c
  <2>5. recs'[i].candidate = c /\ recs'[i].scenario_payload = payload
    BY <2>3, <2>4
  <2> QED
    BY <1>1, <2>2, <2>5 DEF IsOffer, payload, c
<1>6. Len(recs') = n /\ DOMAIN recs' = 1 .. n
  <2> DEFINE S == {Synthesize(ranked[i]) : i \in 1 .. n}
  <2>1. recs' \in [1 .. n -> S]
    BY <1>3
  <2> HIDE DEF S
  <2>2. Len(recs') = n
    BY <1>4, <2>1, ListIsSeq
  <2> QED
    BY <1>3, <2>2
<1>7. RunsInv'
  BY DEF Inv, RunsInv, Phases
<1>8. SearchInv'
  BY DEF Inv, SearchInv
<1>9. OffersInv'
  BY <1>4, <1>5, <1>6 DEF OffersInv
<1>10. CardsInv' /\ PromiseIsKept' /\ SupplyIsRestored'
  BY DEF CardsInv, PromiseIsKept, SupplyIsRestored
<1> QED
  BY <1>7, <1>8, <1>9, <1>10 DEF Inv

\* What t says of the cascade of the graph h.
Tells(r, h, initial, t) ==
  LET run == CascadeOn(h, initial)
  IN  /\ t.failed = run.failed /\ t.total_failed = Cardinality(run.failed)
      /\ t.population.raw_population_affected = People(r, run.failed)
      /\ t.efficiency_after = Efficiency(h, Node \ run.failed)

LEMMA TaskTells ==
  ASSUME NEW r, IsRows(r), NEW mods, IsScenario(mods), NEW initial \in SUBSET Node
  PROVE  Tells(r, GraphOf(r, mods), initial, Task(r, mods, initial))
  BY TaskFacts DEF Tells

\* The payload of a card, run on the network the card was made for.
LEMMA RunOfPayload ==
  ASSUME NEW r, IsRows(r), NEW s, IsRun(r, s), NEW c, IsCard(r, s, c)
  PROVE  LET mods == <<Modification(c)>>
             t == Task(r, mods, s.initial_failures)
         IN  /\ IsRun(r, t) /\ t.modifications = mods
             /\ t.initial_failures = s.initial_failures
             /\ GraphOf(r, mods) = Promised(r, c)
             /\ Tells(r, Promised(r, c), s.initial_failures, t)
<1> DEFINE mods == <<Modification(c)>>
           t == Task(r, mods, s.initial_failures)
<1>1. IsModification(Modification(c))
  BY DEF IsCard
<1>2. IsScenario(mods) /\ Len(mods) = 1 /\ mods[1] = Modification(c)
  BY <1>1 DEF IsScenario
<1> HIDE DEF mods
<1>3. GraphOf(r, mods) = Promised(r, c)
  BY <1>2, BuildIsGraph, ScenarioIsGraph DEF GraphOf, Promised
<1>4. t.initial_failures = s.initial_failures /\ t.modifications = mods
  BY DEF Task
<1>5. s.initial_failures # {} /\ s.initial_failures \in SUBSET Node
  BY DEF IsRun
<1>6. Tells(r, GraphOf(r, mods), s.initial_failures, t)
  BY <1>2, <1>5, TaskTells
<1> HIDE DEF t
<1>7. IsRun(r, t)
  <2>1. t = Task(r, t.modifications, t.initial_failures)
    BY <1>4 DEF t
  <2> QED
    BY <1>2, <1>4, <1>5, <2>1 DEF IsRun
<1> QED
  BY <1>3, <1>4, <1>6, <1>7 DEF t, mods

LEMMA ApplyOneStep == Inv /\ ApplyOne => Inv'
<1> SUFFICES ASSUME Inv, ApplyOne PROVE Inv'
  OBVIOUS
<1> USE DEF ApplyOne
<1>1. PICK i \in DOMAIN recs :
        /\ sim' = RunTask(recs[i].scenario_payload.modifications,
                          recs[i].scenario_payload.initial_failures)
        /\ promise' = [rec |-> recs[i], made_for |-> sim]
  OBVIOUS
<1> DEFINE c == recs[i].candidate
           mods == <<Modification(c)>>
           h == Promised(rows, c)
           run == Rerun(h, sim.initial_failures)
<1>2. /\ IsRows(rows) /\ IsRun(rows, sim) /\ G_baseline = build_graph(rows)
      /\ IsOffer(rows, sim, recs[i])
  BY RowsAre DEF Inv, RunsInv, OffersInv
<1>3. IsCard(rows, sim, c) /\ sim' = Task(rows, mods, sim.initial_failures)
  BY <1>1, <1>2, RunTaskIs DEF IsOffer
<1>4. /\ IsRun(rows, sim') /\ sim'.modifications = mods
      /\ sim'.initial_failures = sim.initial_failures
      /\ GraphOf(rows, mods) = h /\ Tells(rows, h, sim.initial_failures, sim')
  <2> DEFINE t == Task(rows, mods, sim.initial_failures)
  <2>1. /\ IsRun(rows, t) /\ t.modifications = mods
        /\ t.initial_failures = sim.initial_failures
        /\ GraphOf(rows, mods) = h /\ Tells(rows, h, sim.initial_failures, t)
    BY <1>2, <1>3, RunOfPayload
  <2> HIDE DEF t, mods, h
  <2> QED
    BY <1>3, <2>1 DEF t
<1>5. promise'.rec.candidate = c /\ promise'.made_for = sim
  BY <1>1
<1>6. RunsInv'
  BY <1>2, <1>4, BoundsAssumption DEF Inv, RunsInv, Phases
<1>7. SearchInv' /\ CardsInv' /\ OffersInv'
  BY DEF Inv, SearchInv, CardsInv, OffersInv
<1>8. GuardrailsAgree' => CascadeOn(h, sim.initial_failures) = run
  <2>1. apply_scenario_modifications(build_graph(rows'), sim'.modifications) = h
    BY <1>4 DEF GraphOf
  <2> HIDE DEF h, mods
  <2>2. GuardrailsAgree' => StopAlike(h, sim.initial_failures)
    BY <1>4, <2>1 DEF GuardrailsAgree, StopAlike
  <2> QED
    BY <2>2, RerunIsRun
<1>9. GuardrailsAgree' =>
        /\ sim'.total_failed = Cardinality(run.failed) /\ sim'.failed = run.failed
        /\ sim'.population.raw_population_affected = People(rows, run.failed)
        /\ sim'.efficiency_after = Efficiency(h, Node \ run.failed)
  <2> HIDE DEF run, h
  <2> QED
    BY <1>4, <1>8 DEF Tells
<1>10. PromiseIsKept'
  <2> DEFINE hospitals == HospitalsIn(rows, sim.failed)
             made == c.outcome
  <2>1. /\ made.failures_prevented = sim.total_failed - Cardinality(run.failed)
        /\ made.raw_population_saved = People(rows, sim.failed) - People(rows, run.failed)
        /\ made.efficiency_gain = Efficiency(h, Node \ run.failed) - sim.efficiency_after
        /\ made.protects_critical_services <=> hospitals \ run.failed # {}
    BY <1>3 DEF IsCard
  <2>2. sim.population.raw_population_affected = People(rows, sim.failed)
    BY <1>2, RunFacts
  <2>3. Hospitals(promise.made_for.failed)' = hospitals
    <3>1. Hospitals(sim.failed) = hospitals
      BY <1>2, HospitalsAre
    <3> QED
      BY <1>5, <3>1 DEF Hospitals
  <2> HIDE DEF hospitals, run, h, c
  <2> QED
    BY <1>5, <1>9, <2>1, <2>2, <2>3 DEF PromiseIsKept
<1>11. SupplyIsRestored'
  <2>1. c.restores_supply_path => Supplied(h, run.failed, c.target_node_id)
    BY <1>3 DEF IsCard
  <2>2. apply_scenario_modifications(build_graph(rows'), sim'.modifications) = h
    BY <1>4 DEF GraphOf
  <2> HIDE DEF run, h, c, mods
  <2> QED
    BY <1>5, <1>9, <2>1, <2>2 DEF SupplyIsRestored
<1> QED
  BY <1>6, <1>7, <1>10, <1>11 DEF Inv

LEMMA InvStep == Inv /\ [Next]_vars => Inv'
<1> SUFFICES ASSUME Inv, [Next]_vars PROVE Inv'
  OBVIOUS
<1>1. CASE Next
  BY <1>1, FirstRunStep, GetRecommendationsStep, ScoreUpgradesStep, ScoreLinkStep, RankStep,
     ApplyOneStep DEF Next
<1>2. CASE UNCHANGED vars
  BY <1>2 DEF vars, Inv, RunsInv, SearchInv, CardsInv, OffersInv, PromiseIsKept,
     SupplyIsRestored, Hospitals, GuardrailsAgree
<1> QED
  BY <1>1, <1>2

\* The search has its invariant: a card describes the run of its payload under
\* run_cascade's own guardrail, and what was applied has kept its word where the
\* worker's makes no difference (recommendations.py:333-376, runner.py:141-147).
THEOREM Invariance == Spec => []Inv
  BY InvInit, InvStep, PTL DEF Spec

-------------------------------------------------------------------------------
(* Theorems *)

LEMMA TypesHold == Inv => TypeOK
<1> SUFFICES ASSUME Inv PROVE TypeOK
  OBVIOUS
<1>1. IsRows(rows) /\ build_graph(rows) \in Graphs(rows)
  BY RowsAre DEF Inv, RunsInv
<1>2. IsNetwork(AsNetwork(build_graph(rows)))
  BY <1>1, GraphIsNetwork
<1>3. ASSUME sim # None
      PROVE  /\ sim.initial_failures \subseteq sim.failed /\ sim.failed \subseteq Node
             /\ IsNetwork(AsNetwork(apply_scenario_modifications(build_graph(rows),
                                                                 sim.modifications)))
  <2>1. IsRun(rows, sim)
    BY <1>3 DEF Inv, RunsInv
  <2> QED
    BY <1>1, <2>1, RunFacts DEF GraphOf
<1>4. todo \in Seq(Node \X Node)
  <2>1. LostPairs(rows) \in SUBSET (Node \X Node)
    BY DEF LostPairs
  <2>2. todo \in Seq(LostPairs(rows)) \/ todo = <<>>
    BY DEF Inv, SearchInv
  <2> QED
    BY <2>1, <2>2, SeqMonotonic, EmptySeq
<1> QED
  BY <1>2, <1>3, <1>4 DEF Inv, RunsInv, SearchInv, OffersInv, TypeOK, Phases

\* Every variable of the engine has its type, and the graph of every run, with
\* the modifications of its scenario, is a network the cascade is defined on.
THEOREM Types == Spec => []TypeOK
  BY Invariance, TypesHold, PTL

LEMMA OffersAreAccepted ==
  ASSUME NEW r, NEW s, IsRun(r, s), NEW rec, IsOffer(r, s, rec),
         CanBePosted(rec.candidate)
  PROVE  ScenarioAccepted(rec.scenario_payload)
<1> DEFINE c == rec.candidate
           mod == Modification(c)
           payload == rec.scenario_payload
<1>1. /\ IsCard(r, s, c)
      /\ payload = [modifications |-> <<mod>>, initial_failures |-> s.initial_failures]
  BY DEF IsOffer
<1>2. payload.modifications = <<mod>> /\ payload.initial_failures = s.initial_failures
  BY <1>1
<1>3. s.initial_failures # {} /\ s.initial_failures \subseteq Node
  BY DEF IsRun
<1> HIDE DEF payload
<1>4. DOMAIN <<mod>> = {1} /\ <<mod>>[1] = mod
  OBVIOUS
<1>5. CASE c.intervention_type = "add_edge"
  <2>1. mod = c.link /\ c.link.type = "add_edge" /\ c.link.source # c.link.target
        /\ IsModification(mod)
    BY <1>1, <1>5 DEF IsCard, Modification
  <2>2. /\ mod.type = "add_edge" /\ mod.source \in Node /\ mod.target \in Node
        /\ mod.edge_type \in PostedEdgeType /\ mod.capacity > 0 /\ mod.weight >= 0
    BY <2>1 DEF IsModification
  <2>3. mod.capacity <= MaxPosted /\ mod.weight <= MaxPosted
    BY <1>5, <2>1 DEF CanBePosted
  <2> HIDE DEF mod
  <2> QED
    BY <1>2, <1>3, <1>4, <2>1, <2>2, <2>3 DEF ScenarioAccepted, payload
<1>6. CASE c.intervention_type = "upgrade_node"
  <2> DEFINE given == [capacity |-> c.proposed_capacity]
  <2>1. mod = [type |-> "upgrade_node", node_id |-> c.node_id, fields |-> given]
    BY <1>6 DEF Modification
  <2>2. /\ given.capacity > 0 /\ DOMAIN given = {"capacity"} /\ c.node_id \in Node
        /\ given.capacity <= MaxPosted
    BY <1>1, <1>6 DEF IsCard, CanBePosted
  <2> HIDE DEF given, mod
  <2>3. mod.type = "upgrade_node" /\ mod.node_id = c.node_id /\ mod.fields = given
    BY <2>1
  <2> QED
    BY <1>2, <1>3, <1>4, <2>2, <2>3 DEF ScenarioAccepted, payload
<1> QED
  BY <1>1, <1>5, <1>6 DEF IsCard

LEMMA PromisesHold == Inv => PromisesAreKept
<1> SUFFICES ASSUME Inv PROVE PromisesAreKept
  OBVIOUS
<1>1. ASSUME phase = "offered", NEW i \in DOMAIN recs,
             CanBePosted(recs[i].candidate)
      PROVE  ScenarioAccepted(recs[i].scenario_payload)
  BY <1>1, OffersAreAccepted DEF Inv, RunsInv, OffersInv
<1> QED
  BY <1>1 DEF Inv, PromiseIsKept, PromisesAreKept

\* What a card promises is what the worker's run of its payload brings: the
\* scenario is accepted, unless the capacity or the weight is too large to be
\* posted, and, unless the worker's guardrail and that of the rerun set them
\* apart, the two runs differ by exactly the failures, the people, the
\* efficiency and the hospitals promised.
THEOREM Promises == Spec => []PromisesAreKept
  BY Invariance, PromisesHold, PTL

LEMMA SupplyHolds == Inv => SupplyClaimsAreTrue
<1> SUFFICES ASSUME Inv PROVE SupplyClaimsAreTrue
  OBVIOUS
<1>1. ASSUME phase = "offered", NEW i \in DOMAIN recs,
             recs[i].candidate.intervention_type = "add_edge"
      PROVE  Supplied(G_baseline, sim.failed, recs[i].candidate.node_id)
  <2>1. IsCard(rows, sim, recs[i].candidate) /\ G_baseline = build_graph(rows)
    BY <1>1 DEF Inv, RunsInv, OffersInv, IsOffer
  <2> QED
    BY <1>1, <2>1 DEF IsCard
<1> QED
  BY <1>1 DEF Inv, SupplyIsRestored, SupplyClaimsAreTrue

\* Whoever is asked to donate a supply has one, and a card that says it
\* restores a supply path does so in the run of its payload, unless the guardrails
\* set that apart from the rerun.
THEOREM SupplyClaims == Spec => []SupplyClaimsAreTrue
  BY Invariance, SupplyHolds, PTL

-------------------------------------------------------------------------------
(* The people: every resident of the areas of the failed assets counts     *)
(* once, with the density of the densest asset that serves his cell.        *)

AreasAre(g) == g.population_served \in [Node -> Nat]

(* The sets of assets that are on the map with their areas.                 *)
LocatedSets(g) ==
  {L \in SUBSET Node : \A v \in L : /\ IsFiniteSet(g.area[v]) /\ g.area[v] # {}
                                   /\ AreaUnit % Cardinality(g.area[v]) = 0}

(* Rounding keeps the order, and whole numbers.                             *)
LEMMA RoundIsMonotone ==
  ASSUME NEW n \in Nat, NEW m \in Nat, n <= m, NEW d \in Nat \ {0}
  PROVE  Round(n, d) <= Round(m, d)
<1> DEFINE p == n \div d
           q == m \div d
           r == n % d
           s == m % d
<1>1. p \in Nat /\ q \in Nat /\ r \in Nat /\ s \in Nat
  BY DivisionIs
<1>2. r < d /\ s < d /\ n = d * p + r /\ m = d * q + s
  BY DivisionIs
<1>3. /\ Round(n, d) = IF 2 * r < d \/ (2 * r = d /\ p % 2 = 0) THEN p ELSE p + 1
      /\ Round(m, d) = IF 2 * s < d \/ (2 * s = d /\ q % 2 = 0) THEN q ELSE q + 1
  BY DEF Round
<1> HIDE DEF p, q, r, s
<1>4. p < q \/ (p = q /\ r <= s)
  <2>1. d * p + r <= d * q + s
    BY <1>2
  <2> QED
    BY <1>1, <1>2, <2>1, QuotientsInOrder
<1>5. CASE p < q
  BY <1>1, <1>3, <1>5
<1>6. CASE p = q /\ r <= s
  BY <1>1, <1>3, <1>6
<1> QED
  BY <1>4, <1>5, <1>6

LEMMA RoundOfWhole ==
  ASSUME NEW k \in Nat, NEW d \in Nat \ {0}
  PROVE  Round(k * d, d) = k
<1> DEFINE n == k * d
           q == n \div d
           r == n % d
<1>0. n \in Nat
  OBVIOUS
<1>1. q \in Nat /\ r \in Nat /\ r < d /\ n = d * q + r
  BY <1>0, DivisionIs
<1>2. d * k + 0 = d * q + r
  BY <1>1
<1>3. Round(n, d) = IF 2 * r < d \/ (2 * r = d /\ q % 2 = 0) THEN q ELSE q + 1
  BY DEF Round
<1> HIDE DEF n, q, r
<1>4. k < q \/ (k = q /\ 0 <= r)
  <2>1. d * k + 0 <= d * q + r
    BY <1>1, <1>2
  <2> QED
    BY <1>1, <2>1, QuotientsInOrder
<1>5. q < k \/ (k = q /\ r <= 0)
  <2>1. d * q + r <= d * k + 0
    BY <1>1, <1>2
  <2> QED
    BY <1>1, <2>1, QuotientsInOrder
<1>6. k = q /\ r = 0
  BY <1>1, <1>4, <1>5
<1>7. Round(n, d) = k
  BY <1>3, <1>6
<1> QED
  BY <1>7 DEF n

(* The residents of an area are as many as its cells are dense.             *)
LEMMA DensityFacts ==
  ASSUME NEW g, AreasAre(g), NEW L \in LocatedSets(g), NEW v \in L
  PROVE  /\ Density(g, v) \in Nat
         /\ Density(g, v) * Cardinality(g.area[v]) = g.population_served[v] * AreaUnit
<1> DEFINE k == Cardinality(g.area[v])
           u == AreaUnit \div k
           rest == AreaUnit % k
           pop == g.population_served[v]
<1>1. k \in Nat \ {0} /\ pop \in Nat
  <2>1. IsFiniteSet(g.area[v]) /\ g.area[v] # {}
    BY DEF LocatedSets
  <2>2. k \in Nat \ {0}
    BY <2>1, FS_CardinalityType, FS_EmptySet
  <2>3. v \in Node
    BY DEF LocatedSets
  <2> HIDE DEF k
  <2> QED
    BY <2>2, <2>3 DEF AreasAre
<1>2. u \in Nat /\ AreaUnit = k * u + rest
  BY <1>1, AreasAssumption, DivisionIs
<1>3. rest = 0
  BY DEF LocatedSets
<1>4. Density(g, v) = pop * u
  BY DEF Density
<1> HIDE DEF k, u, pop, rest
<1>5. AreaUnit = k * u
  <2>1. k * u \in Nat
    BY <1>1, <1>2
  <2> QED
    BY <1>2, <1>3, <2>1
<1>6. (pop * u) * k = pop * (k * u) /\ pop * u \in Nat
  BY <1>1, <1>2
<1> QED
  BY <1>4, <1>5, <1>6 DEF k, pop

LEMMA DensitiesAreNumbers ==
  ASSUME NEW g, AreasAre(g), NEW L \in LocatedSets(g)
  PROVE  \A v \in L : v \in Node /\ Density(g, v) \in Nat
  BY DensityFacts DEF LocatedSets

LEMMA DenserIsAnOrder ==
  ASSUME NEW g, AreasAre(g), NEW L \in LocatedSets(g), NEW x \in L, NEW y \in L
  PROVE  /\ x # y => Denser(g, x, y) \/ Denser(g, y, x)
         /\ ~ (Denser(g, x, y) /\ Denser(g, y, x))
         /\ ~ Denser(g, y, x) => Density(g, y) <= Density(g, x)
         /\ \A z \in L : Denser(g, x, y) /\ Denser(g, y, z) => Denser(g, x, z)
<1>1. \A v \in L : v \in Nat /\ Density(g, v) \in Nat
  BY IdsAssumption, DensitiesAreNumbers
<1> QED
  BY <1>1 DEF Denser

(* Of any assets, one comes first.                                          *)
LEMMA OneComesFirst ==
  ASSUME NEW g, AreasAre(g), NEW L \in LocatedSets(g), NEW T \in SUBSET L, T # {}
  PROVE  \E x \in T : \A y \in T : ~ Denser(g, y, x)
<1> DEFINE First(s) == \E x \in s : \A y \in s : ~ Denser(g, y, x)
           E == {s \in SUBSET T : s = {} \/ First(s)}
<1>1. {} \in E
  OBVIOUS
<1>2. ASSUME NEW s \in E, NEW z \in T \ s PROVE s \cup {z} \in E
  <2>0. ~ Denser(g, z, z)
    BY DenserIsAnOrder
  <2>1. CASE s = {}
    <3>1. s \cup {z} = {z}
      BY <2>1
    <3> QED
      BY <2>0, <3>1
  <2>2. CASE s # {}
    <3>1. PICK x \in s : \A y \in s : ~ Denser(g, y, x)
      BY <2>2
    <3>2. x \in L /\ z \in L /\ s \subseteq L
      OBVIOUS
    <3>3. CASE ~ Denser(g, z, x)
      <4>1. \A y \in s \cup {z} : ~ Denser(g, y, x)
        BY <3>1, <3>3
      <4> QED
        BY <4>1
    <3>4. CASE Denser(g, z, x)
      <4>1. \A y \in s : ~ Denser(g, y, z)
        BY <3>1, <3>2, <3>4, DenserIsAnOrder
      <4>2. \A y \in s \cup {z} : ~ Denser(g, y, z)
        BY <2>0, <4>1
      <4> QED
        BY <4>2
    <3> QED
      BY <3>3, <3>4
  <2> QED
    BY <2>1, <2>2
<1>3. E \in SUBSET (SUBSET T)
  OBVIOUS
<1>4. IsFiniteSet(T)
  BY NodeAssumption, FS_Subset DEF LocatedSets
<1> HIDE DEF E
<1>5. T \in E
  BY <1>1, <1>2, <1>3, <1>4, SubsetInduction
<1> QED
  BY <1>5 DEF E

(* The cells that a set of assets serves, and the density of the densest    *)
(* asset that serves each.                                                  *)
CellsOf(g, L) == UNION {g.area[v] : v \in L}

Highest(g, L) == [c \in CellsOf(g, L) |-> Max({Density(g, v) : v \in {u \in L : c \in g.area[u]}})]

LEMMA HighestIs ==
  ASSUME NEW g, AreasAre(g), NEW L \in LocatedSets(g), NEW x \in L, NEW c \in g.area[x],
         \A y \in L : c \in g.area[y] => Density(g, y) <= Density(g, x)
  PROVE  Highest(g, L)[c] = Density(g, x)
<1> DEFINE T == {Density(g, v) : v \in {u \in L : c \in g.area[u]}}
           top == Density(g, x)
<1>1. c \in CellsOf(g, L)
  BY DEF CellsOf
<1>2. Highest(g, L)[c] = Max(T)
  BY <1>1 DEF Highest
<1>3. T \subseteq Nat /\ top \in T
  BY DensitiesAreNumbers
<1>4. \A d \in T : d <= top
  OBVIOUS
<1> HIDE DEF T, top
<1>5. \A d \in T : top >= d
  BY <1>3, <1>4
<1>6. \A e \in T : (\A d \in T : e >= d) => e = top
  BY <1>3, <1>5
<1>7. Max(T) = top
  BY <1>3, <1>5, <1>6 DEF Max
<1> QED
  BY <1>2, <1>7 DEF top

(* A cell is counted with the density of an asset that serves it, and of no *)
(* less dense a one.                                                        *)
LEMMA EachCellCounts ==
  ASSUME NEW g, AreasAre(g), NEW L \in LocatedSets(g), NEW c \in CellsOf(g, L)
  PROVE  /\ Highest(g, L)[c] \in Nat
         /\ \A y \in L : c \in g.area[y] => Density(g, y) <= Highest(g, L)[c]
         /\ \E x \in L : c \in g.area[x] /\ Highest(g, L)[c] = Density(g, x)
<1> DEFINE T == {v \in L : c \in g.area[v]}
<1>1. T \in SUBSET L /\ T # {}
  BY DEF CellsOf
<1>2. PICK x \in T : \A y \in T : ~ Denser(g, y, x)
  BY <1>1, OneComesFirst
<1>3. \A y \in T : Density(g, y) <= Density(g, x)
  BY <1>1, <1>2, DenserIsAnOrder
<1>4. Highest(g, L)[c] = Density(g, x)
  BY <1>2, <1>3, HighestIs
<1> QED
  BY <1>3, <1>4, DensitiesAreNumbers

LEMMA CellsAreFinite ==
  ASSUME NEW g, AreasAre(g), NEW L \in LocatedSets(g)
  PROVE  IsFiniteSet(CellsOf(g, L))
<1> DEFINE E == {s \in SUBSET L : IsFiniteSet(CellsOf(g, s))}
<1>1. {} \in E
  <2>1. CellsOf(g, {}) = {}
    BY DEF CellsOf
  <2> QED
    BY <2>1, FS_EmptySet
<1>2. ASSUME NEW s \in E, NEW x \in L \ s PROVE s \cup {x} \in E
  <2>1. CellsOf(g, s \cup {x}) = CellsOf(g, s) \cup g.area[x]
    BY DEF CellsOf
  <2>2. IsFiniteSet(CellsOf(g, s)) /\ IsFiniteSet(g.area[x])
    BY DEF LocatedSets
  <2>3. IsFiniteSet(CellsOf(g, s) \cup g.area[x])
    BY <2>2, FS_Union
  <2> QED
    BY <2>1, <2>3
<1>3. E \in SUBSET (SUBSET L) /\ IsFiniteSet(L)
  BY NodeAssumption, FS_Subset DEF LocatedSets
<1> HIDE DEF E
<1>4. L \in E
  BY <1>1, <1>2, <1>3, SubsetInduction
<1> QED
  BY <1>4 DEF E

(* What is left of an area when those before have taken theirs.             *)
Claimed(g, L, v) == UNION {g.area[u] : u \in {w \in L : Denser(g, w, v)}}

Own(g, L) == [v \in L |-> g.area[v] \ Claimed(g, L, v)]

Counted(g, L) == [v \in L |-> Density(g, v) * Cardinality(Own(g, L)[v])]

(* Every cell is claimed once.                                              *)
LEMMA ClaimsAreDisjoint ==
  ASSUME NEW g, AreasAre(g), NEW L \in LocatedSets(g)
  PROVE  /\ \A x, y \in L : x # y => Own(g, L)[x] \cap Own(g, L)[y] = {}
         /\ UNION {Own(g, L)[v] : v \in L} = CellsOf(g, L)
<1>1. ASSUME NEW x \in L, NEW y \in L, x # y PROVE Own(g, L)[x] \cap Own(g, L)[y] = {}
  <2>1. Denser(g, x, y) \/ Denser(g, y, x)
    BY <1>1, DenserIsAnOrder
  <2>2. CASE Denser(g, x, y)
    BY <2>2 DEF Own, Claimed
  <2>3. CASE Denser(g, y, x)
    BY <2>3 DEF Own, Claimed
  <2> QED
    BY <2>1, <2>2, <2>3
<1>2. ASSUME NEW c \in CellsOf(g, L) PROVE \E v \in L : c \in Own(g, L)[v]
  <2> DEFINE T == {v \in L : c \in g.area[v]}
  <2>1. T \in SUBSET L /\ T # {}
    BY DEF CellsOf
  <2>2. PICK x \in T : \A y \in T : ~ Denser(g, y, x)
    BY <2>1, OneComesFirst
  <2>3. c \in Own(g, L)[x]
    BY <2>2 DEF Own, Claimed
  <2> QED
    BY <2>3
<1>3. \A v \in L : Own(g, L)[v] \subseteq CellsOf(g, L)
  BY DEF Own, CellsOf
<1> QED
  BY <1>1, <1>2, <1>3

(* The cells that an asset claims are counted with its density.             *)
LEMMA ClaimedCellsCount ==
  ASSUME NEW g, AreasAre(g), NEW L \in LocatedSets(g), NEW x \in L, NEW c \in Own(g, L)[x]
  PROVE  Highest(g, L)[c] = Density(g, x)
<1>1. c \in g.area[x] /\ \A y \in L : c \in g.area[y] => ~ Denser(g, y, x)
  BY DEF Own, Claimed
<1>2. \A y \in L : c \in g.area[y] => Density(g, y) <= Density(g, x)
  BY <1>1, DenserIsAnOrder
<1> QED
  BY <1>1, <1>2, HighestIs

(* One pass of claims counts every resident once.                           *)
LEMMA OnePassIsEnough ==
  ASSUME NEW g, AreasAre(g), NEW L \in LocatedSets(g)
  PROVE  SumFunctionOnSet(Counted(g, L), L) = SumFunctionOnSet(Highest(g, L), CellsOf(g, L))
<1> DEFINE C == CellsOf(g, L)
           f == Highest(g, L)
           own == Own(g, L)
           w == Counted(g, L)
<1>1. IsFiniteSet(L) /\ IsFiniteSet(C)
  BY NodeAssumption, FS_Subset, CellsAreFinite DEF LocatedSets
<1>2. \A c \in C : f[c] \in Nat
  BY EachCellCounts
<1>3. /\ \A x \in L : own[x] \in SUBSET C
      /\ \A x, y \in L : x # y => own[x] \cap own[y] = {}
      /\ UNION {own[x] : x \in L} = C
  BY ClaimsAreDisjoint
<1>4. ASSUME NEW x \in L PROVE w[x] = SumFunctionOnSet(f, own[x])
  <2>1. w[x] = Density(g, x) * Cardinality(own[x])
    BY DEF Counted
  <2>2. Density(g, x) \in Nat /\ \A c \in own[x] : f[c] = Density(g, x)
    BY DensitiesAreNumbers, ClaimedCellsCount
  <2>3. IsFiniteSet(own[x])
    BY <1>1, <1>3, FS_Subset
  <2> HIDE DEF f, own, w
  <2>4. SumFunctionOnSet(f, own[x]) = Density(g, x) * Cardinality(own[x])
    BY <2>2, <2>3, SumOfEqual
  <2> QED
    BY <2>1, <2>4
<1> HIDE DEF C, f, own, w
<1>5. SumFunctionOnSet(f, UNION {own[x] : x \in L}) = SumFunctionOnSet(w, L)
  BY <1>1, <1>2, <1>3, <1>4, SumOfParts
<1>6. SumFunctionOnSet(w, L) = SumFunctionOnSet(f, C)
  BY <1>3, <1>5
<1> QED
  BY <1>6 DEF C, f, w

(* The residents of the area, times AreaUnit: the sum before it is rounded.  *)
Whole(g, L) == SumFunctionOnSet(Highest(g, L), CellsOf(g, L))

LEMMA ResidentsAreWhole ==
  ASSUME NEW g, NEW L
  PROVE  ResidentsOnce(g, L) = Round(Whole(g, L), AreaUnit)
  BY DEF ResidentsOnce, Whole, Highest, CellsOf

LEMMA DeduplicateIsResidentsOnce ==
  ASSUME NEW g, AreasAre(g), NEW L \in LocatedSets(g)
  PROVE  Deduplicate(g, L) = ResidentsOnce(g, L)
<1>1. Deduplicate(g, L) = Round(SumFunctionOnSet(
         [v \in L |-> Density(g, v) * Cardinality(g.area[v] \ Claimed(g, L, v))], L), AreaUnit)
  BY DEF Deduplicate, Claimed
<1>2. [v \in L |-> Density(g, v) * Cardinality(g.area[v] \ Claimed(g, L, v))] = Counted(g, L)
  BY DEF Counted, Own
<1> QED
  BY <1>1, <1>2, OnePassIsEnough, ResidentsAreWhole DEF Whole

LEMMA WholeIsNat ==
  ASSUME NEW g, AreasAre(g), NEW L \in LocatedSets(g)
  PROVE  Whole(g, L) \in Nat
  BY EachCellCounts, CellsAreFinite, SumIsNat DEF Whole

LEMMA RoundIsNat ==
  ASSUME NEW n \in Nat
  PROVE  Round(n, AreaUnit) \in Nat
<1>1. n \div AreaUnit \in Nat
  BY AreasAssumption, DivisionIs
<1> QED
  BY <1>1 DEF Round

(* Nobody is counted who is not served.                                     *)
LEMMA WholeIsBounded ==
  ASSUME NEW g, AreasAre(g), NEW L \in LocatedSets(g)
  PROVE  Whole(g, L) <= AreaUnit * People(g, L)
<1> DEFINE w == Counted(g, L)
           pop == g.population_served
<1>0. IsFiniteSet(L)
  BY NodeAssumption, FS_Subset DEF LocatedSets
<1>1. ASSUME NEW x \in L PROVE /\ w[x] \in Nat /\ pop[x] \in Nat
                               /\ 1 * w[x] <= AreaUnit * pop[x]
  <2> DEFINE o == Cardinality(Own(g, L)[x])
             a == Cardinality(g.area[x])
             d == Density(g, x)
  <2>1. x \in Node /\ IsFiniteSet(g.area[x])
    BY DEF LocatedSets
  <2>2. Own(g, L)[x] \subseteq g.area[x]
    BY DEF Own
  <2>3. o \in Nat /\ a \in Nat /\ o <= a
    BY <2>1, <2>2, FS_Subset, FS_CardinalityType
  <2>4. d \in Nat /\ d * a = pop[x] * AreaUnit /\ pop[x] \in Nat
    BY <2>1, DensityFacts DEF AreasAre
  <2>5. w[x] = d * o
    BY DEF Counted
  <2> HIDE DEF o, a, d, w
  <2>6. d * o \in Nat /\ d * o <= d * a
    BY <2>3, <2>4
  <2>7. d * o <= AreaUnit * pop[x]
    BY <2>4, <2>6, AreasAssumption
  <2> QED
    BY <2>4, <2>5, <2>6, <2>7
<1> HIDE DEF w, pop
<1>2. 1 * SumFunctionOnSet(w, L) <= AreaUnit * SumFunctionOnSet(pop, L)
  <2>1. 1 \in Nat /\ AreaUnit \in Nat
    BY AreasAssumption
  <2> QED
    BY <1>0, <1>1, <2>1, SumInProportion
<1>3. SumFunctionOnSet(w, L) \in Nat
  BY <1>0, <1>1, SumIsNat
<1>4. Whole(g, L) = SumFunctionOnSet(w, L)
  BY OnePassIsEnough DEF Whole, w
<1> QED
  BY <1>2, <1>3, <1>4 DEF pop, People

(* Whoever is served is counted.                                            *)
LEMMA WholeCountsEach ==
  ASSUME NEW g, AreasAre(g), NEW L \in LocatedSets(g), NEW x \in L
  PROVE  g.population_served[x] * AreaUnit <= Whole(g, L)
<1> DEFINE A == g.area[x]
           D == CellsOf(g, L)
           l == Highest(g, L)
           d == Density(g, x)
           e == [c \in A |-> d]
<1>1. A \in SUBSET D
  BY DEF CellsOf
<1>2. \A c \in D : l[c] \in Nat
  BY EachCellCounts
<1>3. d \in Nat /\ \A c \in A : e[c] = d /\ e[c] \in Nat /\ d <= l[c]
  BY <1>1, EachCellCounts, DensitiesAreNumbers
<1>4. IsFiniteSet(D) /\ IsFiniteSet(A)
  BY <1>1, FS_Subset, CellsAreFinite
<1>5. d * Cardinality(A) = g.population_served[x] * AreaUnit
  BY DensityFacts
<1> HIDE DEF A, D, l, d, e
<1>6. SumFunctionOnSet(e, A) = d * Cardinality(A)
  BY <1>3, <1>4, SumOfEqual
<1>7. SumFunctionOnSet(e, A) <= SumFunctionOnSet(l, A)
  BY <1>1, <1>2, <1>3, <1>4, SumIsLess
<1>8. SumFunctionOnSet(l, A) <= SumFunctionOnSet(l, D)
  BY <1>1, <1>2, <1>4, PartIsLess
<1>9. /\ SumFunctionOnSet(e, A) \in Nat /\ SumFunctionOnSet(l, A) \in Nat
      /\ SumFunctionOnSet(l, D) \in Nat
  BY <1>1, <1>2, <1>3, <1>4, SumIsNat
<1>10. SumFunctionOnSet(e, A) <= SumFunctionOnSet(l, D)
  BY <1>7, <1>8, <1>9
<1> QED
  BY <1>5, <1>6, <1>10 DEF D, l, Whole

(* A network, whose assets are placed anew for every set of them.           *)
IsCharted(g) ==
  /\ g.population_served \in [Node -> Nat]
  /\ \A L \in SUBSET {v \in Node : g.has_area[v]} : L \in LocatedSets(Placed(g, L))

Located(g, S) == {v \in S : g.population_served[v] > 0 /\ g.has_area[v]}

Unlocatable(g, S) == {v \in S : g.population_served[v] > 0 /\ ~ g.has_area[v]}

\* The failed assets of S on the map, and the residents they serve there.
Map(g, S) == Placed(g, Located(g, S))

Served(g, S) == Whole(Map(g, S), Located(g, S))

LEMMA PeopleAre ==
  ASSUME NEW g, IsCharted(g), NEW S \in SUBSET Node, NEW T \in SUBSET S
  PROVE  People(g, T) \in Nat /\ People(g, T) <= People(g, S)
<1>1. IsFiniteSet(S) /\ \A v \in S : g.population_served[v] \in Nat
  BY NodeAssumption, FS_Subset DEF IsCharted
<1> QED
  BY <1>1, SumOfPart, PartIsLess DEF People

LEMMA LocatedAre ==
  ASSUME NEW g, IsCharted(g), NEW S \in SUBSET Node
  PROVE  /\ Located(g, S) \in SUBSET S /\ Located(g, S) \in LocatedSets(Map(g, S))
         /\ AreasAre(Map(g, S)) /\ Map(g, S).population_served = g.population_served
         /\ \A T : People(Map(g, S), T) = People(g, T)
<1>1. Map(g, S).population_served = g.population_served
  BY DEF Map, Placed
<1>2. Located(g, S) \in SUBSET S /\ Located(g, S) \in SUBSET {v \in Node : g.has_area[v]}
  BY DEF Located
<1> QED
  BY <1>1, <1>2 DEF IsCharted, AreasAre, Map, People

(* Everybody of a set of assets is served by one whose area is known or by  *)
(* one whose area is not.                                                   *)
LEMMA PeopleAreSplit ==
  ASSUME NEW g, IsCharted(g), NEW S \in SUBSET Node
  PROVE  People(g, S) = People(g, Located(g, S)) + People(g, Unlocatable(g, S))
<1> DEFINE L == Located(g, S)
           U == Unlocatable(g, S)
<1>1. IsFiniteSet(S) /\ \A v \in S : g.population_served[v] \in Nat
  BY NodeAssumption, FS_Subset DEF IsCharted
<1>2. /\ L \in SUBSET S /\ U \in SUBSET S /\ L \cap U = {} /\ L \cup U \in SUBSET S
      /\ \A v \in S \ (L \cup U) : g.population_served[v] = 0
  BY <1>1 DEF Located, Unlocatable
<1> HIDE DEF L, U
<1>3. SumFunctionOnSet(g.population_served, S) = SumFunctionOnSet(g.population_served, L \cup U)
  BY <1>1, <1>2, SumWithoutZeros
<1>4. SumFunctionOnSet(g.population_served, L \cup U)
        = SumFunctionOnSet(g.population_served, L) + SumFunctionOnSet(g.population_served, U)
  BY <1>1, <1>2, SumOfUnion
<1> QED
  BY <1>3, <1>4 DEF L, U, People

(* What the impact counts, located assets or not.                           *)
LEMMA PreCapIs ==
  ASSUME NEW g, IsCharted(g), NEW S \in SUBSET Node
  PROVE  calculate_population_impact(g, S).pre_cap
           = Round(Served(g, S), AreaUnit) + People(g, Unlocatable(g, S))
<1> DEFINE L == Located(g, S)
           U == Unlocatable(g, S)
           r == Round(Served(g, S), AreaUnit)
<1>1. {v \in {w \in S : g.population_served[w] > 0} : g.has_area[v]} = L
  BY DEF Located
<1>2. {w \in S : g.population_served[w] > 0} \ L = U
  BY DEF Located, Unlocatable
<1>3. calculate_population_impact(g, S).pre_cap
        = IF L = {} THEN People(g, S) ELSE Deduplicate(Map(g, S), L) + People(g, U)
  BY <1>1, <1>2 DEF calculate_population_impact, Map
<1>4. Deduplicate(Map(g, S), L) = r
  BY LocatedAre, DeduplicateIsResidentsOnce, ResidentsAreWhole DEF Served
<1>5. CASE L = {}
  <2>1. People(g, L) = 0
    BY <1>5, SumOfNothing DEF People
  <2>2. Served(g, S) = 0
    <3>1. CellsOf(Map(g, S), L) = {}
      BY <1>5 DEF CellsOf
    <3> QED
      BY <3>1, SumOfNothing DEF Whole, Served
  <2>3. r = 0
    <3>1. Round(0 * AreaUnit, AreaUnit) = 0
      BY AreasAssumption, RoundOfWhole
    <3>2. 0 * AreaUnit = 0
      BY AreasAssumption
    <3> QED
      BY <2>2, <3>1, <3>2
  <2>4. People(g, S) = 0 + People(g, U) /\ People(g, U) \in Nat
    <3>1. U \in SUBSET S
      BY DEF Unlocatable
    <3> QED
      BY <2>1, <3>1, PeopleAreSplit, PeopleAre
  <2> HIDE DEF r, U, L
  <2>5. r + People(g, U) = People(g, S)
    BY <2>3, <2>4
  <2> QED
    BY <1>3, <1>5, <2>5 DEF r, U, L
<1>6. CASE L # {}
  BY <1>3, <1>4, <1>6
<1> QED
  BY <1>5, <1>6

(* The conjuncts of CountsEachResidentOnce.                                 *)
LEMMA ImpactIsBounded ==
  ASSUME NEW g, IsCharted(g), NEW S \in SUBSET Node
  PROVE  /\ calculate_population_impact(g, S).pre_cap \in Nat
         /\ calculate_population_impact(g, S).pre_cap <= People(g, S)
<1> DEFINE L == Located(g, S)
           U == Unlocatable(g, S)
           r == Round(Served(g, S), AreaUnit)
           l == People(g, L)
           u == People(g, U)
<1>1. L \in LocatedSets(Map(g, S)) /\ U \in SUBSET S /\ L \in SUBSET S
  BY LocatedAre DEF Unlocatable
<1>2. l \in Nat /\ u \in Nat
  BY <1>1, PeopleAre
<1>3. Served(g, S) \in Nat /\ Served(g, S) <= AreaUnit * l
  BY <1>1, LocatedAre, WholeIsNat, WholeIsBounded DEF Served
<1>4. People(g, S) = l + u
  BY PeopleAreSplit
<1>5. calculate_population_impact(g, S).pre_cap = r + u
  BY PreCapIs
<1>6. r \in Nat
  BY <1>3, RoundIsNat
<1>7. r <= l
  <2> HIDE DEF l
  <2>1. l * AreaUnit \in Nat /\ Served(g, S) <= l * AreaUnit
    BY <1>2, <1>3, AreasAssumption
  <2>2. r <= Round(l * AreaUnit, AreaUnit)
    BY <1>3, <2>1, AreasAssumption, RoundIsMonotone
  <2>3. Round(l * AreaUnit, AreaUnit) = l
    BY <1>2, AreasAssumption, RoundOfWhole
  <2> QED
    BY <2>2, <2>3
<1> HIDE DEF r, l, u
<1> QED
  BY <1>2, <1>4, <1>5, <1>6, <1>7

LEMMA ImpactCountsEach ==
  ASSUME NEW g, IsCharted(g), NEW S \in SUBSET Node, NEW v \in S
  PROVE  g.population_served[v] <= calculate_population_impact(g, S).pre_cap
<1> DEFINE L == Located(g, S)
           U == Unlocatable(g, S)
           r == Round(Served(g, S), AreaUnit)
           u == People(g, U)
           pop == g.population_served[v]
<1>1. L \in LocatedSets(Map(g, S)) /\ U \in SUBSET S /\ L \in SUBSET S
  BY LocatedAre DEF Unlocatable
<1>2. u \in Nat /\ pop \in Nat
  BY <1>1, PeopleAre DEF IsCharted
<1>3. Served(g, S) \in Nat
  BY <1>1, LocatedAre, WholeIsNat DEF Served
<1>4. r \in Nat
  BY <1>3, RoundIsNat
<1>5. calculate_population_impact(g, S).pre_cap = r + u
  BY PreCapIs
<1>6. CASE v \in L
  <2>1. pop * AreaUnit <= Served(g, S)
    BY <1>1, <1>6, LocatedAre, WholeCountsEach DEF Served
  <2> HIDE DEF pop
  <2>2. pop * AreaUnit \in Nat
    BY <1>2, AreasAssumption
  <2>3. Round(pop * AreaUnit, AreaUnit) <= r
    BY <1>3, <2>1, <2>2, AreasAssumption, RoundIsMonotone
  <2>4. pop <= r
    BY <1>2, <2>3, AreasAssumption, RoundOfWhole
  <2> HIDE DEF r, u
  <2>5. pop <= r + u
    BY <1>2, <1>4, <2>4
  <2> QED
    BY <1>5, <2>5 DEF pop
<1>7. CASE v \in U
  <2>1. IsFiniteSet(U) /\ {v} \in SUBSET U /\ v \in U /\ \A w \in U : g.population_served[w] \in Nat
    BY <1>1, <1>7, NodeAssumption, FS_Subset DEF IsCharted
  <2>2. SumFunctionOnSet(g.population_served, {v}) = pop
    <3>1. {} \cup {v} = {v} /\ {} \in SUBSET U /\ v \in U \ {}
      BY <2>1
    <3>2. SumFunctionOnSet(g.population_served, {} \cup {v})
            = g.population_served[v] + SumFunctionOnSet(g.population_served, {})
      BY <2>1, <3>1, SumWith
    <3> QED
      BY <1>2, <3>1, <3>2, SumOfNothing
  <2>3. pop <= u
    BY <2>1, <2>2, PartIsLess DEF People
  <2> HIDE DEF r, u, pop
  <2>4. pop <= r + u
    BY <1>2, <1>4, <2>3
  <2> QED
    BY <1>5, <2>4 DEF pop
<1>8. CASE v \notin L \cup U
  <2>1. pop = 0
    BY <1>2, <1>8 DEF Located, Unlocatable
  <2> HIDE DEF r, u, pop
  <2>2. pop <= r + u
    BY <1>2, <1>4, <2>1
  <2> QED
    BY <1>5, <2>2 DEF pop
<1> QED
  BY <1>6, <1>7, <1>8

LEMMA ImpactIsSpatial ==
  ASSUME NEW g, IsCharted(g), NEW S \in SUBSET Node,
         calculate_population_impact(g, S).dedup_method = "spatial"
  PROVE  /\ LET populated == {v \in S : g.population_served[v] > 0}
            IN  calculate_population_impact(g, S).pre_cap
                  = ResidentsOnce(Placed(g, populated), populated)
         /\ ~ calculate_population_impact(g, S).has_unresolved_overlap
<1> DEFINE P == {v \in S : g.population_served[v] > 0}
           L == Located(g, S)
           U == P \ L
<1>1. {v \in P : g.has_area[v]} = L
  BY DEF Located
<1>2. calculate_population_impact(g, S).dedup_method
        = IF L = {} THEN "additive" ELSE IF U # {} THEN "partial" ELSE "spatial"
  BY <1>1 DEF calculate_population_impact
<1>3. L # {} /\ U = {}
  BY <1>2
<1>4. P = L /\ Map(g, S) = Placed(g, P)
  BY <1>3 DEF Located, Map
<1>5. U = Unlocatable(g, S)
  BY DEF Located, Unlocatable
<1>6. calculate_population_impact(g, S).pre_cap
        = Round(Served(g, S), AreaUnit) + People(g, {})
  BY <1>3, <1>5, PreCapIs
<1>7. Round(Served(g, S), AreaUnit) \in Nat
  BY LocatedAre, WholeIsNat, RoundIsNat DEF Served
<1>8. People(g, {}) = 0
  BY SumOfNothing DEF People
<1>9. Cardinality(U) = 0
  BY <1>3, FS_EmptySet
<1>10. calculate_population_impact(g, S).has_unresolved_overlap
        <=> Cardinality(P) >= 2 /\ Cardinality(U) + (IF L # {} THEN 1 ELSE 0) >= 2
  BY <1>1 DEF calculate_population_impact
<1>11. ~ calculate_population_impact(g, S).has_unresolved_overlap
  BY <1>3, <1>9, <1>10
<1> QED
  BY <1>4, <1>6, <1>7, <1>8, <1>11, ResidentsAreWhole DEF Served

LEMMA ImpactIsCapped ==
  ASSUME NEW g, IsCharted(g), NEW S \in SUBSET Node
  PROVE  LET p == calculate_population_impact(g, S)
         IN  /\ p.population_affected_estimate <= StudyAreaCap
             /\ p.is_population_capped <=> p.population_affected_estimate < p.pre_cap
<1> DEFINE p == calculate_population_impact(g, S)
<1>1. p.pre_cap \in Nat
  BY ImpactIsBounded
<1>2. /\ p.population_affected_estimate = Least(p.pre_cap, StudyAreaCap)
      /\ p.is_population_capped <=> p.pre_cap > StudyAreaCap
  BY DEF calculate_population_impact
<1> HIDE DEF p
<1>3. /\ p.population_affected_estimate <= StudyAreaCap
      /\ p.is_population_capped <=> p.population_affected_estimate < p.pre_cap
  BY <1>1, <1>2, AreasAssumption DEF Least
<1> QED
  BY <1>3 DEF p

LEMMA ImpactsHold == Inv => CountsEachResidentOnce
<1> SUFFICES ASSUME Inv, NEW S \in SUBSET Node
    PROVE  LET p == calculate_population_impact(rows, S)
               populated == {v \in S : rows.population_served[v] > 0}
           IN  /\ p.dedup_method = "spatial" =>
                    /\ p.pre_cap = ResidentsOnce(Placed(rows, populated), populated)
                    /\ ~ p.has_unresolved_overlap
               /\ p.pre_cap <= p.raw_population_affected
               /\ \A v \in S : rows.population_served[v] <= p.pre_cap
               /\ p.population_affected_estimate <= StudyAreaCap
               /\ p.is_population_capped <=> p.population_affected_estimate < p.pre_cap
  BY DEF CountsEachResidentOnce
<1>1. IsCharted(rows)
  <2>1. rows \in Networks /\ rows.population_served \in [Node -> Nat]
    BY RowsAre DEF Inv, RunsInv, IsRows
  <2>2. ASSUME NEW L \in SUBSET {v \in Node : rows.has_area[v]}
        PROVE  L \in LocatedSets(Placed(rows, L))
    <3>1. Placed(rows, L).area = rows.area[L]
      BY DEF Placed
    <3>2. \A v \in L : /\ IsFiniteSet(rows.area[L][v]) /\ rows.area[L][v] # {}
                      /\ AreaUnit % Cardinality(rows.area[L][v]) = 0
      BY <2>1, AreasAssumption
    <3> QED
      BY <3>1, <3>2 DEF LocatedSets
  <2> QED
    BY <2>1, <2>2 DEF IsCharted
<1>2. calculate_population_impact(rows, S).raw_population_affected = People(rows, S)
  BY DEF calculate_population_impact
<1> QED
  BY <1>1, <1>2, ImpactIsSpatial, ImpactIsBounded, ImpactCountsEach, ImpactIsCapped

\* The impact of any failed assets, wherever their areas fall, counts every
\* resident of them once: it lies between the largest population served and the
\* plain sum, is capped as the flag says, and is flagged unresolved only when an
\* area is unknown.
THEOREM Impacts == Spec => []CountsEachResidentOnce
  BY Invariance, ImpactsHold, PTL

===============================================================================
