---------------------------- MODULE RecoveryProofs ----------------------------
(***************************************************************************)
(* What the figures of a recovery are worth, for every number of failed    *)
(* assets, and what its stages restore, for every run.  The stages are     *)
(* made with FlattenSeq, a recursive function: a lemma unfolds it once.    *)
(***************************************************************************)
EXTENDS RecoveryPlan, SequenceTheorems, DataLemmas

\* The value of an integer division.
LEMMA DivisionBounds ==
  ASSUME NEW a \in Nat, NEW b \in Nat \ {0}
  PROVE  /\ a \div b \in Nat
         /\ b * (a \div b) <= a
         /\ a < b * (a \div b) + b
  BY SMT

\* A percentage of 100 or more needs all but half a percent to be back.
LEMMA HundredPercent ==
  ASSUME NEW total \in Nat \ {0}, NEW restored \in 0 .. total
  PROVE  PercentRestored(restored, total) >= 100 <=> 199 * total <= 200 * restored
<1> DEFINE a == 200 * restored + total
           b == 2 * total
           q == a \div b
<1>1. a \in Nat /\ b \in Nat \ {0}
  OBVIOUS
<1>2. q \in Nat /\ b * q <= a /\ a < b * q + b
  BY <1>1, DivisionBounds
<1>3. ASSUME q >= 100 PROVE 199 * total <= 200 * restored
  <2>1. b * 100 <= b * q
    BY <1>1, <1>2, <1>3, SMT
  <2> QED
    BY <2>1, <1>1, <1>2
<1>4. ASSUME 199 * total <= 200 * restored PROVE q >= 100
  <2>1. b * 100 < b * q + b
    BY <1>1, <1>2, <1>4
  <2>2. ASSUME q <= 99 PROVE FALSE
    <3>1. b * q <= b * 99
      BY <1>1, <1>2, <2>2, SMT
    <3> QED
      BY <3>1, <2>1, <1>1, <1>2
  <2> QED
    BY <2>2, <1>2
<1> QED
  BY <1>3, <1>4 DEF PercentRestored

\* With fewer than 200 assets down, the stage that is captioned "Fully
\* restored - all assets back online" and the beat that is labelled "Restored"
\* are those after which nothing is offline (recovery.ts:127 and 155-161).
THEOREM FullyRestoredIsTrue ==
  \A total \in 1 .. 199 : \A restored \in 0 .. total :
    PercentRestored(restored, total) >= 100 <=> restored = total
<1> SUFFICES ASSUME NEW total \in 1 .. 199, NEW restored \in 0 .. total
             PROVE  PercentRestored(restored, total) >= 100 <=> restored = total
  OBVIOUS
<1> QED
  BY HundredPercent

\* The bound is exact: from 200 on, they are announced with one asset still
\* offline, if a stage ends there.
THEOREM FullyRestoredTooSoon ==
  \A total \in Nat : total >= 200 => PercentRestored(total - 1, total) >= 100
<1> SUFFICES ASSUME NEW total \in Nat, total >= 200
             PROVE  PercentRestored(total - 1, total) >= 100
  OBVIOUS
<1> QED
  BY HundredPercent
-------------------------------------------------------------------------------
(* Concatenation of a sequence of sequences. *)

\* f[i] is the concatenation of the first i sequences.
Concatenates(f, seqs, n) ==
  f = [i \in 1 .. n |-> IF i = 1 THEN seqs[i] ELSE f[i - 1] \o seqs[i]]

\* The recursion has a solution, whose values are sequences, with the elements
\* of what they are made of.
LEMMA PrefixesExist ==
  ASSUME NEW S, NEW seqs \in Seq(Seq(S))
  PROVE  \E f : Concatenates(f, seqs, Len(seqs))
<1> DEFINE Good(n, h) == /\ h \in [1 .. n -> Seq(S)]
                         /\ \A i \in 1 .. n :
                              h[i] = IF i = 1 THEN seqs[i] ELSE h[i - 1] \o seqs[i]
           D == {n \in Nat : n <= Len(seqs) => \E h : Good(n, h)}
<1>0. Len(seqs) \in Nat /\ \A i \in 1 .. Len(seqs) : seqs[i] \in Seq(S)
  BY LenProperties
<1>1. 0 \in D
  <2>1. Good(0, [i \in 1 .. 0 |-> <<>>])
    OBVIOUS
  <2> QED
    BY <2>1
<1>2. ASSUME NEW n \in D PROVE n + 1 \in D
  <2>1. SUFFICES ASSUME n + 1 <= Len(seqs) PROVE \E h : Good(n + 1, h)
    <3>1. n + 1 \in Nat
      OBVIOUS
    <3> HIDE DEF Good
    <3> QED
      BY <3>1
  <2>2. n \in Nat /\ n <= Len(seqs)
    BY <1>0, <2>1
  <2>3. PICK h : Good(n, h)
    BY <2>2
  <2> DEFINE last == IF n = 0 THEN seqs[1] ELSE h[n] \o seqs[n + 1]
             g == [i \in 1 .. n + 1 |-> IF i <= n THEN h[i] ELSE last]
  <2>4. last \in Seq(S)
    <3>1. CASE n = 0
      BY <1>0, <2>1, <3>1
    <3>2. CASE n # 0
      <4>1. h[n] \in Seq(S) /\ seqs[n + 1] \in Seq(S)
        BY <1>0, <2>1, <2>2, <2>3, <3>2
      <4> QED
        BY <4>1, <3>2, ConcatProperties
    <3> QED
      BY <3>1, <3>2
  <2>5. g \in [1 .. n + 1 -> Seq(S)]
    <3> HIDE DEF last
    <3> QED
      BY <2>2, <2>3, <2>4
  <2>6. ASSUME NEW i \in 1 .. n + 1
        PROVE  g[i] = IF i = 1 THEN seqs[i] ELSE g[i - 1] \o seqs[i]
    <3> HIDE DEF last
    <3>1. CASE i <= n
      <4>1. g[i] = h[i] /\ (i # 1 => i - 1 \in 1 .. n /\ g[i - 1] = h[i - 1])
        BY <2>2, <3>1
      <4>2. h[i] = IF i = 1 THEN seqs[i] ELSE h[i - 1] \o seqs[i]
        <5>1. i \in 1 .. n
          BY <2>2, <3>1
        <5> HIDE DEF g
        <5> QED
          BY <2>3, <5>1
      <4> HIDE DEF g
      <4> QED
        BY <4>1, <4>2
    <3>2. CASE i = n + 1
      <4>1. g[i] = last /\ (i # 1 => n \in 1 .. n + 1 /\ g[i - 1] = h[n])
        BY <2>2, <3>2
      <4> QED
        BY <2>2, <3>2, <4>1 DEF last
    <3> QED
      BY <3>1, <3>2, <2>2
  <2>7. Good(n + 1, g)
    BY <2>5, <2>6
  <2> QED
    BY <2>7
<1>3. D = Nat
  <2>1. D \in SUBSET Nat
    OBVIOUS
  <2> HIDE DEF D
  <2> QED
    BY <2>1, <1>1, <1>2, NatSetInduction
<1>4. PICK h : Good(Len(seqs), h)
  <2> HIDE DEF Good
  <2>1. Len(seqs) \in D
    BY <1>0, <1>3
  <2> QED
    BY <1>0, <2>1
<1>5. Concatenates(h, seqs, Len(seqs))
  BY <1>4 DEF Concatenates
<1> QED
  BY <1>5

\* The elements of the first n sequences.
Elements(seqs, n) == UNION {ToSet(seqs[k]) : k \in 1 .. n}

LEMMA FlattenElements ==
  ASSUME NEW S, NEW seqs \in Seq(Seq(S))
  PROVE  /\ FlattenSeq(seqs) \in Seq(S)
         /\ ToSet(FlattenSeq(seqs)) = Elements(seqs, Len(seqs))
<1>0. Len(seqs) \in Nat /\ \A i \in 1 .. Len(seqs) : seqs[i] \in Seq(S)
  BY LenProperties
<1>1. CASE Len(seqs) = 0
  <2>1. FlattenSeq(seqs) = <<>>
    BY <1>1, EmptySeq DEF FlattenSeq
  <2>2. 1 .. 0 = {}
    OBVIOUS
  <2> QED
    BY <1>1, <2>1, <2>2, EmptySeq DEF Elements, ToSet
<1>2. CASE Len(seqs) # 0
  <2> DEFINE f == CHOOSE g : Concatenates(g, seqs, Len(seqs))
             D == {n \in Nat : n + 1 <= Len(seqs) =>
                      f[n + 1] \in Seq(S) /\ ToSet(f[n + 1]) = Elements(seqs, n + 1)}
  <2>1. FlattenSeq(seqs) = f[Len(seqs)]
    BY <1>2 DEF FlattenSeq, Concatenates
  <2>2. Concatenates(f, seqs, Len(seqs))
    BY PrefixesExist
  <2> HIDE DEF f
  <2>3. \A i \in 1 .. Len(seqs) :
          f[i] = IF i = 1 THEN seqs[i] ELSE f[i - 1] \o seqs[i]
    BY <2>2 DEF Concatenates
  <2>4. 0 \in D
    <3>1. f[1] = seqs[1]
      BY <1>0, <1>2, <2>3
    <3>2. Elements(seqs, 1) = ToSet(seqs[1])
      BY DEF Elements
    <3> QED
      BY <1>0, <1>2, <3>1, <3>2
  <2>5. ASSUME NEW n \in D PROVE n + 1 \in D
    <3>0. n \in Nat
      OBVIOUS
    <3>1. SUFFICES ASSUME n + 2 <= Len(seqs)
                   PROVE  f[n + 2] \in Seq(S) /\ ToSet(f[n + 2]) = Elements(seqs, n + 2)
      <4>1. n + 1 \in Nat /\ (n + 1) + 1 = n + 2
        BY <3>0
      <4> QED
        BY <4>1
    <3>2. f[n + 1] \in Seq(S) /\ ToSet(f[n + 1]) = Elements(seqs, n + 1)
      BY <1>0, <3>1
    <3> HIDE DEF D
    <3>3. f[n + 2] = f[n + 1] \o seqs[n + 2] /\ seqs[n + 2] \in Seq(S)
      <4>1. n + 2 \in 1 .. Len(seqs) /\ n + 2 # 1 /\ (n + 2) - 1 = n + 1
        BY <1>0, <3>0, <3>1
      <4> QED
        BY <1>0, <2>3, <4>1
    <3>4. f[n + 2] \in Seq(S)
      BY <3>2, <3>3, ConcatProperties
    <3>5. ToSet(f[n + 2]) = ToSet(f[n + 1]) \cup ToSet(seqs[n + 2])
      <4>1. Range(f[n + 1] \o seqs[n + 2]) = Range(f[n + 1]) \cup Range(seqs[n + 2])
        BY <3>2, <3>3, RangeConcatenation
      <4>2. \A t : ToSet(t) = Range(t)
        BY DEF ToSet, Range
      <4> QED
        BY <3>3, <4>1, <4>2
    <3>6. Elements(seqs, n + 2) = Elements(seqs, n + 1) \cup ToSet(seqs[n + 2])
      <4>1. 1 .. n + 2 = (1 .. n + 1) \cup {n + 2}
        BY <3>0
      <4> QED
        BY <4>1 DEF Elements
    <3> QED
      BY <3>2, <3>4, <3>5, <3>6
  <2>6. D = Nat
    <3>1. D \in SUBSET Nat
      OBVIOUS
    <3> HIDE DEF D
    <3> QED
      BY <3>1, <2>4, <2>5, NatSetInduction
  <2>7. Len(seqs) - 1 \in D /\ (Len(seqs) - 1) + 1 = Len(seqs)
    <3> HIDE DEF D
    <3> QED
      BY <1>0, <1>2, <2>6
  <2> QED
    BY <1>0, <2>1, <2>7
<1> QED
  BY <1>1, <1>2

-------------------------------------------------------------------------------
(* The stages of a restoration. *)

\* Of two numbers, Max and Min choose one, and rightly.
LEMMA MaxOfTwo ==
  ASSUME NEW a \in Int, NEW b \in Int
  PROVE  Max({a, b}) \in {a, b} /\ Max({a, b}) >= a /\ Max({a, b}) >= b
<1>1. \E x \in {a, b} : \A y \in {a, b} : x >= y
  <2>1. CASE a >= b
    BY <2>1
  <2>2. CASE b >= a
    BY <2>2
  <2> QED
    BY <2>1, <2>2
<1> QED
  BY <1>1 DEF Max

LEMMA MinOfTwo ==
  ASSUME NEW a \in Int, NEW b \in Int
  PROVE  Min({a, b}) \in {a, b} /\ Min({a, b}) <= a /\ Min({a, b}) <= b
<1>1. \E x \in {a, b} : \A y \in {a, b} : x <= y
  <2>1. CASE a <= b
    BY <2>1
  <2>2. CASE b <= a
    BY <2>2
  <2> QED
    BY <2>1, <2>2
<1> QED
  BY <1>1 DEF Min

LEMMA LimitIsPositive ==
  ASSUME NEW total \in Nat
  PROVE  Limit(total) \in Nat \ {0}
<1>1. (total + 3) \div 4 \in Int
  OBVIOUS
<1>2. Limit(total) \in {1, (total + 3) \div 4} /\ Limit(total) >= 1
  BY <1>1, MaxOfTwo DEF Limit
<1> QED
  BY <1>1, <1>2

\* Piece i of a wave is what stands from lo to hi in it.
LEMMA PieceIs ==
  ASSUME NEW S, NEW ids \in Seq(S), NEW limit \in Nat \ {0}, NEW i \in Nat \ {0}
  PROVE  LET piece == SubSeq(ids, (i - 1) * limit + 1, Min({i * limit, Len(ids)}))
         IN  /\ piece \in Seq(S)
             /\ Len(piece) <= limit
             /\ ToSet(piece) = {ids[j] : j \in {k \in 1 .. Len(ids) :
                                   (i - 1) * limit < k /\ k <= i * limit}}
<1> DEFINE lo == (i - 1) * limit + 1
           hi == Min({i * limit, Len(ids)})
           piece == SubSeq(ids, lo, hi)
           here == {k \in 1 .. Len(ids) : (i - 1) * limit < k /\ k <= i * limit}
<1>0. Len(ids) \in Nat /\ \A k \in 1 .. Len(ids) : ids[k] \in S
  BY LenProperties
<1>1. /\ (i - 1) * limit \in Nat /\ i * limit \in Nat
      /\ i * limit = (i - 1) * limit + limit
  <2>1. i - 1 \in Nat /\ \A a, b \in Nat : a * b \in Nat
    OBVIOUS
  <2>2. \A a, b \in Nat : (a + 1) * b = a * b + b
    OBVIOUS
  <2>3. ((i - 1) + 1) * limit = (i - 1) * limit + limit
    BY <2>1, <2>2
  <2>4. (i - 1) + 1 = i
    OBVIOUS
  <2> QED
    BY <2>1, <2>3, <2>4
<1>2. hi \in {i * limit, Len(ids)} /\ hi <= i * limit /\ hi <= Len(ids)
  BY <1>0, <1>1, MinOfTwo
<1>3. lo \in Int /\ hi \in Int /\ lo >= 1 /\ hi - lo + 1 <= limit
  BY <1>0, <1>1, <1>2
<1>4. \A k \in lo .. hi : ids[k] \in S
  BY <1>0, <1>2, <1>3
<1>5. \A k \in Int : k \in lo .. hi <=> k \in here
  BY <1>0, <1>1, <1>2
<1> HIDE DEF lo, hi
<1>6. /\ piece \in Seq(S)
      /\ Len(piece) = IF lo <= hi THEN hi - lo + 1 ELSE 0
      /\ \A k \in 1 .. hi - lo + 1 : piece[k] = ids[lo + k - 1]
  BY <1>3, <1>4, SubSeqProperties
<1> HIDE DEF piece
<1>7. Len(piece) <= limit
  BY <1>3, <1>6
<1>8. ToSet(piece) = {ids[k] : k \in lo .. hi}
  <2>1. DOMAIN piece = 1 .. hi - lo + 1
    <3>1. DOMAIN piece = 1 .. Len(piece)
      BY <1>6, LenProperties
    <3> QED
      BY <1>3, <1>6, <3>1
  <2>2. \A k \in 1 .. hi - lo + 1 : lo + k - 1 \in lo .. hi
    BY <1>3
  <2>3. ASSUME NEW k \in lo .. hi
        PROVE  k - lo + 1 \in 1 .. hi - lo + 1 /\ piece[k - lo + 1] = ids[k]
    <3>1. k - lo + 1 \in 1 .. hi - lo + 1 /\ lo + (k - lo + 1) - 1 = k
      BY <1>3
    <3> QED
      BY <1>6, <3>1
  <2>4. ToSet(piece) = {piece[k] : k \in 1 .. hi - lo + 1}
    BY <2>1 DEF ToSet
  <2>5. ASSUME NEW k \in 1 .. hi - lo + 1
        PROVE  piece[k] \in {ids[j] : j \in lo .. hi}
    BY <1>6, <2>2
  <2>6. ASSUME NEW k \in lo .. hi
        PROVE  ids[k] \in {piece[j] : j \in 1 .. hi - lo + 1}
    BY <2>3
  <2> QED
    BY <2>4, <2>5, <2>6
<1>9. {ids[k] : k \in lo .. hi} = {ids[k] : k \in here}
  <2>1. lo .. hi = here
    BY <1>3, <1>0, <1>5
  <2> QED
    BY <2>1
<1> QED
  BY <1>6, <1>7, <1>8, <1>9 DEF piece, lo, hi

\* The pieces of a wave are no longer than the limit and hold all of it.
LEMMA ChunkHoldsAll ==
  ASSUME NEW S, NEW ids \in Seq(S), NEW limit \in Nat \ {0}
  PROVE  /\ Chunk(ids, limit) \in Seq(Seq(S))
         /\ \A piece \in ToSet(Chunk(ids, limit)) : Len(piece) <= limit
         /\ UNION {ToSet(piece) : piece \in ToSet(Chunk(ids, limit))} = ToSet(ids)
<1> DEFINE n == (Len(ids) + limit - 1) \div limit
           piece(i) == SubSeq(ids, (i - 1) * limit + 1, Min({i * limit, Len(ids)}))
           chunk == [i \in 1 .. n |-> piece(i)]
<1>0. Len(ids) \in Nat /\ DOMAIN ids = 1 .. Len(ids)
  BY LenProperties
<1>1. n \in Nat /\ limit * n <= Len(ids) + limit - 1 /\ Len(ids) + limit - 1 < limit * n + limit
  <2>1. Len(ids) + limit - 1 \in Nat
    BY <1>0
  <2> QED
    BY <2>1, DivisionBounds
<1>2. \A i \in Nat \ {0} :
        /\ piece(i) \in Seq(S)
        /\ Len(piece(i)) <= limit
        /\ ToSet(piece(i)) = {ids[j] : j \in {k \in 1 .. Len(ids) :
                                (i - 1) * limit < k /\ k <= i * limit}}
  BY PieceIs
<1>3. Chunk(ids, limit) = chunk
  BY DEF Chunk
<1> HIDE DEF piece, n
<1>4. chunk \in Seq(Seq(S)) /\ ToSet(chunk) = {piece(i) : i \in 1 .. n}
  <2>1. \A i \in 1 .. n : piece(i) \in Seq(S)
    BY <1>1, <1>2
  <2> QED
    BY <1>1, <2>1 DEF ToSet
<1>5. ASSUME NEW j \in 1 .. Len(ids)
      PROVE  \E i \in 1 .. n : ids[j] \in ToSet(piece(i))
  <2> DEFINE q == (j - 1) \div limit
  <2>1. q \in Nat /\ limit * q <= j - 1 /\ j - 1 < limit * q + limit
    <3>1. j - 1 \in Nat
      BY <1>0
    <3> QED
      BY <3>1, DivisionBounds
  <2> HIDE DEF q
  <2>2. limit * q < limit * n
    <3>1. limit * q \in Nat /\ limit * n \in Nat
      BY <1>1, <2>1
    <3> QED
      BY <1>0, <1>1, <2>1, <3>1
  <2>3. q + 1 \in 1 .. n
    <3>1. ASSUME q >= n PROVE FALSE
      <4>1. limit * n <= limit * q
        BY <1>1, <2>1, <3>1
      <4>2. limit * q \in Nat /\ limit * n \in Nat
        BY <1>1, <2>1
      <4> QED
        BY <2>2, <4>1, <4>2
    <3> QED
      BY <1>1, <2>1, <3>1
  <2>4. ((q + 1) - 1) * limit < j /\ j <= (q + 1) * limit
    <3>1. (q + 1) - 1 = q
      BY <2>1
    <3>2. q * limit = limit * q /\ (q + 1) * limit = limit * q + limit
      BY <2>1
    <3>3. limit * q \in Nat
      BY <2>1
    <3> QED
      BY <1>0, <2>1, <3>1, <3>2, <3>3
  <2>5. q + 1 \in Nat \ {0}
    BY <2>1
  <2>6. ids[j] \in ToSet(piece(q + 1))
    BY <1>2, <2>4, <2>5
  <2> QED
    BY <2>3, <2>6
<1>6. ToSet(ids) = {ids[j] : j \in 1 .. Len(ids)}
  BY <1>0 DEF ToSet
<1>7. \A i \in 1 .. n : ToSet(piece(i)) \subseteq ToSet(ids) /\ Len(piece(i)) <= limit
  <2> SUFFICES ASSUME NEW i \in 1 .. n
               PROVE  ToSet(piece(i)) \subseteq ToSet(ids) /\ Len(piece(i)) <= limit
    OBVIOUS
  <2>1. i \in Nat \ {0}
    BY <1>1
  <2>2. \A x \in ToSet(piece(i)) : \E j \in 1 .. Len(ids) : x = ids[j]
    BY <1>2, <2>1
  <2> QED
    BY <1>2, <1>6, <2>1, <2>2
<1> HIDE DEF chunk
<1>8. UNION {ToSet(p) : p \in ToSet(chunk)} = ToSet(ids)
  <2>1. ASSUME NEW x \in ToSet(ids) PROVE \E i \in 1 .. n : x \in ToSet(piece(i))
    BY <1>5, <1>6
  <2>2. ASSUME NEW p \in ToSet(chunk) PROVE ToSet(p) \subseteq ToSet(ids)
    BY <1>4, <1>7
  <2>3. \A i \in 1 .. n : piece(i) \in ToSet(chunk)
    BY <1>4
  <2> QED
    BY <2>1, <2>2, <2>3
<1> QED
  BY <1>3, <1>4, <1>7, <1>8

\* The assets of a run are finitely many.
LEMMA FailedAreAssets ==
  ASSUME NEW A, IsFiniteSet(A), NEW waves \in Seq(Seq(A))
  PROVE  /\ FailedNodeIdsForResult(waves) \subseteq A
         /\ IsFiniteSet(FailedNodeIdsForResult(waves))
         /\ Cardinality(FailedNodeIdsForResult(waves)) \in Nat
<1>1. \A i \in DOMAIN waves : waves[i] \in Seq(A)
  BY LenProperties
<1>2. \A i \in DOMAIN waves : ToSet(waves[i]) \subseteq A
  <2> SUFFICES ASSUME NEW i \in DOMAIN waves PROVE ToSet(waves[i]) \subseteq A
    OBVIOUS
  <2>1. DOMAIN waves[i] = 1 .. Len(waves[i]) /\ \A j \in 1 .. Len(waves[i]) : waves[i][j] \in A
    BY <1>1, LenProperties
  <2> QED
    BY <2>1 DEF ToSet
<1>3. FailedNodeIdsForResult(waves) \subseteq A
  BY <1>2 DEF FailedNodeIdsForResult
<1> QED
  BY <1>3, FS_Subset, FS_CardinalityType

\* The batches are no longer than the limit and hold all that failed.
LEMMA BatchesHoldAll ==
  ASSUME NEW A, IsFiniteSet(A), NEW waves \in Seq(Seq(A))
  PROVE  LET failed == FailedNodeIdsForResult(waves)
         IN  /\ Batches(waves) \in Seq(Seq(A))
             /\ \A piece \in ToSet(Batches(waves)) : Len(piece) <= Limit(Cardinality(failed))
             /\ UNION {ToSet(piece) : piece \in ToSet(Batches(waves))} = failed
<1> DEFINE failed == FailedNodeIdsForResult(waves)
           limit == Limit(Cardinality(failed))
           chunks == [w \in DOMAIN waves |-> Chunk(waves[w], limit)]
<1>0. /\ Len(waves) \in Nat /\ DOMAIN waves = 1 .. Len(waves)
      /\ \A w \in DOMAIN waves : waves[w] \in Seq(A)
  BY LenProperties
<1>1. limit \in Nat \ {0}
  BY FailedAreAssets, LimitIsPositive
<1>2. Batches(waves) = FlattenSeq(chunks)
  BY DEF Batches
<1> HIDE DEF limit
<1>3. \A w \in DOMAIN waves :
        /\ Chunk(waves[w], limit) \in Seq(Seq(A))
        /\ \A piece \in ToSet(Chunk(waves[w], limit)) : Len(piece) <= limit
        /\ UNION {ToSet(piece) : piece \in ToSet(Chunk(waves[w], limit))} = ToSet(waves[w])
  BY <1>0, <1>1, ChunkHoldsAll
<1>4. chunks \in Seq(Seq(Seq(A))) /\ Len(chunks) = Len(waves)
  BY <1>0, <1>3
<1>5. FlattenSeq(chunks) \in Seq(Seq(A)) /\ ToSet(FlattenSeq(chunks)) = Elements(chunks, Len(chunks))
  BY <1>4, FlattenElements
<1>6. ToSet(Batches(waves)) = UNION {ToSet(Chunk(waves[w], limit)) : w \in DOMAIN waves}
  BY <1>0, <1>2, <1>4, <1>5 DEF Elements
<1>7. \A piece \in ToSet(Batches(waves)) : Len(piece) <= limit
  BY <1>3, <1>6
<1>8. UNION {ToSet(piece) : piece \in ToSet(Batches(waves))} = failed
  <2>1. failed = UNION {ToSet(waves[w]) : w \in DOMAIN waves}
    BY DEF FailedNodeIdsForResult
  <2> HIDE DEF failed
  <2>2. ASSUME NEW x \in failed
        PROVE  \E piece \in ToSet(Batches(waves)) : x \in ToSet(piece)
    <3>1. PICK w \in DOMAIN waves : x \in ToSet(waves[w])
      BY <2>1
    <3>2. PICK piece \in ToSet(Chunk(waves[w], limit)) : x \in ToSet(piece)
      BY <1>3, <3>1
    <3> QED
      BY <1>6, <3>2
  <2>3. ASSUME NEW piece \in ToSet(Batches(waves)) PROVE ToSet(piece) \subseteq failed
    <3>1. PICK w \in DOMAIN waves : piece \in ToSet(Chunk(waves[w], limit))
      BY <1>6
    <3>2. ToSet(piece) \subseteq ToSet(waves[w])
      BY <1>3, <3>1
    <3> QED
      BY <2>1, <3>2
  <2> QED
    BY <2>2, <2>3
<1> QED
  BY <1>2, <1>5, <1>7, <1>8 DEF limit

\* The highest milestone of a stage is one, or 0.
LEMMA MilestoneIsOne ==
  ASSUME NEW percents, NEW i
  PROVE  Milestone(percents, i) \in {0} \cup RECOVERY_MILESTONES
<1> DEFINE S == {0} \cup {m \in RECOVERY_MILESTONES :
                    percents[i] >= m /\ \A j \in 1 .. i - 1 : percents[j] < m}
<1>1. S \subseteq {0, 20, 70, 100} /\ 0 \in S
  BY DEF RECOVERY_MILESTONES
<1>2. Milestone(percents, i) = Max(S)
  BY DEF Milestone
<1> HIDE DEF S
<1>3. \E x \in S : \A y \in S : x >= y
  <2>1. CASE 100 \in S
    BY <1>1, <2>1
  <2>2. CASE 100 \notin S /\ 70 \in S
    BY <1>1, <2>2
  <2>3. CASE 100 \notin S /\ 70 \notin S /\ 20 \in S
    BY <1>1, <2>3
  <2>4. CASE 100 \notin S /\ 70 \notin S /\ 20 \notin S
    BY <1>1, <2>4
  <2> QED
    BY <2>1, <2>2, <2>3, <2>4
<1>4. Max(S) \in S
  BY <1>3 DEF Max
<1> QED
  BY <1>1, <1>2, <1>4 DEF RECOVERY_MILESTONES

\* What is back after stage i is what the first i batches hold.
LEMMA PlanIs ==
  ASSUME NEW A, IsFiniteSet(A), NEW waves \in Seq(Seq(A))
  PROVE  LET plan == BuildRecoveryPlan(waves)
             batches == Batches(waves)
         IN  /\ DOMAIN plan = 1 .. Len(batches)
             /\ Len(plan) = Len(batches)
             /\ \A i \in DOMAIN plan :
                  /\ plan[i].restoredNodeIds = Elements(batches, i)
                  /\ plan[i].milestone \in {0} \cup RECOVERY_MILESTONES
<1> DEFINE batches == Batches(waves)
           total == Cardinality(FailedNodeIdsForResult(waves))
           back == [i \in DOMAIN batches |-> ToSet(FlattenSeq(SubSeq(batches, 1, i)))]
           percents == [i \in DOMAIN batches |-> PercentRestored(Cardinality(back[i]), total)]
           plan == [i \in DOMAIN batches |->
                     [restoredNodeIds |-> back[i], percentRestored |-> percents[i],
                      milestone |-> Milestone(percents, i)]]
<1>1. BuildRecoveryPlan(waves) = plan
  BY DEF BuildRecoveryPlan
<1>2. batches \in Seq(Seq(A))
  BY BatchesHoldAll
<1> HIDE DEF batches
<1>3. DOMAIN batches = 1 .. Len(batches) /\ Len(batches) \in Nat
  BY <1>2, LenProperties
<1>4. ASSUME NEW i \in 1 .. Len(batches)
      PROVE  ToSet(FlattenSeq(SubSeq(batches, 1, i))) = Elements(batches, i)
  <2> DEFINE first == SubSeq(batches, 1, i)
  <2>1. \A j \in 1 .. i : batches[j] \in Seq(A)
    BY <1>2, <1>3
  <2>2. /\ first \in Seq(Seq(A)) /\ Len(first) = i
        /\ \A j \in 1 .. i : first[j] = batches[j]
    <3>1. i \in Nat /\ 1 <= i /\ i - 1 + 1 = i /\ \A j \in 1 .. i : 1 + j - 1 = j
      BY <1>3
    <3> QED
      BY <2>1, <3>1, SubSeqProperties
  <2> HIDE DEF first
  <2>3. ToSet(FlattenSeq(first)) = Elements(first, i)
    BY <2>2, FlattenElements
  <2>4. Elements(first, i) = Elements(batches, i)
    BY <2>2 DEF Elements
  <2> QED
    BY <2>3, <2>4 DEF first
<1>5. \A i \in 1 .. Len(batches) : back[i] = Elements(batches, i)
  BY <1>3, <1>4
<1> HIDE DEF back, percents
<1>6. \A i \in 1 .. Len(batches) :
        /\ plan[i].restoredNodeIds = back[i]
        /\ plan[i].milestone = Milestone(percents, i)
  BY <1>3
<1>7. DOMAIN plan = 1 .. Len(batches) /\ Len(plan) = Len(batches)
  BY <1>3
<1> HIDE DEF plan
<1> QED
  BY <1>1, <1>5, <1>6, <1>7, MilestoneIsOne DEF batches

\* A restoration brings back what failed and nothing else, ever more of it,
\* never more than a quarter (rounded up) at once, and all of it in the end:
\* no wave, however it is cut, leaves the recovery "stuck below 100%" (the
\* comments on MAX_STAGE_SHARE and on the orphans, recovery.ts:29 and 114).
THEOREM RestorationIsSteadyAndWhole ==
  ASSUME NEW A, IsFiniteSet(A), NEW waves \in Seq(Seq(A))
  PROVE  LET plan == BuildRecoveryPlan(waves)
             failed == FailedNodeIdsForResult(waves)
             Back(i) == IF i = 0 THEN {} ELSE plan[i].restoredNodeIds
         IN  /\ Back(Len(plan)) = failed
             /\ \A i \in 1 .. Len(plan) :
                  /\ Back(i - 1) \subseteq Back(i)
                  /\ Back(i) \subseteq failed
                  /\ Cardinality(Back(i) \ Back(i - 1)) <= Limit(Cardinality(failed))
<1> DEFINE plan == BuildRecoveryPlan(waves)
           failed == FailedNodeIdsForResult(waves)
           batches == Batches(waves)
           n == Len(batches)
           Back(i) == IF i = 0 THEN {} ELSE plan[i].restoredNodeIds
           limit == Limit(Cardinality(failed))
<1>1. /\ batches \in Seq(Seq(A))
      /\ \A piece \in ToSet(batches) : Len(piece) <= limit
      /\ UNION {ToSet(piece) : piece \in ToSet(batches)} = failed
  BY BatchesHoldAll
<1>2. n \in Nat /\ DOMAIN batches = 1 .. n /\ \A i \in 1 .. n : batches[i] \in Seq(A)
  BY <1>1, LenProperties
<1>3. Len(plan) = n /\ \A i \in 1 .. n : plan[i].restoredNodeIds = Elements(batches, i)
  BY PlanIs
<1>4. limit \in Nat
  BY FailedAreAssets, LimitIsPositive
<1> HIDE DEF plan, failed, batches, limit
<1>5. \A i \in 0 .. n : Back(i) = Elements(batches, i)
  <2>1. Elements(batches, 0) = {}
    <3>1. 1 .. 0 = {}
      OBVIOUS
    <3> QED
      BY <3>1 DEF Elements
  <2> QED
    BY <1>2, <1>3, <2>1
<1> HIDE DEF Back
<1>6. Elements(batches, n) = failed
  <2>1. ToSet(batches) = {batches[i] : i \in 1 .. n}
    BY <1>2 DEF ToSet
  <2> QED
    BY <1>1, <2>1 DEF Elements
<1>7. ASSUME NEW i \in 1 .. n
      PROVE  /\ Back(i - 1) \subseteq Back(i)
             /\ Back(i) \subseteq failed
             /\ Cardinality(Back(i) \ Back(i - 1)) <= limit
  <2>1. i \in 0 .. n /\ i - 1 \in 0 .. n
    BY <1>2
  <2>2. Elements(batches, i) = Elements(batches, i - 1) \cup ToSet(batches[i])
    <3>1. 1 .. i = (1 .. i - 1) \cup {i}
      BY <1>2
    <3> QED
      BY <3>1 DEF Elements
  <2>3. Elements(batches, i) \subseteq Elements(batches, n)
    <3>1. 1 .. i \subseteq 1 .. n
      BY <1>2
    <3> QED
      BY <3>1 DEF Elements
  <2>4. IsFiniteSet(ToSet(batches[i])) /\ Cardinality(ToSet(batches[i])) <= Len(batches[i])
    <3> DEFINE m == Len(batches[i])
    <3>1. m \in Nat /\ DOMAIN batches[i] = 1 .. m
      BY <1>2, LenProperties
    <3>2. IsFiniteSet(1 .. m) /\ Cardinality(1 .. m) = m
      <4> HIDE DEF m
      <4>1. IsFiniteSet(1 .. m) /\ Cardinality(1 .. m) = IF 1 > m THEN 0 ELSE m - 1 + 1
        BY <3>1, FS_Interval
      <4> QED
        BY <3>1, <4>1
    <3> DEFINE T == ToSet(batches[i])
    <3>3. batches[i] \in Surjection(1 .. m, T)
      BY <1>2, <3>1, LenProperties DEF Surjection, ToSet
    <3> HIDE DEF T, m
    <3>4. IsFiniteSet(T) /\ Cardinality(T) <= Cardinality(1 .. m)
      BY <3>2, <3>3, FS_Surjection
    <3> QED
      BY <3>2, <3>4 DEF T, m
  <2>5. Cardinality(Back(i) \ Back(i - 1)) <= Cardinality(ToSet(batches[i]))
    <3>1. Back(i) \ Back(i - 1) \subseteq ToSet(batches[i])
      BY <1>5, <2>1, <2>2
    <3> QED
      BY <2>4, <3>1, FS_Subset
  <2>6. Len(batches[i]) <= limit
    BY <1>1, <1>2 DEF ToSet
  <2>7. /\ Len(batches[i]) \in Nat
        /\ Cardinality(ToSet(batches[i])) \in Nat
        /\ Cardinality(Back(i) \ Back(i - 1)) \in Nat
    <3>1. Back(i) \ Back(i - 1) \subseteq ToSet(batches[i])
      BY <1>5, <2>1, <2>2
    <3>2. IsFiniteSet(Back(i) \ Back(i - 1))
      BY <2>4, <3>1, FS_Subset
    <3> QED
      BY <1>2, <2>4, <3>2, FS_CardinalityType, LenProperties
  <2>8. Cardinality(Back(i) \ Back(i - 1)) <= limit
    BY <1>4, <2>4, <2>5, <2>6, <2>7
  <2> QED
    BY <1>5, <1>6, <2>1, <2>2, <2>3, <2>8
<1>8. Back(Len(plan)) = failed
  BY <1>2, <1>3, <1>5, <1>6
<1>9. \A i \in 1 .. Len(plan) :
        /\ Back(i - 1) \subseteq Back(i)
        /\ Back(i) \subseteq failed
        /\ Cardinality(Back(i) \ Back(i - 1)) <= limit
  BY <1>3, <1>7
<1> QED
  BY <1>8, <1>9 DEF plan, failed, limit, Back
================================================================================
