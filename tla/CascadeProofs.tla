----------------------------- MODULE CascadeProofs -----------------------------
(***************************************************************************)
(* What holds of run_cascade for every network, every set of initial       *)
(* failures and every bound on the waves.  LoopInvariant (module Cascade)  *)
(* is inductive; the properties follow from it.  The second part is about  *)
(* the load that is moved: the deltas of a wave do not depend on the order *)
(* in which its assets are visited, and an asset never passes on more than *)
(* it carried.                                                             *)
(***************************************************************************)
EXTENDS Cascade, DataLemmas

(* A state of the loop in which networks are networks and loads are loads.  *)
LEMMA NetworkFacts ==
  ASSUME NEW n \in Networks
  PROVE  /\ IsNetwork(n)
         /\ n.load \in [Node -> Nat]
         /\ n.limit \in [Node -> Nat]
  BY NetworksAssumption DEF IsNetwork

(* The capacity a link counts for is a natural number.                      *)
LEMMA LinkCapacityIsNat ==
  ASSUME NEW n, IsNetwork(n), NEW u \in Node, NEW v \in Successors(n, u)
  PROVE  LinkCapacity(n, u, v) \in Nat
<1>1. <<u, v>> \in DOMAIN n.link
  BY DEF Successors
<1>2. n.link[<<u, v>>] \in Link
  BY <1>1 DEF IsNetwork
<1>3. n.link[<<u, v>>].capacity \in Nat \cup {NoCapacity}
  BY <1>2 DEF Link
<1>4. QED
  BY <1>3 DEF LinkCapacity

(* Survivors are finitely many assets, and their capacities have a sum.     *)
LEMMA SurvivorsAreFinite ==
  ASSUME NEW n, NEW gone, NEW u
  PROVE  /\ Survivors(n, gone, u) \subseteq Node \ gone
         /\ Survivors(n, gone, u) \subseteq Successors(n, u)
         /\ IsFiniteSet(Survivors(n, gone, u))
         /\ Cardinality(Survivors(n, gone, u)) \in Nat
<1>1. Survivors(n, gone, u) \subseteq Node
  BY DEF Survivors, Successors
<1>2. IsFiniteSet(Survivors(n, gone, u))
  BY <1>1, NodeAssumption, FS_Subset
<1>3. QED
  BY <1>1, <1>2, FS_CardinalityType DEF Survivors

LEMMA TotalCapacityIsNat ==
  ASSUME NEW n, IsNetwork(n), NEW gone, NEW u \in Node
  PROVE  TotalCapacity(n, gone, u) \in Nat
<1> DEFINE S == Survivors(n, gone, u)
           f == [v \in S |-> LinkCapacity(n, u, v)]
<1>1. IsFiniteSet(S)
  BY SurvivorsAreFinite
<1>2. \A v \in S : f[v] \in Nat
  BY SurvivorsAreFinite, LinkCapacityIsNat
<1>3. TotalCapacity(n, gone, u) = SumFunctionOnSet(f, S)
  BY DEF TotalCapacity
<1> HIDE DEF S, f
<1>4. QED
  BY <1>1, <1>2, <1>3, SumIsNat

(* Arithmetic of a proportional share.                                      *)
LEMMA QuotientIsNat ==
  ASSUME NEW x \in Nat, NEW y \in Nat, NEW z \in Nat, z > 0
  PROVE  (x * y) \div z \in Nat
<1>1. x * y \in Nat
  OBVIOUS
<1> DEFINE p == x * y
<1>2. p \in Nat
  BY <1>1
<1> HIDE DEF p
<1>3. p \div z \in Nat
  BY <1>2
<1>4. QED
  BY <1>3 DEF p

(* What an heir receives is a natural number: no division by zero, no       *)
(* negative share (cascade.py:190-208).                                     *)
LEMMA ShareIsNat ==
  ASSUME NEW n, IsNetwork(n), NEW ld \in [Node -> Nat], NEW gone,
         NEW u \in Node, NEW v \in Heirs(n, ld, gone, u)
  PROVE  /\ v \in Survivors(n, gone, u)
         /\ Share(n, ld, gone, u, v) \in Nat
<1>1. /\ v \in Survivors(n, gone, u)
      /\ CapacityDeclared(n, gone, u) => TotalCapacity(n, gone, u) > 0
  BY DEF Heirs
<1>2. LinkCapacity(n, u, v) \in Nat
  BY <1>1, SurvivorsAreFinite, LinkCapacityIsNat
<1>3. ld[u] \in Nat
  OBVIOUS
<1>4. CASE CapacityDeclared(n, gone, u)
  <2>1. TotalCapacity(n, gone, u) \in Nat /\ TotalCapacity(n, gone, u) > 0
    BY <1>1, <1>4, TotalCapacityIsNat
  <2>2. (ld[u] * LinkCapacity(n, u, v)) \div TotalCapacity(n, gone, u) \in Nat
    BY <1>2, <1>3, <2>1, QuotientIsNat
  <2>3. QED
    BY <1>1, <1>2, <1>4, <2>2 DEF Share, Lesser
<1>5. CASE ~ CapacityDeclared(n, gone, u)
  <2>1. IsFiniteSet(Survivors(n, gone, u)) /\ Survivors(n, gone, u) # {}
    BY <1>1, SurvivorsAreFinite
  <2>2. Cardinality(Survivors(n, gone, u)) \in Nat \ {0}
    BY <2>1, FS_CardinalityType, FS_EmptySet
  <2>3. ld[u] \div Cardinality(Survivors(n, gone, u)) \in Nat
    BY <1>3, <2>2
  <2>4. QED
    BY <1>1, <1>5, <2>3 DEF Share
<1>6. QED
  BY <1>4, <1>5

--------------------------------------------------------------------------------
(* One wave shed: the deltas stay natural numbers, on survivors only.       *)
LEMMA ShedKeepsDeltas ==
  ASSUME TypeOK, WaveAndLatch, NEW u \in Node, Shed(u)
  PROVE  /\ DOMAIN pending' \subseteq Node \ failed
         /\ pending' \in [DOMAIN pending' -> Nat]
         /\ \A v \in DOMAIN pending' \ DOMAIN pending : v \in Successors(net, u)
<1> DEFINE heirs == Heirs(net, load, failed, u)
           share(v) == Share(net, load, failed, u, v)
           before(v) == IF v \in DOMAIN pending THEN pending[v] ELSE 0
<1>1. IsNetwork(net) /\ load \in [Node -> Nat]
  BY NetworkFacts DEF TypeOK
<1>2. \A v \in heirs : v \in Survivors(net, failed, u) /\ share(v) \in Nat
  BY <1>1, ShareIsNat
<1>3. heirs \subseteq Node \ failed /\ heirs \subseteq Successors(net, u)
  BY <1>2, SurvivorsAreFinite
<1>4. DOMAIN pending \subseteq Node \ failed /\ pending \in [DOMAIN pending -> Nat]
  BY DEF TypeOK, WaveAndLatch, Shed
<1>5. pending' = [v \in DOMAIN pending \cup heirs |->
                    IF v \in heirs THEN before(v) + share(v) ELSE pending[v]]
  BY DEF Shed
<1>6. \A v \in heirs : before(v) + share(v) \in Nat
  <2>1. \A v \in heirs : before(v) \in Nat
    BY <1>4
  <2> HIDE DEF before
  <2>2. QED
    BY <1>2, <2>1
<1> HIDE DEF heirs, share, before
<1>7. QED
  BY <1>3, <1>4, <1>5, <1>6

(* Once every delta is applied, loads are still natural numbers.            *)
LEMMA SettledLoadIsLoad ==
  ASSUME TypeOK
  PROVE  SettledLoad \in [Node -> Nat]
<1>1. /\ load \in [Node -> Nat]
      /\ DOMAIN pending \subseteq Node
      /\ pending \in [DOMAIN pending -> Nat]
  BY DEF TypeOK
<1>2. \A v \in DOMAIN pending : load[v] + pending[v] \in Nat
  BY <1>1
<1>3. QED
  BY <1>1, <1>2 DEF SettledLoad

LEMMA TypeOKInit ==
  ASSUME Init
  PROVE  TypeOK /\ WaveAndLatch
<1>1. net.load \in [Node -> Nat]
  BY NetworkFacts DEF Init
<1>2. max_waves \in Nat \ {0}
  BY MaxWavesAssumption DEF Init
<1>3. pending \in [DOMAIN pending -> Nat] /\ DOMAIN pending = {}
  BY DEF Init, NoDeltas
<1>4. waves \in Seq([marginal : SUBSET Node, cumulative : SUBSET Node])
  BY DEF Init
<1>5. TypeOK
  <2>1. /\ net \in Networks /\ enforce \in BOOLEAN /\ max_waves \in MaxWaves
        /\ phase \in {"head", "shed", "done", "rejected"}
        /\ failed_in_wave \in InitialFailures \cup SUBSET Node
        /\ failed \subseteq Node /\ todo \subseteq failed_in_wave
        /\ stabilized \in BOOLEAN
    BY DEF Init
  <2>2. load \in [Node -> Nat] /\ idx \in 0 .. max_waves
    BY <1>1, <1>2 DEF Init
  <2>3. QED
    BY <1>3, <1>4, <2>1, <2>2 DEF TypeOK
<1>6. WaveAndLatch
  BY <1>3 DEF Init, WaveAndLatch
<1>7. QED
  BY <1>5, <1>6

(* Types and the latch support each other: neither is inductive alone.      *)
LEMMA TypeOKStep ==
  ASSUME TypeOK, WaveAndLatch, [Next]_vars
  PROVE  TypeOK' /\ WaveAndLatch'
<1> USE DEF TypeOK, WaveAndLatch
<1>0. max_waves \in Nat \ {0} /\ idx \in Nat
  BY MaxWavesAssumption
<1>1. CASE Commit
  <2>1. failed_in_wave \subseteq Node /\ failed \cup failed_in_wave \subseteq Node
    BY <1>1 DEF Commit
  <2>2. waves' \in Seq([marginal : SUBSET Node, cumulative : SUBSET Node])
    BY <1>1, <2>1 DEF Commit
  <2>3. DOMAIN pending' = {} /\ pending' \in [DOMAIN pending' -> Nat]
    BY <1>1 DEF Commit, NoDeltas
  <2>4. QED
    BY <1>1, <2>1, <2>2, <2>3 DEF Commit, input
<1>2. ASSUME NEW u \in Node, Shed(u) PROVE TypeOK' /\ WaveAndLatch'
  <2>1. /\ DOMAIN pending' \subseteq Node \ failed
        /\ pending' \in [DOMAIN pending' -> Nat]
    BY <1>2, ShedKeepsDeltas
  <2>2. QED
    BY <1>2, <2>1 DEF Shed, input
<1>3. CASE Settle
  <2>1. load' \in [Node -> Nat]
    BY <1>3, SettledLoadIsLoad DEF Settle
  <2>2. idx' \in 0 .. max_waves
    BY <1>0, <1>3 DEF Settle
  <2>3. Candidates \subseteq Node
    BY DEF Candidates, Successors
  <2>4. failed_in_wave' \subseteq Node \ failed
    BY <1>3, <2>3 DEF Settle
  <2>5. QED
    BY <1>3, <2>1, <2>2, <2>4 DEF Settle, input
<1>4. CASE Return
  BY <1>4 DEF Return, input
<1>5. CASE UNCHANGED vars
  BY <1>5 DEF vars
<1>6. QED
  BY <1>1, <1>2, <1>3, <1>4, <1>5 DEF Next

--------------------------------------------------------------------------------
(* An asset that no member of the wave feeds cannot be cut off by the wave. *)
LEMMA OnlyDependentsAreSevered ==
  ASSUME NEW n, NEW v \in Node, NEW wave, NEW gone,
         \A u \in wave : v \notin Successors(n, u),
         Severed(n, v, gone)
  PROVE  Severed(n, v, gone \ wave)
<1>1. PICK s \in ModelledServices(n, v) : Suppliers(n, v, s) \subseteq gone
  BY DEF Severed
<1>2. \A u \in Suppliers(n, v, s) : v \in Successors(n, u)
  BY DEF Suppliers, Predecessors, Successors
<1>3. Suppliers(n, v, s) \subseteq gone \ wave
  BY <1>1, <1>2
<1>4. QED
  BY <1>1, <1>3 DEF Severed

(* An asset outside the frontier is in the state in which it passed the     *)
(* test of the wave before (cascade.py:214-220).                            *)
LEMMA OutsideFrontierPasses ==
  ASSUME TypeOK, WaveAndLatch, SurvivorsPassed, phase = "shed",
         NEW v \in Node \ failed, v \notin Candidates
  PROVE  ~ Fails(net, enforce, SettledLoad, failed, v)
<1>1. idx > 0
  <2>1. idx \in Nat
    BY MaxWavesAssumption DEF TypeOK
  <2>2. idx # 0
    BY DEF Candidates
  <2>3. QED
    BY <2>1, <2>2
<1>2. ~ Fails(net, enforce, load, failed \ failed_in_wave, v)
  BY <1>1 DEF SurvivorsPassed
<1>3. v \notin DOMAIN pending
  BY <1>1 DEF Candidates
<1>4. SettledLoad[v] = load[v]
  BY <1>3 DEF SettledLoad
<1>5. ~ Overloaded(net, SettledLoad, v)
  BY <1>2, <1>4 DEF Fails, Overloaded
<1>6. ASSUME enforce, Severed(net, v, failed) PROVE FALSE
  <2>1. \A u \in failed_in_wave : v \notin Successors(net, u)
    BY <1>1, <1>6 DEF Candidates
  <2>2. Severed(net, v, failed \ failed_in_wave)
    BY <1>6, <2>1, OnlyDependentsAreSevered
  <2>3. QED
    BY <1>2, <1>6, <2>2 DEF Fails
<1>7. QED
  BY <1>5, <1>6 DEF Fails

LEMMA SurvivorsPassedStep ==
  ASSUME TypeOK, WaveAndLatch, SurvivorsPassed, [Next]_vars
  PROVE  SurvivorsPassed'
<1>1. CASE Commit
  <2>1. SUFFICES ASSUME idx > 0, NEW v \in Node \ failed'
                 PROVE  ~ Fails(net, enforce, load, failed' \ failed_in_wave, v)
    BY <1>1 DEF Commit, SurvivorsPassed, input
  <2>2. failed_in_wave = {w \in Node \ failed : Fails(net, enforce, load, failed, w)}
    BY <1>1, <2>1 DEF Commit, SurvivorsPassed
  <2>3. failed' \ failed_in_wave = failed
    BY <1>1 DEF Commit, WaveAndLatch
  <2>4. v \in Node \ failed /\ v \notin failed_in_wave
    BY <1>1, <2>1 DEF Commit
  <2>5. QED
    BY <2>2, <2>3, <2>4
<1>2. ASSUME NEW u \in Node, Shed(u) PROVE SurvivorsPassed'
  BY <1>2 DEF Shed, SurvivorsPassed, input
<1>3. CASE Settle
  <2>1. Candidates \subseteq Node
    BY DEF Candidates, Successors, TypeOK
  <2>2. \A v \in Node \ failed :
          Fails(net, enforce, SettledLoad, failed, v) => v \in Candidates
    BY <1>3, OutsideFrontierPasses DEF Settle
  <2>3. failed_in_wave' =
          {v \in Node \ failed : Fails(net, enforce, SettledLoad, failed, v)}
    BY <1>3, <2>1, <2>2 DEF Settle
  <2>4. QED
    BY <1>3, <2>3 DEF Settle, SurvivorsPassed, input
<1>4. CASE Return
  BY <1>4 DEF Return, SurvivorsPassed, input
<1>5. CASE UNCHANGED vars
  BY <1>5 DEF vars, SurvivorsPassed
<1>6. QED
  BY <1>1, <1>2, <1>3, <1>4, <1>5 DEF Next

LEMMA VerdictOfWaveStep ==
  ASSUME TypeOK, VerdictOfWave, [Next]_vars
  PROVE  VerdictOfWave'
<1>1. idx \in 0 .. max_waves /\ max_waves \in Nat
  BY MaxWavesAssumption DEF TypeOK
<1>2. CASE Return
  <2>1. stabilized' <=> failed_in_wave = {}
    BY <1>2 DEF Return
  <2>2. failed_in_wave' = failed_in_wave /\ idx' = idx /\ max_waves' = max_waves
    BY <1>2 DEF Return, input
  <2>3. failed_in_wave # {} => idx = max_waves
    BY <1>1, <1>2 DEF Return
  <2>4. QED
    BY <2>1, <2>2, <2>3 DEF VerdictOfWave
<1>3. CASE UNCHANGED vars
  BY <1>3 DEF vars, VerdictOfWave
<1>4. CASE Commit \/ Settle \/ \E u \in Node : Shed(u)
  BY <1>4 DEF Commit, Shed, Settle, VerdictOfWave
<1>5. QED
  BY <1>2, <1>3, <1>4 DEF Next

--------------------------------------------------------------------------------
(* What a commit appends.                                                   *)
LEMMA CommitAppends ==
  ASSUME TypeOK, WaveAndLatch, Commit
  PROVE  /\ Len(waves) \in Nat
         /\ Len(waves') = Len(waves) + 1
         /\ DOMAIN waves = 1 .. Len(waves)
         /\ DOMAIN waves' = 1 .. Len(waves) + 1
         /\ \A i \in 1 .. Len(waves) : waves'[i] = waves[i]
         /\ waves'[Len(waves) + 1] = [marginal |-> failed_in_wave,
                                      cumulative |-> failed \cup failed_in_wave]
<1> DEFINE w == [marginal |-> failed_in_wave, cumulative |-> failed \cup failed_in_wave]
<1>1. waves \in Seq([marginal : SUBSET Node, cumulative : SUBSET Node])
  BY DEF TypeOK
<1>2. w \in [marginal : SUBSET Node, cumulative : SUBSET Node]
  BY DEF TypeOK, WaveAndLatch, Commit
<1>3. waves' = Append(waves, w)
  BY DEF Commit
<1> HIDE DEF w
<1>4. QED
  BY <1>1, <1>2, <1>3 DEF w

LEMMA WavesPartitionStep ==
  ASSUME TypeOK, WaveAndLatch, WavesPartitionFailures, [Next]_vars
  PROVE  WavesPartitionFailures'
<1>1. CASE Commit
  <2> DEFINE n == Len(waves)
  <2>1. /\ n \in Nat
        /\ Len(waves') = n + 1
        /\ DOMAIN waves = 1 .. n
        /\ DOMAIN waves' = 1 .. n + 1
        /\ \A i \in 1 .. n : waves'[i] = waves[i]
        /\ waves'[n + 1].marginal = failed_in_wave
        /\ waves'[n + 1].cumulative = failed \cup failed_in_wave
    BY <1>1, CommitAppends
  <2>2. /\ \A i, j \in 1 .. n : i # j => waves[i].marginal \cap waves[j].marginal = {}
        /\ \A i \in 1 .. n : /\ waves[i].marginal # {}
                             /\ waves[i].cumulative = UNION {waves[j].marginal : j \in 1 .. i}
        /\ failed = UNION {waves[i].marginal : i \in 1 .. n}
    BY <2>1 DEF WavesPartitionFailures
  <2>11. n = idx
    <3>1. idx \in Nat
      BY MaxWavesAssumption DEF TypeOK
    <3>2. QED
      BY <1>1, <2>1, <3>1 DEF WavesPartitionFailures, Commit
  <2>3. failed_in_wave \cap failed = {} /\ failed_in_wave # {}
    BY <1>1 DEF Commit, WaveAndLatch
  <2> HIDE DEF n
  <2>4. \A i \in 1 .. n + 1 : i = n + 1 \/ i \in 1 .. n
    BY <2>1
  <2>5. \A i \in 1 .. n : waves'[i].marginal \cap failed_in_wave = {}
    BY <2>1, <2>2, <2>3
  <2>6. \A i, j \in 1 .. n + 1 : i # j => waves'[i].marginal \cap waves'[j].marginal = {}
    BY <2>1, <2>2, <2>4, <2>5
  <2>7. failed \cup failed_in_wave = UNION {waves'[i].marginal : i \in 1 .. n + 1}
    <3>1. \A i \in 1 .. n : i \in 1 .. n + 1
      BY <2>1
    <3>2. n + 1 \in 1 .. n + 1
      BY <2>1
    <3>3. QED
      BY <2>1, <2>2, <2>4, <3>1, <3>2
  <2>8. ASSUME NEW i \in 1 .. n + 1
        PROVE  /\ waves'[i].marginal # {}
               /\ waves'[i].cumulative = UNION {waves'[j].marginal : j \in 1 .. i}
    <3>1. CASE i = n + 1
      BY <2>1, <2>3, <2>7, <3>1
    <3>2. CASE i \in 1 .. n
      <4>1. \A j \in 1 .. i : j \in 1 .. n
        BY <2>1, <3>2
      <4>2. {waves'[j].marginal : j \in 1 .. i} = {waves[j].marginal : j \in 1 .. i}
        BY <2>1, <4>1
      <4>3. QED
        BY <2>1, <2>2, <3>2, <4>2
    <3>3. QED
      BY <2>4, <3>1, <3>2
  <2>9. failed' = failed \cup failed_in_wave /\ phase' = "shed" /\ idx' = idx
    BY <1>1 DEF Commit
  <2>10. QED
    BY <2>1, <2>11, <2>6, <2>7, <2>8, <2>9 DEF WavesPartitionFailures
<1>2. ASSUME NEW u \in Node, Shed(u) PROVE WavesPartitionFailures'
  BY <1>2 DEF Shed, WavesPartitionFailures
<1>3. CASE Settle
  <2>1. idx \in Nat
    BY MaxWavesAssumption DEF TypeOK
  <2>2. Len(waves) = idx' + IF phase' = "shed" THEN 1 ELSE 0
    BY <1>3, <2>1 DEF Settle, WavesPartitionFailures
  <2>3. UNCHANGED <<waves, failed>>
    BY <1>3 DEF Settle
  <2>4. QED
    BY <2>2, <2>3 DEF WavesPartitionFailures
<1>4. CASE Return
  BY <1>4 DEF Return, WavesPartitionFailures
<1>5. CASE UNCHANGED vars
  BY <1>5 DEF vars, WavesPartitionFailures
<1>6. QED
  BY <1>1, <1>2, <1>3, <1>4, <1>5 DEF Next

LEMMA OneFailurePerWaveStep ==
  ASSUME TypeOK, WaveAndLatch, OneFailurePerWave, [Next]_vars
  PROVE  OneFailurePerWave'
<1>1. CASE Commit
  <2>1. PICK v \in failed_in_wave : v \in Node \ failed
    BY <1>1 DEF Commit, WaveAndLatch
  <2>2. IsFiniteSet(failed) /\ IsFiniteSet(failed')
    BY <1>1, NodeAssumption, FS_Subset DEF Commit, TypeOK, WaveAndLatch
  <2>3. /\ Cardinality(failed \cup {v}) = Cardinality(failed) + 1
        /\ IsFiniteSet(failed \cup {v})
    BY <2>1, <2>2, FS_AddElement
  <2>4. failed \cup {v} \subseteq failed'
    BY <1>1, <2>1 DEF Commit
  <2>5. Cardinality(failed \cup {v}) <= Cardinality(failed')
    BY <2>2, <2>4, FS_Subset
  <2>6. Cardinality(failed) \in Nat /\ Cardinality(failed') \in Nat
    BY <2>2, FS_CardinalityType
  <2>7. Len(waves) \in Nat /\ Len(waves') = Len(waves) + 1
    BY <1>1, CommitAppends
  <2>8. QED
    BY <2>3, <2>5, <2>6, <2>7 DEF OneFailurePerWave
<1>2. CASE Settle \/ Return \/ \E u \in Node : Shed(u)
  BY <1>2 DEF Settle, Return, Shed, OneFailurePerWave
<1>3. CASE UNCHANGED vars
  BY <1>3 DEF vars, OneFailurePerWave
<1>4. QED
  BY <1>1, <1>2, <1>3 DEF Next

--------------------------------------------------------------------------------
(* Which assets can fail after a wave: those it shed on or cut off, and,    *)
(* after the first, those that were over their limit from the start.        *)
LEMMA NextWaveReached ==
  ASSUME TypeOK, WavesPartitionFailures, WaveReached, Settle,
         NEW v \in failed_in_wave'
  PROVE  \/ \E u \in failed_in_wave : v \in Successors(net, u)
         \/ idx = 0 /\ Overloaded(net, net.load, v)
<1>1. v \in Candidates /\ Fails(net, enforce, SettledLoad, failed, v)
  BY DEF Settle
<1>2. ASSUME v \in DOMAIN pending
      PROVE  \E u \in failed_in_wave : v \in Successors(net, u)
  BY <1>2 DEF WaveReached, Settle
<1>3. CASE idx # 0
  <2>1. v \in DOMAIN pending \/ \E u \in failed_in_wave : v \in Successors(net, u)
    BY <1>1, <1>3 DEF Candidates
  <2>2. QED
    BY <1>2, <2>1
<1>4. CASE idx = 0
  <2>1. CASE Overloaded(net, SettledLoad, v)
    <3>1. CASE v \in DOMAIN pending
      BY <1>2, <3>1
    <3>2. CASE v \notin DOMAIN pending
      <4>1. v \in Node
        BY <1>1, <1>4 DEF Candidates
      <4>2. SettledLoad[v] = net.load[v]
        BY <1>4, <3>2, <4>1 DEF SettledLoad, WaveReached
      <4>3. QED
        BY <1>4, <2>1, <4>2 DEF Overloaded
    <3>3. QED
      BY <3>1, <3>2
  <2>2. CASE Severed(net, v, failed)
    <3>1. failed = failed_in_wave
      <4>1. Len(waves) = 1
        BY <1>4 DEF WavesPartitionFailures, Settle
      <4>2. DOMAIN waves = {1}
        BY <4>1 DEF TypeOK
      <4>3. failed = waves[1].marginal
        BY <4>2 DEF WavesPartitionFailures
      <4>4. QED
        BY <4>1, <4>3 DEF WaveReached, Settle
    <3>2. PICK s \in ModelledServices(net, v) : Suppliers(net, v, s) \subseteq failed
      BY <2>2 DEF Severed
    <3>3. PICK u \in Suppliers(net, v, s) : TRUE
      BY DEF ModelledServices
    <3>4. u \in failed_in_wave
      BY <3>1, <3>2
    <3>5. v \in Node
      BY <1>1, <1>4 DEF Candidates
    <3>6. v \in Successors(net, u)
      BY <3>5 DEF Suppliers, Predecessors, Successors
    <3>7. QED
      BY <3>4, <3>6
  <2>3. QED
    BY <1>1, <2>1, <2>2 DEF Fails
<1>5. QED
  BY <1>3, <1>4

LEMMA WaveReachedStep ==
  ASSUME TypeOK, WaveAndLatch, WavesPartitionFailures, WaveReached, [Next]_vars
  PROVE  WaveReached'
<1>0. idx \in Nat
  BY MaxWavesAssumption DEF TypeOK
<1>1. CASE Commit
  <2>1. waves' # <<>> /\ waves'[Len(waves')].marginal = failed_in_wave
    BY <1>1, CommitAppends
  <2>2. DOMAIN pending' = {}
    BY <1>1 DEF Commit, NoDeltas
  <2>3. QED
    BY <1>1, <2>1, <2>2 DEF Commit, WaveReached, input
<1>2. ASSUME NEW u \in Node, Shed(u) PROVE WaveReached'
  <2>1. \A v \in DOMAIN pending' \ DOMAIN pending : v \in Successors(net, u)
    BY <1>2, ShedKeepsDeltas
  <2>2. u \in failed_in_wave
    BY <1>2 DEF Shed, TypeOK
  <2>3. \A v \in DOMAIN pending' : \E w \in failed_in_wave : v \in Successors(net, w)
    BY <1>2, <2>1, <2>2 DEF Shed, WaveReached
  <2>4. QED
    BY <1>2, <2>3 DEF Shed, WaveReached, input
<1>3. CASE Settle
  <2>1. idx' = idx + 1 /\ idx' > 0
    BY <1>0, <1>3 DEF Settle
  <2>2. waves'[idx'].marginal = failed_in_wave
    <3>1. Len(waves) = idx + 1
      BY <1>0, <1>3 DEF WavesPartitionFailures, Settle
    <3>2. QED
      BY <1>3, <2>1, <3>1 DEF WaveReached, Settle
  <2>3. \A v \in failed_in_wave' : \/ \E u \in failed_in_wave : v \in Successors(net, u)
                                   \/ idx = 0 /\ Overloaded(net, net.load, v)
    BY <1>3, NextWaveReached
  <2>4. phase' = "head" /\ net' = net
    BY <1>3 DEF Settle, input
  <2>5. QED
    BY <2>1, <2>2, <2>3, <2>4 DEF WaveReached
<1>4. CASE Return
  BY <1>4 DEF Return, WaveReached, input
<1>5. CASE UNCHANGED vars
  BY <1>5 DEF vars, WaveReached
<1>6. QED
  BY <1>1, <1>2, <1>3, <1>4, <1>5 DEF Next

LEMMA SpreadsAlongLinksStep ==
  ASSUME TypeOK, WaveAndLatch, WavesPartitionFailures, WaveReached,
         SpreadsAlongLinks, [Next]_vars
  PROVE  SpreadsAlongLinks'
<1>1. CASE Commit
  <2> DEFINE n == Len(waves)
  <2>1. /\ n \in Nat
        /\ Len(waves') = n + 1
        /\ \A i \in 1 .. n : waves'[i] = waves[i]
        /\ waves'[n + 1].marginal = failed_in_wave
    BY <1>1, CommitAppends
  <2>2. n = idx /\ net' = net /\ phase = "head"
    <3>1. idx \in Nat
      BY MaxWavesAssumption DEF TypeOK
    <3>2. QED
      BY <1>1, <3>1 DEF Commit, WavesPartitionFailures, input
  <2>3. n > 0 => \A v \in failed_in_wave :
                   \/ \E u \in waves[n].marginal : v \in Successors(net, u)
                   \/ n = 1 /\ Overloaded(net, net.load, v)
    BY <2>2 DEF WaveReached
  <2>4. \A i \in 2 .. n : \A v \in waves[i].marginal :
          \/ \E u \in waves[i - 1].marginal : v \in Successors(net, u)
          \/ i = 2 /\ Overloaded(net, net.load, v)
    BY DEF SpreadsAlongLinks
  <2> HIDE DEF n
  <2>5. SUFFICES ASSUME NEW i \in 2 .. n + 1, NEW v \in waves'[i].marginal
                 PROVE  \/ \E u \in waves'[i - 1].marginal : v \in Successors(net, u)
                        \/ i = 2 /\ Overloaded(net, net.load, v)
    BY <2>1, <2>2 DEF SpreadsAlongLinks
  <2>6. CASE i = n + 1
    <3>1. n \in 1 .. n /\ n > 0 /\ i - 1 = n /\ (n = 1 => i = 2)
      BY <2>1, <2>6
    <3>2. waves'[i - 1] = waves[n] /\ v \in failed_in_wave
      BY <2>1, <2>5, <2>6, <3>1
    <3>3. QED
      BY <2>3, <3>1, <3>2
  <2>7. CASE i \in 2 .. n
    <3>1. i \in 1 .. n /\ i - 1 \in 1 .. n
      BY <2>1, <2>7
    <3>2. waves'[i] = waves[i] /\ waves'[i - 1] = waves[i - 1]
      BY <2>1, <3>1
    <3>3. QED
      BY <2>4, <2>5, <2>7, <3>2
  <2>8. QED
    BY <2>1, <2>6, <2>7
<1>2. CASE Settle \/ Return \/ \E u \in Node : Shed(u)
  BY <1>2 DEF Settle, Return, Shed, SpreadsAlongLinks, input
<1>3. CASE UNCHANGED vars
  BY <1>3 DEF vars, SpreadsAlongLinks
<1>4. QED
  BY <1>1, <1>2, <1>3 DEF Next

--------------------------------------------------------------------------------
(* The loop keeps its invariant, for every network and every bound.         *)
THEOREM LoopInvariantHolds == Spec => []LoopInvariant
<1>1. Init => LoopInvariant
  <2>1. SUFFICES ASSUME Init PROVE LoopInvariant
    OBVIOUS
  <2>2. TypeOK /\ WaveAndLatch
    BY <2>1, TypeOKInit
  <2>3. /\ idx = 0 /\ failed = {} /\ load = net.load
        /\ phase \in {"head", "rejected"}
        /\ Len(waves) = 0 /\ DOMAIN waves = {}
    BY <2>1 DEF Init
  <2>4. SurvivorsPassed /\ VerdictOfWave
    BY <2>3 DEF SurvivorsPassed, VerdictOfWave
  <2>5. WavesPartitionFailures
    <3>1. UNION {waves[i].marginal : i \in DOMAIN waves} = {}
      BY <2>3
    <3>2. Len(waves) = idx + IF phase = "shed" THEN 1 ELSE 0
      BY <2>3
    <3>3. QED
      BY <2>3, <3>1, <3>2 DEF WavesPartitionFailures
  <2>6. OneFailurePerWave
    <3>1. Cardinality(failed) = 0
      BY <2>3, FS_EmptySet
    <3>2. QED
      BY <2>3, <3>1 DEF OneFailurePerWave
  <2>7. WaveReached /\ SpreadsAlongLinks
    <3>1. 2 .. Len(waves) = {}
      BY <2>3
    <3>2. QED
      BY <2>3, <3>1 DEF WaveReached, SpreadsAlongLinks
  <2>8. QED
    BY <2>2, <2>4, <2>5, <2>6, <2>7 DEF LoopInvariant
<1>2. LoopInvariant /\ [Next]_vars => LoopInvariant'
  BY TypeOKStep, SurvivorsPassedStep, VerdictOfWaveStep, WavesPartitionStep,
     OneFailurePerWaveStep, WaveReachedStep, SpreadsAlongLinksStep
     DEF LoopInvariant
<1>3. QED
  BY <1>1, <1>2, PTL DEF Spec

(* Every run is well typed: in particular no share of load is negative or   *)
(* divided by zero, and idx never passes the guardrail.                     *)
THEOREM TypeCorrect == Spec => []TypeOK
<1>1. LoopInvariant => TypeOK
  BY DEF LoopInvariant
<1>2. QED
  BY <1>1, LoopInvariantHolds, PTL

(* The frontier decides the next wave as a full sweep would.                *)
THEOREM FrontierIsExact == Spec => []FrontierExact
<1>1. LoopInvariant => FrontierExact
  BY DEF LoopInvariant, SurvivorsPassed, FrontierExact
<1>2. QED
  BY <1>1, LoopInvariantHolds, PTL

(* The waves partition what failed.                                         *)
THEOREM WavesPartition == Spec => []WavesPartitionFailures
<1>1. LoopInvariant => WavesPartitionFailures
  BY DEF LoopInvariant
<1>2. QED
  BY <1>1, LoopInvariantHolds, PTL

(* Failures spread along links only.                                        *)
THEOREM Spreads == Spec => []SpreadsAlongLinks
<1>1. LoopInvariant => SpreadsAlongLinks
  BY DEF LoopInvariant
<1>2. QED
  BY <1>1, LoopInvariantHolds, PTL

(* The stabilised flag says whether a survivor would still fail.            *)
THEOREM FlagIsTrue == Spec => []FlagTellsTheTruth
<1>1. LoopInvariant => FlagTellsTheTruth
  <2>1. SUFFICES ASSUME LoopInvariant, phase = "done", waves # <<>>
                 PROVE  /\ stabilized <=> \A v \in Node \ failed :
                                            ~ Fails(net, enforce, load, failed, v)
                        /\ ~ stabilized => Len(waves) = max_waves
    BY DEF FlagTellsTheTruth
  <2>2. Len(waves) = idx /\ idx \in Nat
    BY <2>1, MaxWavesAssumption DEF LoopInvariant, TypeOK, WavesPartitionFailures
  <2>3. idx > 0
    <3>1. Len(waves) # 0
      BY <2>1 DEF LoopInvariant, TypeOK
    <3>2. QED
      BY <2>2, <3>1
  <2>4. failed_in_wave = {v \in Node \ failed : Fails(net, enforce, load, failed, v)}
    BY <2>1, <2>3 DEF LoopInvariant, SurvivorsPassed
  <2>5. /\ stabilized <=> failed_in_wave = {}
        /\ failed_in_wave # {} => idx = max_waves
    BY <2>1 DEF LoopInvariant, VerdictOfWave
  <2>6. stabilized <=> \A v \in Node \ failed : ~ Fails(net, enforce, load, failed, v)
    BY <2>4, <2>5
  <2>7. ~ stabilized => Len(waves) = max_waves
    BY <2>2, <2>5
  <2>8. QED
    BY <2>6, <2>7
<1>2. QED
  BY <1>1, LoopInvariantHolds, PTL

(* A guardrail of one wave per asset is never what ends a run: each wave    *)
(* fails an asset more, so a truncated run would have failed them all.      *)
THEOREM LargeBoundNeverTruncates == Spec => []NeverTruncatedByLargeBound
<1>1. LoopInvariant => NeverTruncatedByLargeBound
  <2>1. SUFFICES ASSUME LoopInvariant, phase = "done",
                        max_waves >= Cardinality(Node), ~ stabilized
                 PROVE  FALSE
    BY DEF NeverTruncatedByLargeBound
  <2>2. failed_in_wave # {} /\ idx = max_waves
    BY <2>1 DEF LoopInvariant, VerdictOfWave
  <2>3. PICK v \in failed_in_wave : v \in Node \ failed
    BY <2>1, <2>2 DEF LoopInvariant, WaveAndLatch
  <2>4. failed \subseteq Node \ {v}
    BY <2>1, <2>3 DEF LoopInvariant, TypeOK
  <2>5. /\ IsFiniteSet(Node \ {v})
        /\ Cardinality(Node \ {v}) = Cardinality(Node) - 1
    BY <2>3, NodeAssumption, FS_RemoveElement
  <2>6. Cardinality(failed) <= Cardinality(Node) - 1 /\ IsFiniteSet(failed)
    BY <2>4, <2>5, FS_Subset
  <2>7. idx = Len(waves) /\ Len(waves) <= Cardinality(failed) /\ idx \in Nat
    BY <2>1, MaxWavesAssumption
       DEF LoopInvariant, TypeOK, WavesPartitionFailures, OneFailurePerWave
  <2>8. Cardinality(failed) \in Nat /\ Cardinality(Node) \in Nat
    BY <2>6, NodeAssumption, FS_CardinalityType
  <2>9. QED
    BY <2>1, <2>2, <2>6, <2>7, <2>8
<1>2. QED
  BY <1>1, LoopInvariantHolds, PTL

(* Failure is latched: no step undoes one, reloads a failed asset, or lets  *)
(* it fail again.                                                           *)
THEOREM FailureIsLatched == Spec => LatchedForGood
<1>1. LoopInvariant /\ [Next]_vars =>
        [/\ failed \subseteq failed'
         /\ \A v \in failed : load'[v] = load[v]
         /\ phase' = "head" => failed_in_wave' \cap failed' = {}]_vars
  <2>1. SUFFICES ASSUME LoopInvariant, Next
                 PROVE  /\ failed \subseteq failed'
                        /\ \A v \in failed : load'[v] = load[v]
                        /\ phase' = "head" => failed_in_wave' \cap failed' = {}
    BY DEF LoopInvariant
  <2>2. failed \subseteq Node /\ load \in [Node -> Nat] /\ WaveAndLatch
    BY <2>1 DEF LoopInvariant, TypeOK
  <2>3. WaveAndLatch'
    BY <2>1, TypeOKStep DEF LoopInvariant
  <2>4. phase' = "head" => failed_in_wave' \cap failed' = {}
    BY <2>3 DEF WaveAndLatch
  <2>5. CASE Settle
    <3>1. \A v \in failed : SettledLoad[v] = load[v]
      BY <2>2, <2>5 DEF Settle, SettledLoad, WaveAndLatch
    <3>2. QED
      BY <2>4, <2>5, <3>1 DEF Settle
  <2>6. CASE Commit \/ Return \/ \E u \in Node : Shed(u)
    BY <2>4, <2>6 DEF Commit, Return, Shed
  <2>7. QED
    BY <2>1, <2>5, <2>6 DEF Next
<1>2. QED
  BY <1>1, LoopInvariantHolds, PTL DEF Spec, LatchedForGood

--------------------------------------------------------------------------------
(* The deltas as the property states them: who gave to v, and how much.     *)
Givers(walked, v) == {u \in walked : v \in Heirs(net, load, failed, u)}

Given(walked, v) ==
  [u \in Givers(walked, v) |-> Share(net, load, failed, u, v)]

Walked == failed_in_wave \ todo

(* DeltasFromOneSnapshot, of any set of assets that were visited.           *)
DeltasOf(walked, p) ==
  /\ DOMAIN p = {v \in Node : Givers(walked, v) # {}}
  /\ \A v \in DOMAIN p :
       p[v] = SumFunctionOnSet(Given(walked, v), Givers(walked, v))

(* While a wave sheds, it is a set of assets that have failed.              *)
LEMMA WalkedAreAssets ==
  ASSUME LoopInvariant, phase = "shed"
  PROVE  /\ IsNetwork(net)
         /\ load \in [Node -> Nat]
         /\ Walked \subseteq Node
         /\ IsFiniteSet(Walked)
         /\ \A u \in todo : u \in Node \ Walked
<1>1. IsNetwork(net) /\ load \in [Node -> Nat]
  BY NetworkFacts DEF LoopInvariant, TypeOK
<1>2. failed_in_wave \subseteq Node /\ todo \subseteq failed_in_wave
  BY DEF LoopInvariant, TypeOK, WaveAndLatch
<1>3. Walked \subseteq Node /\ \A u \in todo : u \in Node \ Walked
  BY <1>2 DEF Walked
<1>4. IsFiniteSet(Walked)
  BY <1>3, NodeAssumption, FS_Subset
<1>5. QED
  BY <1>1, <1>3, <1>4

(* What each giver gave is a natural number, and there are finitely many.   *)
LEMMA GivenIsNat ==
  ASSUME IsNetwork(net), load \in [Node -> Nat],
         NEW walked \in SUBSET Node, NEW v \in Node
  PROVE  /\ IsFiniteSet(Givers(walked, v))
         /\ \A u \in Givers(walked, v) : Given(walked, v)[u] \in Nat
<1>1. Givers(walked, v) \subseteq Node
  BY DEF Givers
<1>2. IsFiniteSet(Givers(walked, v))
  BY <1>1, NodeAssumption, FS_Subset
<1>3. ASSUME NEW u \in Givers(walked, v)
      PROVE  Given(walked, v)[u] \in Nat
  <2>1. u \in Node /\ v \in Heirs(net, load, failed, u)
    BY <1>1 DEF Givers
  <2>2. Share(net, load, failed, u, v) \in Nat
    BY <2>1, ShareIsNat
  <2>3. QED
    BY <2>2 DEF Given
<1>4. QED
  BY <1>2, <1>3

(* One more asset visited: its share is one more term of the sum, wherever  *)
(* it comes in the order.                                                   *)
LEMMA OneMoreGiver ==
  ASSUME IsNetwork(net), load \in [Node -> Nat],
         NEW walked \in SUBSET Node, NEW u \in Node \ walked, NEW v \in Node
  PROVE  SumFunctionOnSet(Given(walked \cup {u}, v), Givers(walked \cup {u}, v))
           = SumFunctionOnSet(Given(walked, v), Givers(walked, v))
             + IF v \in Heirs(net, load, failed, u)
               THEN Share(net, load, failed, u, v) ELSE 0
<1> DEFINE more == walked \cup {u}
           G == Givers(walked, v)
           M == Givers(more, v)
           g == Given(walked, v)
           m == Given(more, v)
<1>1. more \in SUBSET Node
  OBVIOUS
<1>2. IsFiniteSet(G) /\ \A x \in G : g[x] \in Nat
  BY GivenIsNat
<1>3. IsFiniteSet(M) /\ \A x \in M : m[x] \in Nat
  BY <1>1, GivenIsNat
<1>4. SumFunctionOnSet(g, G) \in Nat
  BY <1>2, SumIsNat
<1>5. CASE v \in Heirs(net, load, failed, u)
  <2>1. M \ {u} = G /\ u \in M
    BY <1>5 DEF Givers
  <2>2. m[u] = Share(net, load, failed, u, v)
    BY <2>1 DEF Given
  <2>3. \A x \in G : m[x] = g[x]
    BY <2>1 DEF Given
  <2> HIDE DEF M, G, m, g
  <2>4. SumFunctionOnSet(m, M) = m[u] + SumFunctionOnSet(m, M \ {u})
    BY <1>3, <2>1, SumWithout
  <2>5. SumFunctionOnSet(m, G) = SumFunctionOnSet(g, G)
    BY <1>2, <2>3, SumAgrees
  <2>6. m[u] \in Nat
    BY <1>3, <2>1
  <2>7. SumFunctionOnSet(m, M) = SumFunctionOnSet(g, G) + m[u]
    BY <1>4, <2>1, <2>4, <2>5, <2>6
  <2>8. QED
    BY <1>5, <2>2, <2>7 DEF M, G, m, g
<1>6. CASE v \notin Heirs(net, load, failed, u)
  <2>1. M = G
    BY <1>6 DEF Givers
  <2>2. m = g
    BY <2>1 DEF Given
  <2>3. QED
    BY <1>4, <1>6, <2>1, <2>2
<1>7. QED
  BY <1>5, <1>6

(* Shed adds one giver to the deltas.                                       *)
LEMMA ShedAddsGiver ==
  ASSUME LoopInvariant, phase = "shed", DeltasOf(Walked, pending),
         NEW u \in Node, Shed(u)
  PROVE  DeltasOf(Walked \cup {u}, pending')
<1> DEFINE W == Walked
           more == W \cup {u}
           heirs == Heirs(net, load, failed, u)
           share(v) == Share(net, load, failed, u, v)
           before(v) == IF v \in DOMAIN pending THEN pending[v] ELSE 0
           total(v) == SumFunctionOnSet(Given(W, v), Givers(W, v))
<1>1. /\ IsNetwork(net) /\ load \in [Node -> Nat]
      /\ W \in SUBSET Node /\ u \in Node \ W
  BY WalkedAreAssets DEF Shed
<1>2. pending' = [v \in DOMAIN pending \cup heirs |->
                    IF v \in heirs THEN before(v) + share(v) ELSE pending[v]]
  BY DEF Shed
<1>3. heirs \subseteq Node
  BY <1>1, ShareIsNat, SurvivorsAreFinite
<1>4. ASSUME NEW v \in Node
      PROVE  Givers(more, v) # {} <=> Givers(W, v) # {} \/ v \in heirs
  BY DEF Givers
<1>5. DOMAIN pending = {v \in Node : Givers(W, v) # {}}
  BY DEF DeltasOf
<1>6. DOMAIN pending' = {v \in Node : Givers(more, v) # {}}
  <2>1. DOMAIN pending' = DOMAIN pending \cup heirs
    BY <1>2
  <2> HIDE DEF heirs, more, W
  <2>2. QED
    BY <1>3, <1>4, <1>5, <2>1
<1>7. ASSUME NEW v \in Node
      PROVE  before(v) = total(v) /\ total(v) \in Nat
  <2>1. total(v) \in Nat
    BY <1>1, GivenIsNat, SumIsNat
  <2>2. CASE v \in DOMAIN pending
    BY <2>1, <2>2 DEF DeltasOf
  <2>3. CASE v \notin DOMAIN pending
    <3>1. Givers(W, v) = {}
      BY <1>5, <2>3
    <3>2. total(v) = 0
      BY <3>1, SumOfNothing
    <3>3. QED
      BY <2>3, <3>2
  <2>4. QED
    BY <2>2, <2>3
<1>8. ASSUME NEW v \in DOMAIN pending'
      PROVE  pending'[v] = SumFunctionOnSet(Given(more, v), Givers(more, v))
  <2>1. v \in Node
    BY <1>6
  <2>2. SumFunctionOnSet(Given(more, v), Givers(more, v))
          = total(v) + IF v \in heirs THEN share(v) ELSE 0
    BY <1>1, <2>1, OneMoreGiver
  <2>3. before(v) = total(v) /\ total(v) \in Nat
    BY <1>7, <2>1
  <2>4. CASE v \in heirs
    BY <1>2, <2>2, <2>3, <2>4
  <2>5. CASE v \notin heirs
    <3>1. v \in DOMAIN pending /\ pending'[v] = pending[v]
      BY <1>2, <2>5
    <3>2. pending'[v] = total(v)
      BY <2>3, <3>1
    <3> HIDE DEF total
    <3>3. QED
      BY <2>2, <2>3, <2>5, <3>2
  <2>6. QED
    BY <2>4, <2>5
<1>9. QED
  BY <1>6, <1>8 DEF DeltasOf

(* Order independence (cascade.py:97-103, 181-212): in every reachable      *)
(* state the deltas are those of the assets visited, each from the loads    *)
(* and failures of the whole wave.                                          *)
THEOREM OrderMakesNoDifference == Spec => []DeltasFromOneSnapshot
<1> DEFINE Deltas == phase = "shed" => DeltasOf(Walked, pending)
<1>1. Init => Deltas
  BY DEF Init
<1>2. ASSUME LoopInvariant, Deltas, [Next]_vars
      PROVE  Deltas'
  <2>1. CASE Commit
    <3>1. Walked' = {} /\ pending' = [v \in {} |-> 0]
      BY <2>1 DEF Commit, Walked, NoDeltas
    <3>2. \A v \in Node : Givers(Walked, v)' = {}
      BY <3>1 DEF Givers
    <3>3. DeltasOf(Walked, pending)'
      BY <3>1, <3>2 DEF DeltasOf
    <3>4. QED
      BY <3>3
  <2>2. ASSUME NEW u \in Node, Shed(u)
        PROVE  Deltas'
    <3>1. DeltasOf(Walked \cup {u}, pending')
      BY <1>2, <2>2, ShedAddsGiver DEF Shed
    <3>2. Walked' = Walked \cup {u}
      BY <1>2, <2>2 DEF Shed, Walked, LoopInvariant, TypeOK
    <3>3. \A w, v : Givers(w, v)' = Givers(w', v') /\ Given(w, v)' = Given(w', v')
      BY <2>2 DEF Shed, input, Givers, Given
    <3>4. QED
      BY <3>1, <3>2, <2>2 DEF Shed, input, DeltasOf, Givers, Given
  <2>3. CASE Settle \/ Return
    BY <2>3 DEF Settle, Return
  <2>4. CASE UNCHANGED vars
    BY <1>2, <2>4 DEF vars, DeltasOf, Walked, Givers, Given
  <2>5. QED
    BY <1>2, <2>1, <2>2, <2>3, <2>4 DEF Next
<1>3. Deltas => DeltasFromOneSnapshot
  BY DEF DeltasFromOneSnapshot, DeltasOf, Walked, Givers, Given
<1> HIDE DEF Deltas
<1>4. QED
  BY <1>1, <1>2, <1>3, LoopInvariantHolds, PTL DEF Spec

--------------------------------------------------------------------------------
(* Arithmetic of a share of l in the ratio of c to t.                       *)
LEMMA QuotientTimes ==
  ASSUME NEW l \in Nat, NEW c \in Nat, NEW t \in Nat, t > 0, NEW q \in Nat,
         q <= (l * c) \div t
  PROVE  t * q <= l * c
<1> DEFINE p == l * c
           d == p \div t
<1>1. p \in Nat
  OBVIOUS
<1> HIDE DEF p
<1>2. d \in Nat /\ t * d <= p
  BY <1>1
<1>3. q <= d
  BY DEF p
<1> HIDE DEF d
<1>4. t * q <= t * d
  BY <1>2, <1>3
<1>5. t * q \in Nat /\ t * d \in Nat
  BY <1>2
<1> DEFINE tq == t * q
           td == t * d
<1>6. tq <= td /\ td <= p /\ tq \in Nat /\ td \in Nat
  BY <1>2, <1>4, <1>5
<1> HIDE DEF tq, td
<1>7. tq <= p
  BY <1>1, <1>6
<1>8. QED
  BY <1>7 DEF tq, p

LEMMA CancelFactor ==
  ASSUME NEW t \in Nat, t > 0, NEW x \in Nat, NEW l \in Nat, t * x <= l * t
  PROVE  x <= l
<1>1. SUFFICES ASSUME x > l
               PROVE  FALSE
  OBVIOUS
<1>2. x >= l + 1
  BY <1>1
<1>3. t * x >= t * (l + 1)
  BY <1>2
<1>4. t * (l + 1) = l * t + t
  OBVIOUS
<1>5. l * t \in Nat /\ t * x \in Nat
  OBVIOUS
<1>6. QED
  BY <1>3, <1>4, <1>5

(* An asset passes on no more than it carried, whether its load is split by *)
(* capacity or evenly (cascade.py:190-208).                                 *)
LEMMA SharesBounded ==
  ASSUME NEW n, IsNetwork(n), NEW ld \in [Node -> Nat], NEW gone, NEW u \in Node
  PROVE  LET H == Heirs(n, ld, gone, u)
         IN  SumFunctionOnSet([v \in H |-> Share(n, ld, gone, u, v)], H) <= ld[u]
<1> DEFINE H == Heirs(n, ld, gone, u)
           S == Survivors(n, gone, u)
           f == [v \in H |-> Share(n, ld, gone, u, v)]
           c == [v \in S |-> LinkCapacity(n, u, v)]
           ones == [v \in S |-> 1]
           t == TotalCapacity(n, gone, u)
           card == Cardinality(S)
           total == SumFunctionOnSet(f, H)
<1>1. ld[u] \in Nat
  OBVIOUS
<1>2. CASE H = {}
  <2>1. total = 0
    BY <1>2, SumOfNothing
  <2>2. QED
    BY <1>1, <2>1
<1>3. CASE H # {}
  <2>1. /\ H = S
        /\ CapacityDeclared(n, gone, u) => t > 0
    BY <1>3 DEF Heirs
  <2>2. IsFiniteSet(S) /\ card \in Nat /\ S # {}
    BY <1>3, <2>1, SurvivorsAreFinite
  <2>3. \A v \in S : f[v] \in Nat
    BY <2>1, ShareIsNat
  <2>4. \A v \in S : f[v] = Share(n, ld, gone, u, v)
    BY <2>1
  <2>5. total = SumFunctionOnSet(f, S)
    BY <2>1
  <2>6. total \in Nat
    <3> HIDE DEF f, S, H
    <3>1. QED
      BY <2>2, <2>3, <2>5, SumIsNat
  <2>7. \A v \in S : c[v] = LinkCapacity(n, u, v) /\ c[v] \in Nat
    BY SurvivorsAreFinite, LinkCapacityIsNat
  <2>8. CASE CapacityDeclared(n, gone, u)
    <3>1. t \in Nat /\ t > 0
      BY <2>1, <2>8, TotalCapacityIsNat
    <3>2. t = SumFunctionOnSet(c, S)
      BY DEF TotalCapacity
    <3>3. ASSUME NEW v \in S
          PROVE  t * f[v] <= ld[u] * c[v]
      <4>1. f[v] = Lesser(c[v], (ld[u] * c[v]) \div t)
        BY <2>4, <2>7, <2>8 DEF Share
      <4>2. (ld[u] * c[v]) \div t \in Nat /\ f[v] \in Nat /\ c[v] \in Nat
        BY <1>1, <2>3, <2>7, <3>1, QuotientIsNat
      <4> HIDE DEF t, f, c, S
      <4>3. f[v] <= (ld[u] * c[v]) \div t
        BY <4>1, <4>2 DEF Lesser
      <4>4. QED
        BY <1>1, <3>1, <4>2, <4>3, QuotientTimes
    <3> HIDE DEF t, f, c, S, H, total
    <3>4. \A v \in S : c[v] \in Nat
      BY <2>7
    <3>5. t * SumFunctionOnSet(f, S) <= ld[u] * SumFunctionOnSet(c, S)
      BY <1>1, <2>2, <2>3, <3>1, <3>3, <3>4, SumInProportion
    <3>6. t * total <= ld[u] * t
      BY <2>5, <3>2, <3>5
    <3>7. total <= ld[u]
      BY <1>1, <2>6, <3>1, <3>6, CancelFactor
    <3>8. QED
      BY <3>7 DEF total, f, H
  <2>9. CASE ~ CapacityDeclared(n, gone, u)
    <3>1. card > 0
      BY <2>2, FS_EmptySet
    <3>2. card = SumFunctionOnSet(ones, S)
      BY <2>2, SumOfOnes
    <3>3. ASSUME NEW v \in S
          PROVE  card * f[v] <= ld[u] * ones[v]
      <4>1. f[v] = ld[u] \div card
        BY <2>4, <2>9 DEF Share
      <4>2. ones[v] = 1 /\ f[v] \in Nat
        BY <2>3
      <4>3. (ld[u] * 1) = ld[u]
        BY <1>1
      <4> HIDE DEF card, f, ones, S
      <4>4. f[v] <= (ld[u] * 1) \div card
        BY <4>1, <4>2, <4>3
      <4>5. card * f[v] <= ld[u] * 1
        BY <1>1, <2>2, <3>1, <4>2, <4>4, QuotientTimes
      <4>6. QED
        BY <4>2, <4>5
    <3>4. \A v \in S : ones[v] \in Nat
      OBVIOUS
    <3> HIDE DEF card, f, ones, S, H, total
    <3>5. card * SumFunctionOnSet(f, S) <= ld[u] * SumFunctionOnSet(ones, S)
      BY <1>1, <2>2, <2>3, <3>3, <3>4, SumInProportion
    <3>6. card * total <= ld[u] * card
      BY <2>5, <3>2, <3>5
    <3>7. total <= ld[u]
      BY <1>1, <2>2, <2>6, <3>1, <3>6, CancelFactor
    <3>8. QED
      BY <3>7 DEF total, f, H
  <2>10. QED
    BY <2>8, <2>9
<1>4. QED
  BY <1>2, <1>3

(* The load in transit grows by what the asset visited passes on.           *)
LEMMA ShedAddsShares ==
  ASSUME LoopInvariant, phase = "shed", NEW u \in Node, Shed(u)
  PROVE  LET H == Heirs(net, load, failed, u)
         IN  SumFunctionOnSet(pending', DOMAIN pending')
               = SumFunctionOnSet(pending, DOMAIN pending)
                 + SumFunctionOnSet([v \in H |-> Share(net, load, failed, u, v)], H)
<1> DEFINE H == Heirs(net, load, failed, u)
           D == DOMAIN pending
           f == [v \in H |-> Share(net, load, failed, u, v)]
           R == D \cup H
           old == [v \in R |-> IF v \in D THEN pending[v] ELSE 0]
           new == [v \in R |-> IF v \in H THEN f[v] ELSE 0]
<1>1. IsNetwork(net) /\ load \in [Node -> Nat]
  BY WalkedAreAssets
<1>2. D \subseteq Node /\ pending \in [D -> Nat]
  BY DEF LoopInvariant, TypeOK
<1>3. \A v \in H : v \in Node /\ f[v] \in Nat
  BY <1>1, ShareIsNat, SurvivorsAreFinite
<1>4. IsFiniteSet(R) /\ IsFiniteSet(D) /\ IsFiniteSet(H)
  <2>1. R \subseteq Node
    BY <1>2, <1>3
  <2>2. IsFiniteSet(R)
    BY <2>1, NodeAssumption, FS_Subset
  <2> HIDE DEF R
  <2>3. D \subseteq R /\ H \subseteq R
    BY DEF R
  <2> HIDE DEF D, H
  <2>4. IsFiniteSet(D) /\ IsFiniteSet(H)
    BY <2>2, <2>3, FS_Subset
  <2>5. QED
    BY <2>2, <2>4
<1>5. /\ pending' = [v \in R |-> IF v \in H
                               THEN (IF v \in D THEN pending[v] ELSE 0) + f[v]
                               ELSE pending[v]]
      /\ DOMAIN pending' = R
  BY DEF Shed
<1>6. \A v \in R : old[v] \in Nat
  BY <1>2
<1>7. \A v \in R : new[v] \in Nat
  BY <1>3
<1>8. \A v \in R : pending'[v] = old[v] + new[v]
  <2> SUFFICES ASSUME NEW v \in R
               PROVE  pending'[v] = old[v] + new[v]
    OBVIOUS
  <2>1. CASE v \in H
    BY <1>5, <2>1
  <2>2. CASE v \notin H
    <3>1. v \in D /\ pending[v] \in Nat
      BY <1>2, <2>2
    <3>2. pending'[v] = pending[v] /\ old[v] = pending[v] /\ new[v] = 0
      BY <1>5, <2>2, <3>1
    <3> HIDE DEF old, new
    <3>3. QED
      BY <3>1, <3>2
  <2>3. QED
    BY <2>1, <2>2
<1>9. (\A v \in D : pending[v] \in Nat /\ old[v] = pending[v])
      /\ \A v \in H : f[v] \in Nat /\ new[v] = f[v]
  BY <1>2, <1>3
<1>10. /\ D \in SUBSET R /\ H \in SUBSET R
       /\ (\A v \in R \ D : old[v] = 0)
       /\ \A v \in R \ H : new[v] = 0
  OBVIOUS
<1> HIDE DEF H, D, f, R, old, new
<1>11. SumFunctionOnSet(pending', R)
         = SumFunctionOnSet(old, R) + SumFunctionOnSet(new, R)
  BY <1>4, <1>6, <1>7, <1>8, SumAdds
<1>12. SumFunctionOnSet(old, R) = SumFunctionOnSet(old, D)
  BY <1>4, <1>6, <1>10, SumWithoutZeros
<1>13. SumFunctionOnSet(new, R) = SumFunctionOnSet(new, H)
  BY <1>4, <1>7, <1>10, SumWithoutZeros
<1>14. SumFunctionOnSet(old, D) = SumFunctionOnSet(pending, D)
  BY <1>4, <1>9, SumAgrees
<1>15. SumFunctionOnSet(new, H) = SumFunctionOnSet(f, H)
  BY <1>4, <1>9, SumAgrees
<1>16. SumFunctionOnSet(pending', R)
         = SumFunctionOnSet(pending, D) + SumFunctionOnSet(f, H)
  BY <1>11, <1>12, <1>13, <1>14, <1>15
<1>17. QED
  BY <1>5, <1>16 DEF H, D, f

(* No more is in transit than the assets visited carried.                   *)
InTransitBounded ==
  phase = "shed" =>
    SumFunctionOnSet(pending, DOMAIN pending) <= SumFunctionOnSet(load, Walked)

LEMMA InTransitBoundedStep ==
  ASSUME LoopInvariant, phase = "shed", InTransitBounded, NEW u \in Node, Shed(u)
  PROVE  InTransitBounded'
<1> DEFINE W == Walked
           D == DOMAIN pending
           H == Heirs(net, load, failed, u)
           passed == SumFunctionOnSet([v \in H |-> Share(net, load, failed, u, v)], H)
           transit == SumFunctionOnSet(pending, D)
           carried == SumFunctionOnSet(load, W)
<1>1. /\ IsNetwork(net) /\ load \in [Node -> Nat]
      /\ W \in SUBSET Node /\ u \in Node \ W
      /\ IsFiniteSet(W)
  BY WalkedAreAssets DEF Shed
<1>2. W' = W \cup {u} /\ load' = load
  BY DEF Shed, Walked, LoopInvariant, TypeOK
<1>3. SumFunctionOnSet(pending', DOMAIN pending') = transit + passed
  BY ShedAddsShares
<1>4. passed <= load[u]
  BY <1>1, SharesBounded
<1>5. transit <= carried
  BY DEF InTransitBounded
<1>6. \A v \in Node : load[v] \in Nat
  BY <1>1
<1>7. SumFunctionOnSet(load, W \cup {u}) = load[u] + carried
  <2> HIDE DEF W
  <2>1. QED
    BY <1>1, <1>6, NodeAssumption, SumWith
<1>8. carried \in Nat
  <2> HIDE DEF W
  <2>1. QED
    BY <1>1, <1>6, SumIsNat
<1>9. transit \in Nat
  <2>1. D \subseteq Node /\ \A v \in D : pending[v] \in Nat
    BY DEF LoopInvariant, TypeOK
  <2>2. IsFiniteSet(D)
    BY <2>1, NodeAssumption, FS_Subset
  <2> HIDE DEF D
  <2>3. QED
    BY <2>1, <2>2, SumIsNat
<1>10. passed \in Nat
  <2> DEFINE f == [v \in H |-> Share(net, load, failed, u, v)]
  <2>1. H \subseteq Node /\ \A v \in H : f[v] \in Nat
    BY <1>1, ShareIsNat, SurvivorsAreFinite
  <2>2. IsFiniteSet(H)
    BY <2>1, NodeAssumption, FS_Subset
  <2>3. passed = SumFunctionOnSet(f, H)
    OBVIOUS
  <2> HIDE DEF H, f, passed
  <2>4. QED
    BY <2>1, <2>2, <2>3, SumIsNat
<1>11. load[u] \in Nat
  BY <1>1
<1>12. SumFunctionOnSet(load, W') = load[u] + carried
  BY <1>2, <1>7
<1> HIDE DEF passed, transit, carried
<1>13. SumFunctionOnSet(pending', DOMAIN pending') <= SumFunctionOnSet(load', W')
  BY <1>2, <1>3, <1>4, <1>5, <1>8, <1>9, <1>10, <1>11, <1>12
<1>14. QED
  BY <1>13 DEF InTransitBounded

(* Redistribution creates no load (cascade.py:181-208): what a wave passes  *)
(* on is at most what it carried, and goes to survivors only.               *)
THEOREM RedistributionCreatesNoLoad == Spec => []NoLoadCreated
<1>1. Init => InTransitBounded
  BY DEF Init, InTransitBounded
<1>2. ASSUME LoopInvariant, InTransitBounded, [Next]_vars
      PROVE  InTransitBounded'
  <2>1. CASE Commit
    <3>1. Walked' = {} /\ DOMAIN pending' = {}
      BY <2>1 DEF Commit, Walked, NoDeltas
    <3>2. SumFunctionOnSet(pending', {}) = 0 /\ SumFunctionOnSet(load', {}) = 0
      BY SumOfNothing
    <3>3. QED
      BY <3>1, <3>2 DEF InTransitBounded
  <2>2. ASSUME NEW u \in Node, Shed(u)
        PROVE  InTransitBounded'
    BY <1>2, <2>2, InTransitBoundedStep DEF Shed
  <2>3. CASE Settle \/ Return
    BY <2>3 DEF Settle, Return, InTransitBounded
  <2>4. CASE UNCHANGED vars
    BY <1>2, <2>4 DEF vars, InTransitBounded, Walked
  <2>5. QED
    BY <1>2, <2>1, <2>2, <2>3, <2>4 DEF Next
<1>3. LoopInvariant /\ InTransitBounded => NoLoadCreated
  BY DEF LoopInvariant, WaveAndLatch, InTransitBounded, NoLoadCreated, Walked
<1>4. QED
  BY <1>1, <1>2, <1>3, LoopInvariantHolds, PTL DEF Spec

================================================================================
