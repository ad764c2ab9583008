---------------------------- MODULE RefinementProofs ----------------------------
(***************************************************************************)
(* The wave loop implements the full sweep for every network: every step   *)
(* of run_cascade is a step of the abstract cascade or invisible to it.    *)
(* (That it also returns is liveness, which TLC checks.)                   *)
(***************************************************************************)
EXTENDS CascadeRefinement, CascadeProofs

(* When a wave is settled, what reached a survivor is what the abstract     *)
(* cascade says it received from the whole wave.                            *)
LEMMA SettledIsReceived ==
  ASSUME LoopInvariant, DeltasFromOneSnapshot, Settle,
         NEW v \in Node \ failed
  PROVE  SettledLoad[v] = load[v] + Received(net, load, failed_in_wave, failed, v)
<1> DEFINE givers == {u \in failed_in_wave : v \in Heirs(net, load, failed, u)}
           share == [u \in givers |-> Share(net, load, failed, u, v)]
<1>1. phase = "shed" /\ failed_in_wave \ todo = failed_in_wave
  BY DEF Settle
<1>2. Received(net, load, failed_in_wave, failed, v) = SumFunctionOnSet(share, givers)
  BY DEF Received
<1>3. /\ v \in DOMAIN pending <=> givers # {}
      /\ v \in DOMAIN pending => pending[v] = SumFunctionOnSet(share, givers)
  BY <1>1 DEF DeltasFromOneSnapshot
<1>4. load[v] \in Nat
  BY NetworkFacts DEF LoopInvariant, TypeOK
<1>5. CASE v \in DOMAIN pending
  BY <1>2, <1>3, <1>5 DEF SettledLoad
<1>6. CASE v \notin DOMAIN pending
  <2>1. SumFunctionOnSet(share, givers) = 0
    BY <1>3, <1>6, SumOfNothing
  <2>2. SettledLoad[v] = load[v]
    BY <1>6 DEF SettledLoad
  <2>3. QED
    BY <1>2, <1>4, <2>1, <2>2
<1>7. QED
  BY <1>5, <1>6

(* The abstract module has the rules of a wave through an instance of its   *)
(* own: they are the same rules.                                            *)
LEMMA SameSum ==
  ASSUME NEW f, NEW s
  PROVE  Sweep!SumFunctionOnSet(f, s) = SumFunctionOnSet(f, s)
  BY DEF Sweep!SumFunctionOnSet, SumFunctionOnSet,
         Sweep!FoldFunctionOnSet, FoldFunctionOnSet,
         Sweep!MapThenFoldSet, MapThenFoldSet

LEMMA SameShares ==
  ASSUME NEW n, NEW ld, NEW gone, NEW u
  PROVE  /\ Sweep!Heirs(n, ld, gone, u) = Heirs(n, ld, gone, u)
         /\ \A v : Sweep!Share(n, ld, gone, u, v) = Share(n, ld, gone, u, v)
<1>1. /\ Sweep!Survivors(n, gone, u) = Survivors(n, gone, u)
      /\ \A v : Sweep!LinkCapacity(n, u, v) = LinkCapacity(n, u, v)
  BY DEF Sweep!Survivors, Survivors, Sweep!Successors, Successors,
         Sweep!LinkCapacity, LinkCapacity
<1>2. Sweep!CapacityDeclared(n, gone, u) <=> CapacityDeclared(n, gone, u)
  BY <1>1 DEF Sweep!CapacityDeclared, CapacityDeclared
<1>3. Sweep!TotalCapacity(n, gone, u) = TotalCapacity(n, gone, u)
  BY <1>1, SameSum DEF Sweep!TotalCapacity, TotalCapacity
<1>4. Sweep!Heirs(n, ld, gone, u) = Heirs(n, ld, gone, u)
  BY <1>1, <1>2, <1>3, Zenon DEF Sweep!Heirs, Heirs
<1>5. \A x, y : Sweep!Lesser(x, y) = Lesser(x, y)
  BY DEF Sweep!Lesser, Lesser
<1>6. Sweep!Cardinality(Survivors(n, gone, u)) = Cardinality(Survivors(n, gone, u))
  BY DEF Sweep!Cardinality, Cardinality
<1>7. ASSUME NEW v
      PROVE  Sweep!Share(n, ld, gone, u, v) = Share(n, ld, gone, u, v)
  BY <1>1, <1>2, <1>3, <1>5, <1>6, Zenon DEF Sweep!Share, Share
<1>8. QED
  BY <1>4, <1>7

LEMMA SameRules ==
  /\ \A n, ld, wave, gone, v :
       Sweep!Received(n, ld, wave, gone, v) = Received(n, ld, wave, gone, v)
  /\ \A n, e, ld, gone, v : Sweep!Fails(n, e, ld, gone, v) <=> Fails(n, e, ld, gone, v)
<1>1. ASSUME NEW n, NEW ld, NEW wave, NEW gone, NEW v
      PROVE  Sweep!Received(n, ld, wave, gone, v) = Received(n, ld, wave, gone, v)
  BY SameShares, SameSum DEF Sweep!Received, Received
<1>2. ASSUME NEW n, NEW e, NEW ld, NEW gone, NEW v
      PROVE  Sweep!Fails(n, e, ld, gone, v) <=> Fails(n, e, ld, gone, v)
  <2>1. \A link : Sweep!edge_services(link) = edge_services(link)
    BY DEF Sweep!edge_services, edge_services,
           Sweep!SERVICE_BY_EDGE_TYPE, SERVICE_BY_EDGE_TYPE
  <2>2. \A type : Sweep!required_services(type) = required_services(type)
    BY DEF Sweep!required_services, required_services,
           Sweep!CRITICAL_DEPENDENCIES, CRITICAL_DEPENDENCIES
  <2>3. \A s : Sweep!Suppliers(n, v, s) = Suppliers(n, v, s)
    BY <2>1 DEF Sweep!Suppliers, Suppliers, Sweep!Predecessors, Predecessors
  <2>4. Sweep!ModelledServices(n, v) = ModelledServices(n, v)
    BY <2>2, <2>3 DEF Sweep!ModelledServices, ModelledServices
  <2>5. Sweep!Severed(n, v, gone) <=> Severed(n, v, gone)
    BY <2>3, <2>4 DEF Sweep!Severed, Severed
  <2>6. Sweep!Overloaded(n, ld, v) <=> Overloaded(n, ld, v)
    BY DEF Sweep!Overloaded, Overloaded
  <2>7. QED
    BY <2>5, <2>6, Zenon DEF Sweep!Fails, Fails
<1>3. QED
  BY <1>1, <1>2

(* Settle is the abstract Wave.                                             *)
LEMMA SettleIsWave ==
  ASSUME LoopInvariant, LoopInvariant', DeltasFromOneSnapshot, Settle
  PROVE  Sweep!Wave
<1>1. /\ phase = "shed" /\ phase' = "head"
      /\ failed' = failed /\ load' = SettledLoad /\ idx' = idx + 1
      /\ net' = net /\ enforce' = enforce /\ max_waves' = max_waves
  BY DEF Settle, input
<1>2. /\ failed_in_wave # {} /\ failed_in_wave \subseteq Node
      /\ failed_in_wave \subseteq failed
      /\ idx < max_waves
      /\ DOMAIN pending \cap failed = {}
  BY <1>1 DEF LoopInvariant, WaveAndLatch
<1>3. Verdict = "none" /\ Verdict' = "none"
  BY <1>1 DEF Verdict
<1>4. FailedBefore' = failed /\ failed = FailedBefore \cup failed_in_wave
  BY <1>1, <1>2 DEF FailedBefore
<1>5. load' = [v \in Node |->
                 IF v \in failed THEN load[v]
                 ELSE load[v] + Received(net, load, failed_in_wave, failed, v)]
  <2>1. \A v \in Node \cap failed : SettledLoad[v] = load[v]
    BY <1>2 DEF SettledLoad
  <2>2. \A v \in Node \ failed :
          SettledLoad[v] = load[v] + Received(net, load, failed_in_wave, failed, v)
    BY SettledIsReceived
  <2>3. SettledLoad = [v \in Node |-> SettledLoad[v]]
    BY DEF SettledLoad
  <2>4. QED
    BY <1>1, <2>1, <2>2, <2>3
<1>6. failed_in_wave' = {v \in Node \ failed : Fails(net, enforce, load', failed, v)}
  <2>1. idx' > 0
    BY <1>1 DEF LoopInvariant, TypeOK
  <2>2. failed_in_wave' = {v \in Node \ failed' : Fails(net', enforce', load', failed', v)}
    BY <1>1, <2>1 DEF LoopInvariant, SurvivorsPassed, Fails, Overloaded, Severed,
       ModelledServices, Suppliers, Predecessors
  <2>3. QED
    BY <1>1, <2>2
<1>7. QED
  BY <1>1, <1>2, <1>3, <1>4, <1>5, <1>6, SameRules DEF Sweep!Wave

(* run_cascade implements the full sweep (cascade.py:97-121, 214-228): no   *)
(* asset observes a half-applied wave, and neither the order in which a     *)
(* wave is walked nor the frontier shows in the outcome.                    *)
THEOREM LoopImplementsSweep == Spec => Sweep!Safety
<1>1. Init => Sweep!Init
  BY DEF Init, Sweep!Init, FailedBefore, Verdict
<1>2. ASSUME LoopInvariant, LoopInvariant', DeltasFromOneSnapshot, [Next]_vars
      PROVE  [Sweep!Next]_(Sweep!vars)
  <2>1. CASE Commit
    <3>1. FailedBefore' = FailedBefore
      BY <1>2, <2>1 DEF Commit, FailedBefore, LoopInvariant, WaveAndLatch
    <3>2. QED
      BY <2>1, <3>1 DEF Commit, input, Verdict, Sweep!vars
  <2>2. ASSUME NEW u \in Node, Shed(u)
        PROVE  UNCHANGED Sweep!vars
    BY <2>2 DEF Shed, input, FailedBefore, Verdict, Sweep!vars
  <2>3. CASE Settle
    BY <1>2, <2>3, SettleIsWave DEF Sweep!Next
  <2>4. CASE Return
    <3>1. failed_in_wave \subseteq Node
      BY <1>2, <2>4 DEF Return, LoopInvariant, WaveAndLatch
    <3>2. Sweep!Stop
      BY <2>4, <3>1 DEF Return, input, FailedBefore, Verdict, Sweep!Stop
    <3>3. QED
      BY <3>2 DEF Sweep!Next
  <2>5. CASE UNCHANGED vars
    BY <2>5 DEF vars, FailedBefore, Verdict, Sweep!vars
  <2>6. QED
    BY <1>2, <2>1, <2>2, <2>3, <2>4, <2>5 DEF Next
<1>3. QED
  BY <1>1, <1>2, LoopInvariantHolds, OrderMakesNoDifference, PTL DEF Spec, Sweep!Safety

================================================================================
