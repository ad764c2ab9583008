-------------------------------- MODULE Cascade --------------------------------
(***************************************************************************)
(* run_cascade (backend/app/simulation/cascade.py), the wave loop that the *)
(* worker runs on one network from one set of initial failures.            *)
(*                                                                         *)
(* One iteration of the loop is Commit (phase 1: latch the wave, record it *)
(* and publish it), one Shed(u) for each asset of the wave (phase 2), and  *)
(* Settle (phases 3 and 4: apply every delta, decide the next wave on the  *)
(* frontier).  Return is the exit of the loop.  The program visits a wave  *)
(* in sorted order; Shed takes its assets in any order, so that what is    *)
(* checked here does not depend on how assets are named.                   *)
(*                                                                         *)
(* A definition marked "Faulty" is no part of the specification: it is what*)
(* a plausible bug would make of the definition after it, and shows that   *)
(* the properties can fail.                                                *)
(***************************************************************************)
EXTENDS CascadeRules, Sequences

CONSTANTS
  Networks,         \* the networks a run may be given
  InitialFailures,  \* the sets of asset ids a run may be given
  MaxWaves          \* the bounds (max_waves) a run may be given

ASSUME NetworksAssumption == \A n \in Networks : IsNetwork(n)
ASSUME MaxWavesAssumption == MaxWaves \subseteq Nat \ {0}

VARIABLES
  net,              \* G_baseline
  enforce,          \* enforce_edge_semantics
  max_waves,        \* the wave guardrail
  phase,            \* where the run stands: "head" of the loop, "shed", ...
  idx,              \* current_wave_idx
  failed,           \* the latch
  failed_in_wave,   \* the wave being committed, then the next one
  load,             \* current_load of every asset
  pending,          \* deltas of this wave: a function on the assets reached
  todo,             \* assets of the wave whose load is not yet shed
  waves,            \* the waves recorded and published so far
  stabilized        \* the flag the run returns

input == <<net, enforce, max_waves>>

vars == <<net, enforce, max_waves, phase, idx, failed, failed_in_wave, load,
          pending, todo, waves, stabilized>>

NoDeltas == [v \in {} |-> 0]

(* A run whose initial failures are not all assets of the graph raises      *)
(* ValueError before anything else.                                         *)
Init ==
  /\ net \in Networks
  /\ enforce \in BOOLEAN
  /\ max_waves \in MaxWaves
  /\ failed_in_wave \in InitialFailures
  /\ phase = IF failed_in_wave \subseteq Node THEN "head" ELSE "rejected"
  /\ idx = 0
  /\ failed = {}
  /\ load = net.load
  /\ pending = NoDeltas
  /\ todo = {}
  /\ waves = <<>>
  /\ stabilized = FALSE

(* Faulty: the guardrail is not tested.                                     *)
CommitUnbounded ==
  /\ phase = "head"
  /\ failed_in_wave # {}
  /\ failed' = failed \cup failed_in_wave
  /\ waves' = Append(waves, [marginal |-> failed_in_wave, cumulative |-> failed'])
  /\ pending' = NoDeltas
  /\ todo' = failed_in_wave
  /\ phase' = "shed"
  /\ UNCHANGED <<input, idx, failed_in_wave, load, stabilized>>

(* Faulty: the wave is recorded before it is latched.                       *)
CommitRecordsFirst ==
  /\ phase = "head"
  /\ failed_in_wave # {}
  /\ idx < max_waves
  /\ waves' = Append(waves, [marginal |-> failed_in_wave, cumulative |-> failed])
  /\ failed' = failed \cup failed_in_wave
  /\ pending' = NoDeltas
  /\ todo' = failed_in_wave
  /\ phase' = "shed"
  /\ UNCHANGED <<input, idx, failed_in_wave, load, stabilized>>

(* Phase 1: the whole wave is latched before any load moves.                *)
Commit ==
  /\ phase = "head"
  /\ failed_in_wave # {}
  /\ idx < max_waves
  /\ failed' = failed \cup failed_in_wave
  /\ waves' = Append(waves, [marginal |-> failed_in_wave, cumulative |-> failed'])
  /\ pending' = NoDeltas
  /\ todo' = failed_in_wave
  /\ phase' = "shed"
  /\ UNCHANGED <<input, idx, failed_in_wave, load, stabilized>>

(* Faulty: a later asset of the wave sees the load an earlier one shed.     *)
ShedAtOnce(u) ==
  /\ phase = "shed"
  /\ u \in todo
  /\ todo' = todo \ {u}
  /\ LET heirs == Heirs(net, load, failed, u)
     IN  /\ load' = [v \in Node |-> IF v \in heirs
                                    THEN load[v] + Share(net, load, failed, u, v)
                                    ELSE load[v]]
         /\ pending' = [v \in DOMAIN pending \cup heirs |-> 0]
  /\ UNCHANGED <<input, phase, idx, failed, failed_in_wave, waves, stabilized>>

(* Phase 2, one asset of the wave: its shares are added to the deltas; no   *)
(* load changes yet.                                                        *)
Shed(u) ==
  /\ phase = "shed"
  /\ u \in todo
  /\ todo' = todo \ {u}
  /\ LET heirs == Heirs(net, load, failed, u)
         before(v) == IF v \in DOMAIN pending THEN pending[v] ELSE 0
     IN  pending' = [v \in DOMAIN pending \cup heirs |->
                       IF v \in heirs
                       THEN before(v) + Share(net, load, failed, u, v)
                       ELSE pending[v]]
  /\ UNCHANGED <<input, phase, idx, failed, failed_in_wave, load, waves, stabilized>>

(* Faulty: the frontier forgets the dependents of the failed assets.        *)
CandidatesByLoadOnly == IF idx = 0 THEN Node ELSE DOMAIN pending

(* The assets that are evaluated for the next wave.  The first wave is      *)
(* followed by a full sweep, later ones only by the frontier.               *)
Candidates ==
  IF idx = 0
  THEN Node
  ELSE DOMAIN pending \cup
       (IF enforce THEN UNION {Successors(net, u) : u \in failed_in_wave} ELSE {})

(* The loads once every delta of the wave is applied.                       *)
SettledLoad ==
  [v \in Node |-> IF v \in DOMAIN pending THEN load[v] + pending[v] ELSE load[v]]

(* Faulty: an asset that failed is evaluated again.                         *)
SettleForgetsLatch ==
  /\ phase = "shed"
  /\ todo = {}
  /\ load' = SettledLoad
  /\ failed_in_wave' =
       {v \in Candidates : Fails(net, enforce, SettledLoad, failed, v)}
  /\ idx' = idx + 1
  /\ phase' = "head"
  /\ UNCHANGED <<input, failed, pending, todo, waves, stabilized>>

(* Phases 3 and 4.                                                          *)
Settle ==
  /\ phase = "shed"
  /\ todo = {}
  /\ load' = SettledLoad
  /\ failed_in_wave' =
       {v \in Candidates \ failed : Fails(net, enforce, SettledLoad, failed, v)}
  /\ idx' = idx + 1
  /\ phase' = "head"
  /\ UNCHANGED <<input, failed, pending, todo, waves, stabilized>>

(* Faulty: the loop ends at the guardrail only.                             *)
ReturnAtBoundOnly ==
  /\ phase = "head"
  /\ idx >= max_waves
  /\ stabilized' = (failed_in_wave = {})
  /\ phase' = "done"
  /\ UNCHANGED <<input, idx, failed, failed_in_wave, load, pending, todo, waves>>

(* Faulty: a run that settles in its last wave counts as truncated.         *)
ReturnByCount ==
  /\ phase = "head"
  /\ failed_in_wave = {} \/ idx >= max_waves
  /\ stabilized' = (idx < max_waves)
  /\ phase' = "done"
  /\ UNCHANGED <<input, idx, failed, failed_in_wave, load, pending, todo, waves>>

(* The loop ends: nothing left to fail, or the guardrail reached.           *)
Return ==
  /\ phase = "head"
  /\ failed_in_wave = {} \/ idx >= max_waves
  /\ stabilized' = (failed_in_wave = {})
  /\ phase' = "done"
  /\ UNCHANGED <<input, idx, failed, failed_in_wave, load, pending, todo, waves>>

Next ==
  \/ Commit
  \/ \E u \in Node : Shed(u)
  \/ Settle
  \/ Return

(* The run is a loop on one thread of a worker: it keeps stepping.          *)
Spec == Init /\ [][Next]_vars /\ WF_vars(Next)

--------------------------------------------------------------------------------
TypeOK ==
  /\ net \in Networks
  /\ enforce \in BOOLEAN
  /\ max_waves \in MaxWaves
  /\ phase \in {"head", "shed", "done", "rejected"}
  /\ idx \in 0 .. max_waves
  /\ failed \subseteq Node
  /\ failed_in_wave \in InitialFailures \cup SUBSET Node
  /\ load \in [Node -> Nat]
  /\ DOMAIN pending \subseteq Node
  /\ pending \in [DOMAIN pending -> Nat]
  /\ todo \subseteq failed_in_wave
  /\ waves \in Seq([marginal : SUBSET Node, cumulative : SUBSET Node])
  /\ stabilized \in BOOLEAN

(* Deciding the next wave on the frontier only loses nothing: after the     *)
(* first wave, the assets of the next wave are exactly the survivors that   *)
(* fail the test, as a sweep of the whole network would find them           *)
(* (cascade.py:214-228).                                                    *)
FrontierExact ==
  phase = "head" /\ idx > 0 =>
    failed_in_wave = {v \in Node \ failed : Fails(net, enforce, load, failed, v)}

(* The waves published and stored are disjoint and non-empty, each          *)
(* cumulative set is the union of the marginal sets so far, and the last    *)
(* one is everything that failed: what runner.py:149-163 relies on when it  *)
(* counts failures from the last wave.                                      *)
WavesPartitionFailures ==
  /\ \A i, j \in DOMAIN waves : i # j => waves[i].marginal \cap waves[j].marginal = {}
  /\ \A i \in DOMAIN waves :
       /\ waves[i].marginal # {}
       /\ waves[i].cumulative = UNION {waves[j].marginal : j \in 1 .. i}
  /\ failed = UNION {waves[i].marginal : i \in DOMAIN waves}
  /\ Len(waves) = idx + IF phase = "shed" THEN 1 ELSE 0

(* Order independence (cascade.py:97-103): however far the wave has been    *)
(* walked, and in whatever order, the deltas are those of the assets walked,*)
(* each computed from the loads and the failures of the whole wave.         *)
DeltasFromOneSnapshot ==
  phase = "shed" =>
    LET walked == failed_in_wave \ todo
        givers(v) == {u \in walked : v \in Heirs(net, load, failed, u)}
    IN  /\ DOMAIN pending = {v \in Node : givers(v) # {}}
        /\ \A v \in DOMAIN pending :
             pending[v] = SumFunctionOnSet(
               [u \in givers(v) |-> Share(net, load, failed, u, v)], givers(v))

(* Failing assets pass on what they carried and no more, and only to        *)
(* survivors: redistribution never creates load (cascade.py:181-208).       *)
NoLoadCreated ==
  phase = "shed" =>
    /\ SumFunctionOnSet(pending, DOMAIN pending)
         <= SumFunctionOnSet(load, failed_in_wave \ todo)
    /\ DOMAIN pending \cap failed = {}

(* A cascade spreads along links: from the third wave on, every asset of a  *)
(* wave is fed by an asset of the wave before it; in the second one it may  *)
(* also have been over its limit in the baseline (cascade.py:214-226).      *)
SpreadsAlongLinks ==
  \A i \in 2 .. Len(waves) : \A v \in waves[i].marginal :
    \/ \E u \in waves[i - 1].marginal : v \in Successors(net, u)
    \/ i = 2 /\ Overloaded(net, net.load, v)

(* What the flag means to a caller (cascade.py:117-121, 243-245): a run     *)
(* returned as stabilised left no survivor that would fail, and one         *)
(* returned as truncated used all its waves and left one that would.        *)
FlagTellsTheTruth ==
  phase = "done" /\ waves # <<>> =>
    /\ stabilized <=> \A v \in Node \ failed : ~ Fails(net, enforce, load, failed, v)
    /\ ~ stabilized => Len(waves) = max_waves

(* A bound of at least one wave per asset never truncates a run.            *)
NeverTruncatedByLargeBound ==
  phase = "done" /\ max_waves >= Cardinality(Node) => stabilized

(* Failure is latched (cascade.py:105-109): no step returns a failed asset  *)
(* to service, or gives it load.                                            *)
LatchedForGood ==
  [][/\ failed \subseteq failed'
     /\ \A v \in failed : load'[v] = load[v]
     /\ phase' = "head" => failed_in_wave' \cap failed' = {}]_vars

(* Dependency cycles settle instead of oscillating (cascade.py:105-109):    *)
(* every run returns.                                                       *)
EveryRunReturns == <>(phase \in {"done", "rejected"})

--------------------------------------------------------------------------------
(* The inductive invariant behind these properties: what else holds at each *)
(* point of the loop.                                                       *)

(* Where the wave stands with respect to the latch.                         *)
WaveAndLatch ==
  /\ phase # "rejected" => failed_in_wave \subseteq Node
  /\ phase = "shed" => /\ idx < max_waves
                       /\ failed_in_wave # {}
                       /\ failed_in_wave \subseteq failed
                       /\ DOMAIN pending \cap failed = {}
  /\ phase # "shed" => failed_in_wave \cap failed = {}

(* While the wave sheds, the survivors are those that passed the test the   *)
(* wave before: this is what makes the frontier enough.                     *)
SurvivorsPassed ==
  /\ phase \in {"head", "done"} /\ idx > 0 =>
       failed_in_wave = {v \in Node \ failed : Fails(net, enforce, load, failed, v)}
  /\ phase = "shed" /\ idx > 0 =>
       \A v \in Node \ failed : ~ Fails(net, enforce, load, failed \ failed_in_wave, v)

(* What a returned run says of the wave it did not commit.                  *)
VerdictOfWave ==
  phase = "done" => /\ stabilized <=> failed_in_wave = {}
                    /\ failed_in_wave # {} => idx = max_waves

(* A wave fails at least one asset that had not failed.                     *)
OneFailurePerWave == Len(waves) <= Cardinality(failed)

(* What the wave that sheds, or the one that is due, was reached through.   *)
WaveReached ==
  /\ idx = 0 => load = net.load
  /\ phase = "shed" => /\ waves # <<>>
                       /\ waves[Len(waves)].marginal = failed_in_wave
                       /\ \A v \in DOMAIN pending :
                            \E u \in failed_in_wave : v \in Successors(net, u)
  /\ phase = "head" /\ idx > 0 =>
       \A v \in failed_in_wave :
         \/ \E u \in waves[idx].marginal : v \in Successors(net, u)
         \/ idx = 1 /\ Overloaded(net, net.load, v)

LoopInvariant ==
  /\ TypeOK
  /\ WaveAndLatch
  /\ SurvivorsPassed
  /\ VerdictOfWave
  /\ WavesPartitionFailures
  /\ OneFailurePerWave
  /\ WaveReached
  /\ SpreadsAlongLinks

================================================================================
