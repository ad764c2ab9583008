---------------------------- MODULE Recommendations ----------------------------
(***************************************************************************)
(* The recommendation engine (services/recommendations.py) between two     *)
(* runs of the worker (simulation/runner.py): a run completes, candidates  *)
(* are generated and each is run again in memory, the best are ranked and  *)
(* offered with a payload, and the payload of one is posted as a scenario  *)
(* and run.  Assets are numbers, in the order of their ids.                *)
(***************************************************************************)
EXTENDS GraphBuild, Population, SequencesExt

CONSTANTS
  Networks,          \* the rows of the networks
  InitialFailures,   \* the initial failures of the first run
  UserScenarios,     \* the modifications of the first run, <<>> for a plain one
  MaxWaves,          \* the setting max_cascade_waves, which the worker passes
  DefaultWaves,      \* run_cascade's own default, which a rerun leaves in place
  Limit,             \* how many recommendations are asked for
  MaxRuns,           \* how many runs follow one another
  MaxPosted,         \* the largest capacity, and weight, that can be posted
  None

ASSUME IdsAssumption == Node \subseteq Nat \ {0}

ASSUME BoundsAssumption ==
  MaxWaves \in Nat \ {0} /\ DefaultWaves \in Nat \ {0} /\ Limit \in Nat /\ MaxRuns \in Nat \ {0}

\* AddEdgeModification.edge_type
PostedEdgeType == {"power_supply", "water_supply", "road_link", "depends_on"}

\* What the constraints of the tables let pass (models/network.py:51-62,
\* 133-138), with links of types that a scenario can add as well.
IsRows(net) ==
  /\ net.node_type \in [Node -> AssetType]
  /\ net.load \in [Node -> Nat] /\ net.capacity \in [Node -> Nat \ {0}]
  /\ net.failure_threshold \in [Node -> Nat] /\ net.population_served \in [Node -> Nat]
  /\ net.called_hospital \in [Node -> BOOLEAN] /\ net.has_area \in [Node -> BOOLEAN]
  /\ net.edges \in Seq([source : Node, target : Node, edge_type : PostedEdgeType,
                        capacity : Nat \ {0}, weight : Nat, is_bidirectional : BOOLEAN])

UpgradeField == {"capacity", "capacity_multiplier", "capacity_add",
                 "failure_threshold", "failure_threshold_add"}

IsModification(mod) ==
  \/ mod \in [type : {"add_edge"}, source : Node, target : Node, edge_type : PostedEdgeType,
              capacity : Nat \ {0}, weight : Nat, is_bidirectional : BOOLEAN]
  \/ /\ mod.type = "upgrade_node" /\ mod.node_id \in Node
     /\ DOMAIN mod.fields \subseteq UpgradeField
     /\ \A field \in DOMAIN mod.fields : mod.fields[field] \in Nat

IsScenario(mods) == Len(mods) \in Nat /\ \A i \in 1 .. Len(mods) : IsModification(mods[i])

ASSUME RunsAssumption ==
  /\ \A net \in Networks : IsRows(net)
  /\ \A initial \in InitialFailures : initial # {} /\ initial \subseteq Node
  /\ \A mods \in UserScenarios : IsScenario(mods)

ASSUME AreasAssumption ==
  /\ StudyAreaCap \in Nat /\ AreaUnit \in Nat \ {0}
  /\ \A net \in Networks : \A located \in SUBSET {v \in Node : net.has_area[v]} :
       \A v \in located :
         /\ IsFiniteSet(net.area[located][v]) /\ net.area[located][v] # {}
         /\ AreaUnit % Cardinality(net.area[located][v]) = 0

VARIABLES
  rows,      \* the network in the database
  sim,       \* the completed run that is looked at
  G_baseline, \* the graph the candidates are derived from
  phase,     \* what comes next
  todo,      \* the pairs <<w1, succ>> whose links are still to be tried
  tested,    \* tested_edges
  scored,    \* scored_candidates
  recs,      \* the recommendations offered
  promise,   \* the recommendation applied, and the run it was made for
  ran        \* how many runs so far, for the bound

vars == <<rows, sim, G_baseline, phase, todo, tested, scored, recs, promise, ran>>

\* The elements of S from first to last: each has as many before it as its
\* place says.
InOrder(S, Before(_, _)) ==
  [i \in 1 .. Cardinality(S) |->
     CHOOSE x \in S : Cardinality({y \in S : Before(y, x)}) = i - 1]

-------------------------------------------------------------------------------
(* The worker: run_simulation_task, from the rows to the stored result. *)

RunTask(mods, initial) ==
  LET G == apply_scenario_modifications(build_graph(rows), mods)
      run == RunCascade(AsNetwork(G), initial, MaxWaves)
  IN  [initial_failures |-> initial, waves |-> run.waves, failed |-> run.failed,
       total_failed |-> Cardinality(run.failed),
       population |-> calculate_population_impact(G, run.failed),
       efficiency_after |-> Efficiency(G, Node \ run.failed),
       modifications |-> mods]

Init ==
  /\ rows \in Networks
  /\ sim = None /\ G_baseline = None
  /\ phase = "run"
  /\ todo = <<>> /\ tested = {} /\ scored = {} /\ recs = <<>>
  /\ promise = None
  /\ ran = 0

FirstRun ==
  /\ phase = "run" /\ ran = 0
  /\ \E initial \in InitialFailures, mods \in UserScenarios : sim' = RunTask(mods, initial)
  /\ phase' = "completed" /\ ran' = 1
  /\ UNCHANGED <<rows, G_baseline, todo, tested, scored, recs, promise>>

-------------------------------------------------------------------------------
(* What the graph says of supply and of causes. *)

Connected(h, S) == Within(h, S, Cardinality(Node))

Components(h, S) ==
  LET path == Connected(h, S)
  IN  {{v \in S : <<u, v>> \in path /\ <<v, u>> \in path} : u \in S}

\* Faulty: a survivor is a source, whatever has failed above it.
ReachOfSurvivors(h, failed) == Node \ failed

\* The heads of the surviving network that lost nothing, and all downstream of
\* them; every survivor when there is no such head.
surviving_source_reach(h, failed) ==
  LET alive == Node \ failed
      feeders(C) == (UNION {Predecessors(h, v) : v \in C}) \ C
      roots == UNION {C \in Components(h, alive) : feeders(C) = {}}
  IN  IF roots = {} THEN alive
      ELSE {v \in alive : \E r \in roots : <<r, v>> \in Connected(h, alive)}

SeveredCode == [power |-> "power_dependency_severed", water |-> "water_dependency_severed",
                transit |-> "transit_dependency_severed"]

\* diagnose_failure, on the assets that have failed by the end of the run.
Diagnose(v) ==
  LET severed == SelectSeq(<<"power", "transit", "water">>,
                           LAMBDA s : s \in ModelledServices(G_baseline, v)
                                      /\ Suppliers(G_baseline, v, s) \subseteq sim.failed)
  IN  CASE v \in sim.initial_failures -> "initial_shock"
        [] v \notin sim.initial_failures /\ severed # <<>> -> SeveredCode[Head(severed)]
        [] v \notin sim.initial_failures /\ severed = <<>> -> "overload"

MITIGATION_PLAYBOOK ==
  [hospital         |-> [power |-> "backup_generator", water |-> "water_tanker", transit |-> "reroute"],
   water_station    |-> [power |-> "backup_generator"],
   telecom_tower    |-> [power |-> "backup_power"],
   power_substation |-> [power |-> "redundant_feeder"],
   road_junction    |-> [transit |-> "reroute"]]

DEFAULT_MITIGATIONS == [upgrade_node |-> "capacity_upgrade", add_edge |-> "redundant_link"]

MitigationFor(v, root_cause, intervention) ==
  LET book == MITIGATION_PLAYBOOK[G_baseline.node_type[v]]
      services == {s \in DOMAIN book : SeveredCode[s] = root_cause}
  IN  IF services = {} THEN DEFAULT_MITIGATIONS[intervention]
      ELSE book[CHOOSE s \in services : TRUE]

-------------------------------------------------------------------------------
(* Candidates, each run again in memory. *)

\* _is_hospital: by its class, or by what it is called.
Hospitals(S) ==
  {v \in S : G_baseline.node_type[v] = "hospital" \/ G_baseline.called_hospital[v]}

\* Faulty: a rerun without the dependency semantics.
ScoreByLoadOnly(h) ==
  LET deaf == [h EXCEPT !.node_type = [v \in Node |-> "none"]]
      run == RunCascade(AsNetwork(deaf), sim.initial_failures, DefaultWaves)
  IN  [failed               |-> run.failed,
       failures_prevented   |-> sim.total_failed - Cardinality(run.failed),
       raw_population_saved |-> People(G_baseline, sim.failed) - People(G_baseline, run.failed),
       efficiency_gain      |-> Efficiency(h, Node \ run.failed) - sim.efficiency_after,
       protects_critical_services |-> Hospitals(sim.failed) \ run.failed # {}]

\* What the run of a candidate graph is worth against the run looked at.  It has
\* run_cascade's own guardrail, whatever the setting that run was made with.
Score(h) ==
  LET run == RunCascade(AsNetwork(h), sim.initial_failures, DefaultWaves)
  IN  [failed               |-> run.failed,
       failures_prevented   |-> sim.total_failed - Cardinality(run.failed),
       raw_population_saved |-> People(G_baseline, sim.failed) - People(G_baseline, run.failed),
       efficiency_gain      |-> Efficiency(h, Node \ run.failed) - sim.efficiency_after,
       protects_critical_services |-> Hospitals(sim.failed) \ run.failed # {}]

Wave1 == sim.waves[2] \ sim.initial_failures

\* The five secondary casualties of highest betweenness, which is left open.
TopCentral == LET secondary == sim.failed \ sim.initial_failures
              IN  kSubset(Least(5, Cardinality(secondary)), secondary)

\* A run without secondary casualties gets no recommendations.
NothingToMitigate ==
  Len(sim.waves) <= 1 \/ sim.total_failed <= Cardinality(sim.initial_failures)

\* The graph is built from the rows of the network, whatever scenario the run
\* looked at belongs to.
GetRecommendations ==
  /\ phase = "completed"
  /\ G_baseline' = build_graph(rows)
  /\ tested' = {} /\ scored' = {} /\ recs' = <<>> /\ todo' = <<>>
  /\ phase' = IF NothingToMitigate THEN "offered" ELSE "upgrades"
  /\ UNCHANGED <<rows, sim, promise, ran>>

Upgraded(v) == UpgradeNode(G_baseline, [node_id |-> v,
                 fields |-> [capacity |-> 2 * G_baseline.capacity[v]]])

Upgrade(v) ==
  [intervention_type |-> "upgrade_node", node_id |-> v, target_node_id |-> 0,
   proposed_capacity |-> 2 * G_baseline.capacity[v], restores_supply_path |-> FALSE,
   outcome |-> Score(Upgraded(v))]

\* The links of the first casualties, walked casualty by casualty.
LostLinks ==
  {p \in Wave1 \X (Node \ sim.initial_failures) : p[2] \in Successors(G_baseline, p[1])}

EarlierLink(p, q) == p[1] < q[1] \/ (p[1] = q[1] /\ p[2] < q[2])

ScoreUpgrades ==
  /\ phase = "upgrades"
  /\ \E central \in TopCentral :
       scored' = {c \in {Upgrade(v) : v \in Wave1 \cup central} :
                    c.outcome.failures_prevented > 0 \/ c.outcome.raw_population_saved > 0}
  /\ todo' = InOrder(LostLinks, EarlierLink)
  /\ phase' = "links"
  /\ UNCHANGED <<rows, sim, G_baseline, tested, recs, promise, ran>>

\* Who may feed succ, best first: of the same class as the asset that failed,
\* of high capacity.  Whoever has a supply path has survived.
Able(w1, succ) ==
  {u \in surviving_source_reach(G_baseline, sim.failed) \ (sim.initial_failures \cup {succ, w1}) :
     u \notin Predecessors(G_baseline, succ) /\ <<u, succ>> \notin tested}

BetterDonor(w1, u, v) ==
  LET sameType(x) == G_baseline.node_type[x] = G_baseline.node_type[w1]
      capacity == G_baseline.capacity
  IN  \/ sameType(u) /\ ~ sameType(v)
      \/ /\ sameType(u) <=> sameType(v)
         /\ \/ capacity[u] > capacity[v]
            \/ capacity[u] = capacity[v] /\ u < v

Donors(w1, succ) == InOrder(Able(w1, succ), LAMBDA u, v : BetterDonor(w1, u, v))

\* The link tried has the type, capacity and weight of the link that failed.
Redundancy(u, w1, succ) ==
  LET old == G_baseline.link[<<w1, succ>>]
      mod == [type |-> "add_edge", source |-> u, target |-> succ, edge_type |-> old.edge_type,
              capacity |-> old.capacity, weight |-> old.weight, is_bidirectional |-> FALSE]
      h == AddLink(G_baseline, mod)
      outcome == Score(h)
  IN  [intervention_type |-> "add_edge", node_id |-> u, target_node_id |-> succ, link |-> mod,
       restores_supply_path |-> succ \in surviving_source_reach(h, outcome.failed),
       outcome |-> outcome]

Accepted(worth) ==
  /\ worth.failures_prevented >= 0
  /\ \/ worth.failures_prevented > 0 \/ worth.raw_population_saved > 0
     \/ worth.efficiency_gain > 0 \/ worth.protects_critical_services

\* The two best donors of one lost link.
ScoreLink ==
  /\ phase = "links" /\ todo # <<>>
  /\ LET w1 == Head(todo)[1]
         succ == Head(todo)[2]
         donors == Donors(w1, succ)
         top == ToSet(SubSeq(donors, 1, Least(2, Len(donors))))
     IN  /\ tested' = tested \cup top \X {succ}
         /\ scored' = scored \cup {c \in {Redundancy(u, w1, succ) : u \in top} : Accepted(c.outcome)}
  /\ todo' = Tail(todo)
  /\ UNCHANGED <<rows, sim, G_baseline, phase, recs, promise, ran>>

-------------------------------------------------------------------------------
(* Ranking and payloads *)

RankKey(c) ==
  <<- c.outcome.failures_prevented, IF c.outcome.protects_critical_services THEN -1 ELSE 0,
    - c.outcome.raw_population_saved, - c.outcome.efficiency_gain, c.node_id, c.target_node_id>>

RankedBefore(c, d) ==
  \E i \in 1 .. 6 : /\ RankKey(c)[i] < RankKey(d)[i]
                    /\ \A j \in 1 .. i - 1 : RankKey(c)[j] = RankKey(d)[j]

\* The asset with the problem.
Patient(c) == IF c.intervention_type = "add_edge" THEN c.target_node_id ELSE c.node_id

\* Faulty: the link of the payload works both ways.
ModificationBothWays(c) ==
  IF c.intervention_type = "add_edge" THEN [c.link EXCEPT !.is_bidirectional = TRUE]
  ELSE [type |-> "upgrade_node", node_id |-> c.node_id,
        fields |-> [capacity |-> c.proposed_capacity]]

Modification(c) ==
  IF c.intervention_type = "add_edge" THEN c.link
  ELSE [type |-> "upgrade_node", node_id |-> c.node_id,
        fields |-> [capacity |-> c.proposed_capacity]]

Synthesize(c) ==
  LET cause == Diagnose(Patient(c))
  IN  [candidate |-> c,
       root_cause |-> cause,
       mitigation_kind |-> MitigationFor(Patient(c), cause, c.intervention_type),
       scenario_payload |-> [modifications |-> <<Modification(c)>>,
                             initial_failures |-> sim.initial_failures]]

\* Faulty: the limit is forgotten.
RankAll ==
  /\ phase = "links" /\ todo = <<>>
  /\ LET ranked == InOrder(scored, RankedBefore)
     IN  recs' = [i \in DOMAIN ranked |-> Synthesize(ranked[i])]
  /\ phase' = "offered"
  /\ UNCHANGED <<rows, sim, G_baseline, todo, tested, scored, promise, ran>>

Rank ==
  /\ phase = "links" /\ todo = <<>>
  /\ LET ranked == InOrder(scored, RankedBefore)
     IN  recs' = [i \in 1 .. Least(Limit, Len(ranked)) |-> Synthesize(ranked[i])]
  /\ phase' = "offered"
  /\ UNCHANGED <<rows, sim, G_baseline, todo, tested, scored, promise, ran>>

\* What POST /api/scenarios lets pass: the edge types of AddEdgeModification,
\* positive capacities and weights up to the largest, assets of the network.
ScenarioAccepted(payload) ==
  /\ payload.initial_failures # {} /\ payload.initial_failures \subseteq Node
  /\ \A i \in DOMAIN payload.modifications :
       LET mod == payload.modifications[i]
       IN  CASE mod.type = "add_edge" ->
                  /\ mod.source # mod.target /\ {mod.source, mod.target} \subseteq Node
                  /\ mod.edge_type \in PostedEdgeType
                  /\ mod.capacity > 0 /\ mod.capacity <= MaxPosted
                  /\ mod.weight >= 0 /\ mod.weight <= MaxPosted
             [] mod.type = "upgrade_node" ->
                  /\ mod.node_id \in Node
                  /\ DOMAIN mod.fields # {}
                  /\ "capacity" \in DOMAIN mod.fields =>
                       mod.fields.capacity > 0 /\ mod.fields.capacity <= MaxPosted

\* One is posted as a scenario and its simulation completes.
ApplyOne ==
  /\ phase = "offered" /\ ran < MaxRuns
  /\ \E i \in DOMAIN recs :
       LET payload == recs[i].scenario_payload
       IN  /\ ScenarioAccepted(payload)
           /\ sim' = RunTask(payload.modifications, payload.initial_failures)
           /\ promise' = [rec |-> recs[i], made_for |-> sim]
  /\ phase' = "completed" /\ ran' = ran + 1
  /\ UNCHANGED <<rows, G_baseline, todo, tested, scored, recs>>

Next ==
  \/ FirstRun \/ GetRecommendations \/ ScoreUpgrades \/ ScoreLink \/ Rank \/ ApplyOne

Spec == Init /\ [][Next]_vars

-------------------------------------------------------------------------------
(* Properties *)

Interventions == {"upgrade_node", "add_edge"}

\* Every variable has its type; the graph of the rows, with the modifications
\* of the run, is a network the cascade is defined on.
TypeOK ==
  /\ IsNetwork(AsNetwork(build_graph(rows)))
  /\ phase \in {"run", "completed", "upgrades", "links", "offered"}
  /\ sim # None =>
       /\ sim.initial_failures \subseteq sim.failed /\ sim.failed \subseteq Node
       /\ IsNetwork(AsNetwork(apply_scenario_modifications(build_graph(rows), sim.modifications)))
  /\ todo \in Seq(Node \X Node) /\ tested \subseteq Node \X Node
  /\ \A c \in scored : c.intervention_type \in Interventions /\ c.outcome.failed \subseteq Node
  /\ Len(recs) <= Limit
  /\ ran \in 0 .. MaxRuns

\* A card asks for nothing too large to be posted.
CanBePosted(c) ==
  IF c.intervention_type = "add_edge" THEN c.link.capacity <= MaxPosted /\ c.link.weight <= MaxPosted
  ELSE c.proposed_capacity <= MaxPosted

\* The cascade of h comes to its end within n waves.
SettlesWithin(h, initial, n) == RunCascade(AsNetwork(h), initial, n).wave = {}

\* The worker and a rerun stop the cascade of the run looked at at the same
\* wave: the setting is the default, or neither guardrail cuts it short.
\* Otherwise a card and the run of its payload may well differ.
GuardrailsAgree ==
  LET h == apply_scenario_modifications(build_graph(rows), sim.modifications)
  IN  \/ MaxWaves = DefaultWaves
      \/ \A n \in {MaxWaves, DefaultWaves} : SettlesWithin(h, sim.initial_failures, n)

\* What is promised on a card is what its payload brings: the scenario is
\* accepted, unless the capacity or the weight is too large to be posted, and
\* the worker's run of it, where no guardrail sets the two apart, differs from
\* the run the card was made for by exactly the failures, people, efficiency and
\* hospitals promised, even if that was itself the run of a scenario or was cut
\* short (recommendations.py:333-376, the guarantees at 396-403,
\* runner.py:44-89 and 141-147).
PromisesAreKept ==
  /\ phase = "offered" => \A i \in DOMAIN recs :
       CanBePosted(recs[i].candidate) => ScenarioAccepted(recs[i].scenario_payload)
  /\ phase = "completed" /\ promise # None /\ GuardrailsAgree =>
       LET made == promise.rec.candidate.outcome
           before == promise.made_for
       IN  /\ made.failures_prevented = before.total_failed - sim.total_failed
           /\ made.raw_population_saved = before.population.raw_population_affected
                                          - sim.population.raw_population_affected
           /\ made.efficiency_gain = sim.efficiency_after - before.efficiency_after
           /\ made.protects_critical_services <=> Hospitals(before.failed) \ sim.failed # {}

\* v has a continuous path, over survivors, from an asset above which nothing
\* has failed; the benefit of the doubt when there is no such asset.
Supplied(h, failed, v) ==
  LET alive == Node \ failed
      path == Connected(h, alive)
      harmed == {u \in alive : Predecessors(h, u) \cap failed # {}}
      unharmed == {r \in alive : \A u \in harmed : <<u, r>> \notin path}
  IN  /\ v \in alive
      /\ unharmed # {} => \E r \in unharmed : <<r, v>> \in path

\* Nobody is asked to donate a supply it has lost, and a card that says it
\* restores a supply path does so in the run of its payload, where no guardrail
\* sets that apart from the rerun (the docstring of surviving_source_reach,
\* recommendations.py:498-513 and 551-554).
SupplyClaimsAreTrue ==
  /\ phase = "offered" => \A i \in DOMAIN recs :
       LET c == recs[i].candidate
       IN  c.intervention_type = "add_edge" => Supplied(G_baseline, sim.failed, c.node_id)
  /\ phase = "completed" /\ promise # None /\ GuardrailsAgree
     /\ promise.rec.candidate.restores_supply_path =>
       LET h == apply_scenario_modifications(build_graph(rows), sim.modifications)
       IN  Supplied(h, sim.failed, promise.rec.candidate.target_node_id)

\* Whatever fails, and however the areas fall about its mean, the figure before
\* the cap counts every resident once where all areas are known, lies between
\* the largest population served and the plain sum, is capped as the flag says,
\* and is flagged unresolved only when an area is unknown (the guarantees in
\* population.py:136-142).  That it never falls when more assets fail is not
\* said: a further asset moves the mean, and with it the overlaps.
CountsEachResidentOnce ==
  phase = "run" => \A S \in SUBSET Node :
    LET p == calculate_population_impact(rows, S)
        populated == {v \in S : rows.population_served[v] > 0}
    IN  /\ p.dedup_method = "spatial" =>
             /\ p.pre_cap = ResidentsOnce(Placed(rows, populated), populated)
             /\ ~ p.has_unresolved_overlap
        /\ p.pre_cap <= p.raw_population_affected
        /\ \A v \in S : rows.population_served[v] <= p.pre_cap
        /\ p.population_affected_estimate <= StudyAreaCap
        /\ p.is_population_capped <=> p.population_affected_estimate < p.pre_cap

(* What the source says and the code does not keep.                        *)

\* "A candidate that makes the cascade worse is never a mitigation"
\* (recommendations.py:561).
NoMitigationMakesItWorse ==
  phase = "offered" => \A i \in DOMAIN recs : recs[i].candidate.outcome.failures_prevented >= 0
===============================================================================
