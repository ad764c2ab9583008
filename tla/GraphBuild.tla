------------------------------ MODULE GraphBuild ------------------------------
(***************************************************************************)
(* From the rows of a network to the graph a run works on                  *)
(* (services/graph_build.py), the modifications of a scenario              *)
(* (simulation/runner.py) and one whole run, as functions.                 *)
(*                                                                         *)
(* Rows are a record of the assets' columns, each a function on Node, and  *)
(* of edges, the sequence of edge rows.  failure_threshold counts tenths.  *)
(* A link keeps its weight, which a scenario has to state; neither the     *)
(* cascade nor the efficiency reads it.                                    *)
(***************************************************************************)
EXTENDS CascadeRules, Integers, Sequences

\* f, with y at x.
With(f, x, y) == [z \in DOMAIN f \cup {x} |-> IF z = x THEN y ELSE f[z]]

\* _add_typed_edge: a second row over the same pair adds its type and capacity,
\* the weight stays that of the first.
AddTypedEdge(link, u, v, row) ==
  LET new == [edge_types |-> {row.edge_type}, edge_type |-> row.edge_type,
              capacity |-> row.capacity, weight |-> row.weight]
      old == link[<<u, v>>]
      merged == [edge_types |-> old.edge_types \cup {row.edge_type},
                 edge_type |-> old.edge_type, capacity |-> old.capacity + row.capacity,
                 weight |-> old.weight]
  IN  With(link, <<u, v>>, IF <<u, v>> \in DOMAIN link THEN merged ELSE new)

AddRow(link, row) ==
  LET there == AddTypedEdge(link, row.source, row.target, row)
  IN  IF row.is_bidirectional THEN AddTypedEdge(there, row.target, row.source, row)
      ELSE there

NoLinks == [e \in {} |-> NoCapacity]

build_graph(rows) ==
  LET after[k \in 0 .. Len(rows.edges)] ==
        IF k = 0 THEN NoLinks ELSE AddRow(after[k - 1], rows.edges[k])
  IN  [link              |-> after[Len(rows.edges)],
       node_type         |-> rows.node_type,
       load              |-> rows.load,
       capacity          |-> rows.capacity,
       failure_threshold |-> rows.failure_threshold,
       population_served |-> rows.population_served,
       called_hospital   |-> rows.called_hospital,
       has_area          |-> rows.has_area,
       area              |-> rows.area]

\* What the cascade reads of a graph: its links without their weights, and the
\* limits that loads are compared with.
AsNetwork(g) ==
  [link |-> [e \in DOMAIN g.link |-> [edge_types |-> g.link[e].edge_types,
                                      edge_type |-> g.link[e].edge_type,
                                      capacity |-> g.link[e].capacity]],
   node_type |-> g.node_type, load |-> g.load,
   limit |-> [v \in Node |-> (g.capacity[v] * g.failure_threshold[v]) \div 10]]

\* add_edge of NetworkX: over a link that exists only the attributes given are
\* replaced, the merged edge_types stay.
AddEdge(link, u, v, mod) ==
  LET old == IF <<u, v>> \in DOMAIN link THEN link[<<u, v>>].edge_types ELSE {}
  IN  With(link, <<u, v>>, [edge_types |-> old, edge_type |-> mod.edge_type,
                            capacity |-> mod.capacity, weight |-> mod.weight])

AddLink(g, mod) ==
  LET there == AddEdge(g.link, mod.source, mod.target, mod)
  IN  [g EXCEPT !.link = IF mod.is_bidirectional
                         THEN AddEdge(there, mod.target, mod.source, mod) ELSE there]

\* Of the fields given, an absolute capacity goes before a factor and an
\* addition, an absolute threshold before an addition.
UpgradeNode(g, mod) ==
  LET v == mod.node_id
      given == mod.fields
      capacity == CASE "capacity" \in DOMAIN given -> given.capacity
                    [] "capacity_multiplier" \in DOMAIN given /\ "capacity" \notin DOMAIN given ->
                         g.capacity[v] * given.capacity_multiplier
                    [] OTHER -> g.capacity[v] + (IF "capacity_add" \in DOMAIN given
                                                 THEN given.capacity_add ELSE 0)
      threshold == CASE "failure_threshold" \in DOMAIN given -> given.failure_threshold
                     [] OTHER -> g.failure_threshold[v]
                                 + (IF "failure_threshold_add" \in DOMAIN given
                                    THEN given.failure_threshold_add ELSE 0)
  IN  [g EXCEPT !.capacity[v] = capacity, !.failure_threshold[v] = threshold]

Modified(g, mod) == IF mod.type = "add_edge" THEN AddLink(g, mod) ELSE UpgradeNode(g, mod)

apply_scenario_modifications(g, mods) ==
  LET after[k \in 0 .. Len(mods)] == IF k = 0 THEN g ELSE Modified(after[k - 1], mods[k])
  IN  after[Len(mods)]

-------------------------------------------------------------------------------
\* run_cascade with edge semantics, from its argument to its last wave: what
\* FullSweep does in steps.
RunCascade(net, initial, max_waves) ==
  LET after[k \in 0 .. max_waves] ==
        IF k = 0
        THEN [wave |-> initial, failed |-> {}, load |-> net.load, waves |-> <<>>]
        ELSE LET s == after[k - 1]
                 gone == s.failed \cup s.wave
                 load == [v \in Node |-> IF v \in gone THEN s.load[v]
                                         ELSE s.load[v] + Received(net, s.load, s.wave, gone, v)]
             IN  IF s.wave = {} THEN s
                 ELSE [wave   |-> {v \in Node \ gone : Fails(net, TRUE, load, gone, v)},
                       failed |-> gone, load |-> load, waves |-> Append(s.waves, s.wave)]
  IN  after[max_waves]

\* The pairs of assets of S with at most k links of S between them.
Within(g, S, k) ==
  LET near[j \in 0 .. k] ==
        IF j = 0 THEN {<<u, u>> : u \in S}
        ELSE LET closer == near[j - 1]
             IN  closer \cup {p \in S \X S : \E w \in S : /\ <<p[1], w>> \in closer
                                                       /\ p[2] \in Successors(g, w)}
  IN  near[k]

\* Unit / distance is a whole number for networks of up to seven assets.
EfficiencyUnit == 60

\* calculate_global_efficiency of the subgraph of S.  It is always divided by
\* the same N(N-1) of the baseline, which is left out.
Efficiency(g, S) ==
  LET atDistance(k) == Cardinality(Within(g, S, k)) - Cardinality(Within(g, S, k - 1))
      K == 1 .. Cardinality(Node) - 1
  IN  SumFunctionOnSet([k \in K |-> (EfficiencyUnit \div k) * atDistance(k)], K)
===============================================================================
