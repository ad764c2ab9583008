----------------------------- MODULE CascadeRules -----------------------------
(***************************************************************************)
(* The rules run_cascade applies to one network, as operators on states:   *)
(* who an asset feeds, what it sheds when it fails, when an asset fails.   *)
(* (backend/app/simulation/cascade.py.)                                    *)
(*                                                                         *)
(* A network is the in-memory DiGraph of build_graph, as a record:         *)
(*   link     a function whose domain is the set of links <<u, v>>, to     *)
(*            records [edge_types, edge_type, capacity]                    *)
(*   node_type, load   per asset: its class and its initial current_load   *)
(*   limit    per asset: capacity * failure_threshold, which the run never *)
(*            changes                                                      *)
(* Loads are natural numbers of a fixed unit: the program's floats without *)
(* their rounding, which \div replaces by rounding down.                   *)
(***************************************************************************)
EXTENDS Naturals, FiniteSets, Functions, Semantics

CONSTANTS
  Node,         \* the assets of the network
  NoCapacity    \* the "capacity" of a link that declares none

ASSUME NodeAssumption == IsFiniteSet(Node)
ASSUME NoCapacityAssumption == NoCapacity \notin Nat

Link == [edge_types : SUBSET EdgeType, edge_type : EdgeType,
         capacity : Nat \cup {NoCapacity}]

IsNetwork(net) ==
  /\ DOMAIN net.link \subseteq Node \X Node
  /\ \A e \in DOMAIN net.link : net.link[e] \in Link
  /\ net.node_type \in [Node -> AssetType]
  /\ net.load \in [Node -> Nat]
  /\ net.limit \in [Node -> Nat]

Successors(net, u) == {v \in Node : <<u, v>> \in DOMAIN net.link}

Predecessors(net, v) == {u \in Node : <<u, v>> \in DOMAIN net.link}

(* _build_supplier_index: who delivers a service to v, on the baseline      *)
(* topology.                                                                *)
Suppliers(net, v, service) ==
  {u \in Predecessors(net, v) : service \in edge_services(net.link[<<u, v>>])}

(* Faulty: an unmodelled dependency counts as a severed one.                *)
ModelledServicesAll(net, v) == required_services(net.node_type[v])

(* A service nobody is modelled to supply is no dependency.                 *)
ModelledServices(net, v) ==
  {s \in required_services(net.node_type[v]) : Suppliers(net, v, s) # {}}

(* _dependencies_severed: every supplier of one critical service has failed *)
Severed(net, v, failed) ==
  \E s \in ModelledServices(net, v) : Suppliers(net, v, s) \subseteq failed

Overloaded(net, load, v) == load[v] > net.limit[v]

(* The test that decides whether a surviving asset fails in the next wave.  *)
Fails(net, enforce, load, failed, v) ==
  \/ Overloaded(net, load, v)
  \/ enforce /\ Severed(net, v, failed)

(* -- what u sheds over its links to survivors -------------------------- *)

(* Faulty: load is shed onto failed assets too.                             *)
SurvivorsAll(net, failed, u) == Successors(net, u)

Survivors(net, failed, u) == Successors(net, u) \ failed

CapacityDeclared(net, failed, u) ==
  \E v \in Survivors(net, failed, u) : net.link[<<u, v>>].capacity # NoCapacity

(* A link without a capacity counts as zero beside links that declare one.  *)
LinkCapacity(net, u, v) ==
  LET declared == net.link[<<u, v>>].capacity
  IN  IF declared = NoCapacity THEN 0 ELSE declared

TotalCapacity(net, failed, u) ==
  SumFunctionOnSet([v \in Survivors(net, failed, u) |-> LinkCapacity(net, u, v)],
                   Survivors(net, failed, u))

(* The survivors that receive a share of u's load, possibly a zero one.     *)
Heirs(net, load, failed, u) ==
  IF /\ load[u] > 0
     /\ CapacityDeclared(net, failed, u) => TotalCapacity(net, failed, u) > 0
  THEN Survivors(net, failed, u)
  ELSE {}

Lesser(a, b) == IF a <= b THEN a ELSE b

(* Faulty: each link takes up to its capacity, not its part of the load.    *)
ShareUnscaled(net, load, failed, u, v) ==
  IF CapacityDeclared(net, failed, u)
  THEN Lesser(LinkCapacity(net, u, v), load[u])
  ELSE load[u] \div Cardinality(Survivors(net, failed, u))

(* The share of heir v: proportional to the capacity of its link and never  *)
(* above it, or uniform when no surviving link declares a capacity.         *)
Share(net, load, failed, u, v) ==
  IF CapacityDeclared(net, failed, u)
  THEN Lesser(LinkCapacity(net, u, v),
              (load[u] * LinkCapacity(net, u, v)) \div TotalCapacity(net, failed, u))
  ELSE load[u] \div Cardinality(Survivors(net, failed, u))

(* All that reaches v when the assets of the wave fail together.            *)
Received(net, load, wave, gone, v) ==
  LET givers == {u \in wave : v \in Heirs(net, load, gone, u)}
  IN  SumFunctionOnSet([u \in givers |-> Share(net, load, gone, u, v)], givers)
==============================================================================
