-------------------------- MODULE MCRecommendations --------------------------
(***************************************************************************)
(* Five assets, every network over seven rows of links between them: one   *)
(* pair with two types, one row that works both ways, one without supply   *)
(* semantics, one too heavy to be posted.  Areas overlap, and the third    *)
(* asset may have none.                                                    *)
(***************************************************************************)
EXTENDS Recommendations

Row(u, v, edge_type, capacity, weight, both) ==
  [source |-> u, target |-> v, edge_type |-> edge_type, capacity |-> capacity,
   weight |-> weight, is_bidirectional |-> both]

MCRows ==
  <<Row(1, 3, "power_supply", 6, 1, FALSE), Row(1, 4, "power_supply", 4, 0, FALSE),
    Row(2, 4, "power_supply", 4, 1, FALSE), Row(3, 4, "water_supply", 3, 2, FALSE),
    Row(1, 2, "depends_on", 5, 1, TRUE),    Row(1, 4, "depends_on", 2, 3, FALSE),
    Row(4, 5, "depends_on", 3, 30, FALSE)>>

MCNode == 1 .. 5

\* The rows of the set of indices, in their order.
RowsOf(S) ==
  LET at == SetToSortSeq(S, <)
  IN  [i \in DOMAIN at |-> MCRows[at[i]]]

\* The fourth asset moves the mean, and the second area further into the first:
\* fewer people are counted when it fails as well.
MCArea ==
  [located \in SUBSET MCNode |->
     [v \in located |->
        CASE v = 1 -> {1, 2}
          [] v = 2 /\ 4 \notin located -> {2, 3, 4}
          [] v = 2 /\ 4 \in located -> {1, 2, 3}
          [] v = 3 -> {1, 4, 5, 6}
          [] v = 4 -> {2}
          [] v = 5 -> {6}]]

MCNetworks ==
  {[node_type |-> <<"power_substation", "power_substation", "water_station", "hospital", "telecom_tower">>,
    load |-> <<6, spare, 3, 4, 2>>, capacity |-> <<10, 10, 6, 12, 4>>,
    failure_threshold |-> <<10, 9, 10, 8, 10>>,
    population_served |-> <<7, 4, 5, 3, 0>>,
    called_hospital |-> <<FALSE, FALSE, FALSE, FALSE, TRUE>>,
    has_area |-> <<TRUE, TRUE, known, TRUE, FALSE>>, area |-> MCArea,
    edges |-> RowsOf({1} \cup S)] :
     S \in SUBSET (2 .. 7), spare \in {2, 8}, known \in BOOLEAN}

\* A link over one that exists and the reverse of it, and an upgrade.
MCUserScenarios ==
  {<<>>,
   <<[type |-> "add_edge", source |-> 3, target |-> 4, edge_type |-> "power_supply",
      capacity |-> 9, weight |-> 1, is_bidirectional |-> TRUE]>>,
   <<[type |-> "upgrade_node", node_id |-> 3,
      fields |-> [capacity_multiplier |-> 2, failure_threshold_add |-> 1]],
     [type |-> "upgrade_node", node_id |-> 4,
      fields |-> [capacity_add |-> 1, failure_threshold |-> 10]]>>}

MCInitialFailures == {{1}, {1, 2}, {3}}

\* Seven towers: 2 and 3 share the load of 1, and 5 hears of it by two ways, of
\* which 2 is the shorter.
SevenNode == 1 .. 7

TwoWays ==
  {[node_type |-> [v \in SevenNode |-> "telecom_tower"],
    load |-> <<10, 3, 4, 1, 2, 2, 2>>, capacity |-> <<10, 6, 6, 6, 9, 7, 7>>,
    failure_threshold |-> [v \in SevenNode |-> 10],
    population_served |-> <<0, 9, 0, 0, 0, 1, 1>>,
    called_hospital |-> [v \in SevenNode |-> FALSE],
    has_area |-> [v \in SevenNode |-> FALSE], area |-> [located \in {{}} |-> <<>>],
    edges |-> <<Row(1, 2, "depends_on", 5, 1, FALSE), Row(1, 3, "depends_on", 5, 1, FALSE),
                Row(2, 5, "depends_on", 10, 1, FALSE), Row(3, 4, "depends_on", 10, 1, FALSE),
                Row(4, 5, "depends_on", 10, 1, FALSE), Row(5, 6, "depends_on", 10, 1, FALSE),
                Row(5, 7, "depends_on", 10, 1, FALSE)>>]}

FirstFails == {{1}}

NoScenario == {<<>>}
==============================================================================
