------------------------------- MODULE MCCascade -------------------------------
(***************************************************************************)
(* Networks for TLC: every digraph of links among the first three of four  *)
(* assets, with two sets of loads and limits, plus five hand-made networks *)
(* of four assets with the features a small random graph lacks.            *)
(***************************************************************************)
EXTENDS CascadeRefinement, TLC

CONSTANTS a, b, c, d, ghost

MCNode == {a, b, c, d}

(* One declared initial failure set per size, and one that names an id the  *)
(* graph does not have.                                                     *)
MCInitialFailures == {{a}, {d}, {a, b}, {b, c}, {}, {a, ghost}}

MCMaxWaves == {2, 4}

TypedLink(types, cap) ==
  [edge_types |-> types, edge_type |-> "depends_on", capacity |-> cap]

Power(cap) == TypedLink({"power_supply"}, cap)
Water(cap) == TypedLink({"water_supply"}, cap)
Depends(cap) == TypedLink({"depends_on"}, cap)

Uniform(x) == [v \in MCNode |-> x]

Triples == {<<a, b>>, <<b, a>>, <<b, c>>, <<c, b>>, <<a, c>>, <<c, a>>}

(* Loads that a transfer overloads, and loads that it does not.             *)
Loads == {Uniform(4), a :> 6 @@ b :> 2 @@ c :> 4 @@ d :> 9}

SmallNetworks ==
  {[link      |-> [e \in links |-> Power(cap)],
    node_type |-> Uniform("telecom_tower"),
    load      |-> ld,
    limit     |-> Uniform(6)] :
     links \in SUBSET Triples, cap \in {3, NoCapacity}, ld \in Loads}

(* Two feeds of power and one of water into a hospital.                     *)
HospitalNetwork ==
  [link      |-> <<a, d>> :> Power(4) @@ <<b, d>> :> Power(2) @@ <<c, d>> :> Water(4),
   node_type |-> a :> "power_substation" @@ b :> "power_substation"
                 @@ c :> "water_station" @@ d :> "hospital",
   load      |-> Uniform(6),
   limit     |-> Uniform(9)]

(* Power feeds water feeds power: an interdependent cycle, with a tail.     *)
CycleNetwork ==
  [link      |-> <<a, b>> :> Power(2) @@ <<b, c>> :> TypedLink({"requires_water", "power_supply"}, 2)
                 @@ <<c, a>> :> Power(5) @@ <<c, d>> :> Depends(5),
   node_type |-> a :> "power_substation" @@ b :> "water_station"
                 @@ c :> "power_substation" @@ d :> "road_junction",
   load      |-> a :> 4 @@ b :> 4 @@ c :> 8 @@ d :> 3,
   limit     |-> Uniform(8)]

(* A diamond: two assets of one wave shed onto the same third one, which    *)
(* also has a link of no capacity beside one that declares it.              *)
DiamondNetwork ==
  [link      |-> <<a, b>> :> Depends(4) @@ <<a, c>> :> Depends(8)
                 @@ <<b, d>> :> Depends(3) @@ <<c, d>> :> Depends(3)
                 @@ <<c, b>> :> Depends(NoCapacity),
   node_type |-> Uniform("road_junction"),
   load      |-> Uniform(6),
   limit     |-> a :> 9 @@ b :> 7 @@ c :> 7 @@ d :> 11]

(* A chain, and an asset apart that is over its limit from the start.       *)
OverloadedNetwork ==
  [link      |-> <<a, b>> :> Power(9) @@ <<b, c>> :> Power(0),
   node_type |-> Uniform("telecom_tower"),
   load      |-> Uniform(5),
   limit     |-> a :> 5 @@ b :> 9 @@ c :> 9 @@ d :> 4]

(* One asset falls after the other: as many waves as there are assets.      *)
ChainNetwork ==
  [link      |-> <<a, b>> :> Power(2) @@ <<b, c>> :> Power(2) @@ <<c, d>> :> Power(2),
   node_type |-> Uniform("telecom_tower"),
   load      |-> Uniform(1),
   limit     |-> Uniform(9)]

MCNetworks ==
  SmallNetworks \cup
  {ChainNetwork, HospitalNetwork, CycleNetwork, DiamondNetwork, OverloadedNetwork}

================================================================================
