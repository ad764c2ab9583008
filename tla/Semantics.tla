------------------------------ MODULE Semantics ------------------------------
(***************************************************************************)
(* Which service a typed link delivers and which services an asset cannot  *)
(* operate without (backend/app/simulation/semantics.py).  The tables are  *)
(* the program's own, so an edit of either table is an edit here.          *)
(***************************************************************************)

Service == {"power", "water", "transit"}

EdgeType ==
  {"power_supply", "water_supply", "road_link", "depends_on",
   "requires_power", "requires_water", "requires_transit"}

AssetType ==
  {"hospital", "power_substation", "water_station", "telecom_tower",
   "road_junction"}

(* The edge types that deliver a service.  "depends_on" is absent: it       *)
(* delivers no service, it only carries load.                               *)
SERVICE_BY_EDGE_TYPE ==
  [power_supply     |-> "power",
   requires_power   |-> "power",
   water_supply     |-> "water",
   requires_water   |-> "water",
   road_link        |-> "transit",
   requires_transit |-> "transit"]

(* The critical services of each asset class; a class absent from the table *)
(* can fail by overload only.                                               *)
CRITICAL_DEPENDENCIES ==
  [hospital         |-> {"power", "water"},
   power_substation |-> {"power"},
   water_station    |-> {"power"},
   telecom_tower    |-> {"power"},
   road_junction    |-> {"transit"}]

(* The services one link delivers: the merged edge_types are read first,    *)
(* the singular edge_type only when there is no merged set.                 *)
edge_services(link) ==
  LET declared == IF link.edge_types # {} THEN link.edge_types ELSE {link.edge_type}
  IN  {SERVICE_BY_EDGE_TYPE[t] : t \in declared \cap DOMAIN SERVICE_BY_EDGE_TYPE}

required_services(nodeType) ==
  IF nodeType \in DOMAIN CRITICAL_DEPENDENCIES
  THEN CRITICAL_DEPENDENCIES[nodeType]
  ELSE {}

==============================================================================
