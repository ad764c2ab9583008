------------------------------ MODULE MCIngestion ------------------------------
EXTENDS Ingestion

CONSTANT r1

Link(u, v, type, both) ==
  [source |-> u, target |-> v, edge_type |-> type, is_bidirectional |-> both]

\* The two sources, with an asset id in common.
MCTopology ==
  [synthetic |-> [nodes |-> {"a", "b"},
                  edges |-> {Link("a", "b", "power_supply", FALSE)}],
   osm       |-> [nodes |-> {"b", "c"},
                  edges |-> {Link("b", "c", "road_link", TRUE)}]]
================================================================================
