-------------------------------- MODULE Mirror --------------------------------
(***************************************************************************)
(* The Neo4j mirror of the networks: what graph_sync.py writes and what    *)
(* the GDS projection of analytics.py reads back.  The mirror is a record  *)
(*   assets   the :Asset nodes, as pairs <<network_id, id>>                *)
(*   links    the relationships [by, row, from, to] between such nodes, by *)
(*            the network whose synchronisation created them, of that row  *)
(* Ids of assets come from the fixture: two networks may share them.       *)
(***************************************************************************)
EXTENDS Naturals, FiniteSets, Sequences

Empty == [assets |-> {}, links |-> {}]

\* DETACH DELETE of one network's nodes.
Clear(m, n) ==
  [assets |-> {x \in m.assets : x[1] # n},
   links  |-> {l \in m.links : l.from[1] # n /\ l.to[1] # n}]

CreateNodes(m, n, ids) == [m EXCEPT !.assets = @ \cup {n} \X ids]

\* Faulty: MERGE for MATCH, so that an endpoint no network has any more is
\* made anew, as an asset of none (0).
CreateLinksMerging(m, n, ends) ==
  LET ids    == UNION {{d.from, d.to} : d \in ends}
      assets == m.assets \cup {0} \X (ids \ {x[2] : x \in m.assets})
  IN  [assets |-> assets,
       links  |-> m.links \cup
         {[by |-> n, row |-> x[1].row, from |-> x[2], to |-> x[3]] :
            x \in {y \in ends \X assets \X assets :
                     y[1].from = y[2][2] /\ y[1].to = y[3][2]}}]

\* The endpoints are matched by id alone, in whatever network.
CreateLinks(m, n, ends) ==
  [m EXCEPT !.links = @ \cup
     {[by |-> n, row |-> x[1].row, from |-> x[2], to |-> x[3]] :
        x \in {y \in ends \X m.assets \X m.assets :
                 y[1].from = y[2][2] /\ y[1].to = y[3][2]}}]

\* What a row asks for: a link, and another one back if it is bidirectional.
Directed(edges) == {[row |-> e, from |-> e.source, to |-> e.target] : e \in edges}
Reversed(edges) ==
  {[row |-> e, from |-> e.target, to |-> e.source] : e \in {f \in edges : f.is_bidirectional}}

LinksOf(ends) == IF ends = {} THEN <<>> ELSE <<[op |-> "links", of |-> ends]>>

LinksOfType(edges, type) ==
  LET typed == {e \in edges : e.edge_type = type}
  IN  LinksOf(Directed(typed)) \o LinksOf(Reversed(typed))

\* rel_types, in the order of the dict.  Links of other types are not mirrored.
LinkStatements(edges) ==
  LinksOfType(edges, "power_supply") \o LinksOfType(edges, "water_supply") \o
  LinksOfType(edges, "road_link") \o LinksOfType(edges, "depends_on")

\* Faulty: the links are created before the nodes they join.
LinksFirst(rows) ==
  <<[op |-> "clear"]>> \o LinkStatements(rows.edges) \o <<[op |-> "nodes", of |-> rows.nodes]>>

MirroredEdges(rows) ==
  {e \in rows.edges : e.edge_type \in {"power_supply", "water_supply", "road_link", "depends_on"}}

\* sync_network_to_neo4j on the rows it has read: statements that commit one
\* by one.  Indexes and labels change nothing the projection reads.
SyncStatements(rows) ==
  <<[op |-> "clear"], [op |-> "nodes", of |-> rows.nodes]>> \o LinkStatements(rows.edges)

\* Links between assets of network n.
Within(n, ends) ==
  {[by |-> n, row |-> d.row, from |-> <<n, d.from>>, to |-> <<n, d.to>>] : d \in ends}

\* What they leave in an empty store, one after the other.
Mirrored(n, rows) ==
  [assets |-> {n} \X rows.nodes,
   links  |-> Within(n, Directed(MirroredEdges(rows)) \cup Reversed(MirroredEdges(rows)))]

Execute(m, n, s) ==
  CASE s.op = "clear" -> Clear(m, n)
    [] s.op = "nodes" -> CreateNodes(m, n, s.of)
    [] s.op = "links" -> CreateLinks(m, n, s.of)

\* A graph scores are computed on: its assets, and how many links join each
\* linked pair.
Graph(ids, pairsOf(_), S) ==
  [nodes |-> ids,
   links |-> [p \in {pairsOf(s) : s \in S} |-> Cardinality({s \in S : pairsOf(s) = p})]]

EndsById(l) == <<l.from[2], l.to[2]>>

\* Faulty: only the source of a relationship is asked for its network.
ProjectionOfSources(m, n) ==
  Graph({x[2] : x \in {y \in m.assets : y[1] = n}}, EndsById,
        {l \in m.links : l.from[1] = n})

\* gds.graph.project.cypher with node_query and rel_query.
Projection(m, n) ==
  Graph({x[2] : x \in {y \in m.assets : y[1] = n}}, EndsById,
        {l \in m.links : l.from[1] = n /\ l.to[1] = n})

\* The NetworkX fallback: a DiGraph of the rows, every type of link.
RowsGraph(rows) ==
  [nodes |-> rows.nodes,
   links |-> [p \in {<<d.from, d.to>> : d \in Directed(rows.edges) \cup Reversed(rows.edges)} |-> 1]]
===============================================================================
