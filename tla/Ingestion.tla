------------------------------- MODULE Ingestion -------------------------------
(***************************************************************************)
(* Seeding of the baseline network (services/ingestion.py), its Neo4j      *)
(* mirror, and the centrality scores computed on the mirror and cached in  *)
(* Redis (services/analytics.py, api/networks.py).                         *)
(*                                                                         *)
(* Invocations of ingest_seed_data and requests for scores run side by     *)
(* side.  The relational transaction is one step (Network.name is unique,  *)
(* so that of two conflicting ones the later fails); every Neo4j statement *)
(* and every Redis command is a step of its own, and an invocation may end *)
(* in an exception or die between any two.  Scores stand for the graph     *)
(* they were computed on.  Assets and links are read in one step, where    *)
(* the code issues two queries, each of which sees what was committed.     *)
(***************************************************************************)
EXTENDS Mirror

CONSTANTS
  Topology,     \* per source, the rows of its fixture: [nodes, edges]
  Invocations,  \* how often ingest_seed_data is invoked
  Request,      \* the requests for scores
  Metric,       \* CENTRALITY_CACHE_METRICS
  NotCached     \* the value of a key that Redis does not have

ASSUME InvocationsAssumption == Invocations \in Nat

\* The edges of a fixture join two of its nodes (models/network.py:134, 145-148).
ASSUME TopologyAssumption ==
  /\ "synthetic" \in DOMAIN Topology
  /\ \A s \in DOMAIN Topology : \A e \in Topology[s].edges :
       {e.source, e.target} \subseteq Topology[s].nodes /\ e.source # e.target

\* They are of mirrored types, and no two of them lead the same way from one
\* asset to another: data/seed/edges.json, and osm_ingestion.py:139-166, which
\* makes one road link per pair.
ASSUME FixtureAssumption ==
  \A s \in DOMAIN Topology :
    LET edges == Topology[s].edges
        ends  == Directed(edges) \cup Reversed(edges)
    IN  /\ MirroredEdges(Topology[s]) = edges
        /\ \A d, e \in ends : d.from = e.from /\ d.to = e.to => d = e

VARIABLES
  created,      \* the networks ever committed: the source of each
  network,      \* the one that exists, 0 if none
  mirror,       \* Neo4j
  cache,        \* Redis: the key centrality:{network}:{metric}
  ing,          \* per invocation: where it is, what it saw and still has to do
  req           \* per request: where it is, what it asks for, its answer

vars == <<created, network, mirror, cache, ing, req>>

\* Invocations are numbered in the order in which they begin.
Invocation == 1 .. Invocations

NetId == 1 .. Invocations + 1

NoRows == [nodes |-> {}, edges |-> {}]

Rows(n) == IF network = n THEN Topology[created[n]] ELSE NoRows

\* An invocation that has nothing to do, any more or yet.
AtRest(at) ==
  [at |-> at, existing |-> 0, source |-> "", net |-> 0, todo |-> <<>>, alone |-> TRUE]

Asked(at, key, answer) == [at |-> at, key |-> key, answer |-> answer]

NoRequest == Asked("idle", <<>>, NotCached)

Finished == {"idle", "over", "done"}

Active(i) == ing[i].at \notin Finished

\* A fresh database, or one that was seeded without incident.
Init ==
  /\ cache = [k \in NetId \X Metric |-> NotCached]
  /\ ing = [i \in Invocation |-> AtRest("idle")]
  /\ req = [r \in Request |-> NoRequest]
  /\ \/ created = <<>> /\ network = 0 /\ mirror = Empty
     \/ /\ created = <<"synthetic">> /\ network = 1
        /\ mirror = Mirrored(1, Topology["synthetic"])

-------------------------------------------------------------------------------
(* ingest_seed_data *)

\* The first lines: a network that exists is kept, unless forced.  alone is a
\* history variable: no other invocation was active since this one began.
Check(i, force, source) ==
  /\ ing[i].at = "idle" /\ \A j \in 1 .. i - 1 : ing[j].at # "idle"
  /\ LET kept == network # 0 /\ ~force
         others == \E j \in Invocation : Active(j)
     IN  ing' = [j \in Invocation |->
                   IF j = i /\ kept THEN AtRest("over")
                   ELSE IF j = i THEN [ing[i] EXCEPT !.at = "transaction", !.existing = network,
                                                     !.source = source, !.alone = ~others]
                   ELSE IF kept \/ ~Active(j) THEN ing[j]
                   ELSE [ing[j] EXCEPT !.alone = FALSE]]
  /\ UNCHANGED <<created, network, mirror, cache, req>>

\* Delete, insert and commit.  Another network of that name, committed since
\* the check, is a conflict: rollback and raise.
Transaction(i) ==
  /\ ing[i].at = "transaction"
  /\ IF network \in {0, ing[i].existing}
     THEN /\ created' = Append(created, ing[i].source)
          /\ network' = Len(created')
          /\ ing' = [ing EXCEPT ![i].at = "clear", ![i].source = "", ![i].net = Len(created')]
     ELSE /\ ing' = [ing EXCEPT ![i] = AtRest("over")]
          /\ UNCHANGED <<created, network>>
  /\ UNCHANGED <<mirror, cache, req>>

\* clear_network_from_neo4j of the network that was replaced.
ClearReplaced(i) ==
  /\ ing[i].at = "clear"
  /\ mirror' = IF ing[i].existing = 0 THEN mirror ELSE Clear(mirror, ing[i].existing)
  /\ ing' = [ing EXCEPT ![i].at = "read"]
  /\ UNCHANGED <<created, network, cache, req>>

\* The synchronisation reads the rows back, another invocation may have
\* replaced them.
ReadRows(i) ==
  /\ ing[i].at = "read"
  /\ ing' = [ing EXCEPT ![i].at = "sync", ![i].todo = SyncStatements(Rows(ing[i].net))]
  /\ UNCHANGED <<created, network, mirror, cache, req>>

Sync(i) ==
  /\ ing[i].at = "sync"
  /\ LET rest == Tail(ing[i].todo)
     IN  /\ mirror' = Execute(mirror, ing[i].net, Head(ing[i].todo))
         /\ ing' = [ing EXCEPT ![i].todo = rest,
                               ![i].at = IF rest = <<>> THEN "invalidate" ELSE "sync"]
  /\ UNCHANGED <<created, network, cache, req>>

\* The keys of both networks, one delete; an error of Redis is only logged.
Invalidate(i) ==
  /\ ing[i].at = "invalidate"
  /\ \/ cache' = [k \in DOMAIN cache |->
                    IF k[1] \in {ing[i].net, ing[i].existing} THEN NotCached ELSE cache[k]]
     \/ cache' = cache
  /\ ing' = [ing EXCEPT ![i].at = "done", ![i].existing = 0]
  /\ UNCHANGED <<created, network, mirror, req>>

\* A file, Postgres or Neo4j fails it, or the process dies.
Abort(i) ==
  /\ Active(i)
  /\ ing' = [ing EXCEPT ![i] = AtRest("over")]
  /\ UNCHANGED <<created, network, mirror, cache, req>>

-------------------------------------------------------------------------------
(* GET /networks/{network_id}/centrality *)

\* Only of a network that exists; otherwise 404.
Ask(r, n, metric) ==
  /\ req[r].at = "idle"
  /\ n = network
  /\ req' = [req EXCEPT ![r] = Asked("cached?", <<n, metric>>, NotCached)]
  /\ UNCHANGED <<created, network, mirror, cache, ing>>

\* A hit is answered at once; a miss, or an error that is only logged, goes on
\* to the computation.
ReadCache(r) ==
  /\ req[r].at = "cached?"
  /\ \/ cache[req[r].key] # NotCached /\ req' = [req EXCEPT ![r] = NoRequest]
     \/ req' = [req EXCEPT ![r] = Asked("compute", req[r].key, NotCached)]
  /\ UNCHANGED <<created, network, mirror, cache, ing>>

\* Faulty: the scores are computed on the network that exists by now.
ComputeOnCurrent(r) ==
  /\ req[r].at = "compute"
  /\ req' = [req EXCEPT ![r] = Asked("write", req[r].key, RowsGraph(Rows(network)))]
  /\ UNCHANGED <<created, network, mirror, cache, ing>>

\* GDS on the mirror; NetworkX on the rows when GDS raises.  An empty mirror
\* raises nothing.
Compute(r) ==
  /\ req[r].at = "compute"
  /\ LET n == req[r].key[1]
     IN  \E graph \in {Projection(mirror, n), RowsGraph(Rows(n))} :
           req' = [req EXCEPT ![r] = Asked("write", req[r].key, graph)]
  /\ UNCHANGED <<created, network, mirror, cache, ing>>

\* SETEX, unless there are no scores; an error of Redis is only logged.
WriteCache(r) ==
  /\ req[r].at = "write"
  /\ \/ req[r].answer.nodes # {} /\ cache' = [cache EXCEPT ![req[r].key] = req[r].answer]
     \/ cache' = cache
  /\ req' = [req EXCEPT ![r] = NoRequest]
  /\ UNCHANGED <<created, network, mirror, ing>>

\* Postgres fails too, or the client is gone: no answer.
GiveUp(r) ==
  /\ req[r].at \in {"cached?", "compute", "write"}
  /\ req' = [req EXCEPT ![r] = NoRequest]
  /\ UNCHANGED <<created, network, mirror, cache, ing>>

\* The time to live of a key (centrality_cache_ttl_seconds) is over.
Expire(k) ==
  /\ cache[k] # NotCached
  /\ cache' = [cache EXCEPT ![k] = NotCached]
  /\ UNCHANGED <<created, network, mirror, ing, req>>

-------------------------------------------------------------------------------
Answering(r) == ReadCache(r) \/ Compute(r) \/ WriteCache(r)

Next ==
  \/ \E i \in Invocation :
       \/ \E force \in BOOLEAN, source \in DOMAIN Topology : Check(i, force, source)
       \/ Transaction(i) \/ ClearReplaced(i) \/ ReadRows(i) \/ Sync(i) \/ Invalidate(i)
       \/ Abort(i)
  \/ \E r \in Request :
       \/ \E n \in NetId, metric \in Metric : Ask(r, n, metric)
       \/ Answering(r) \/ GiveUp(r)
  \/ \E k \in NetId \X Metric : Expire(k)

\* Requests are worked on, Redis expires its keys.  Nothing makes an
\* invocation go on: it may hang in a statement.  Weak fairness of each, with
\* its ENABLED written out.
Fairness ==
  /\ \A r \in Request : []<>(req[r].at = "idle") \/ []<><<Answering(r)>>_vars
  /\ \A k \in NetId \X Metric : []<>(cache[k] = NotCached) \/ []<><<Expire(k)>>_vars

Spec == Init /\ [][Next]_vars /\ Fairness

-------------------------------------------------------------------------------
(* Properties *)

\* Every variable has its type.
TypeOK ==
  /\ created \in Seq(DOMAIN Topology) /\ Len(created) \in 0 .. Cardinality(NetId)
  /\ network \in {0, Len(created)}
  /\ \A x \in mirror.assets : x[1] \in NetId
  /\ \A l \in mirror.links : {l.from, l.to} \subseteq mirror.assets
  /\ DOMAIN cache = NetId \X Metric
  /\ \A i \in Invocation :
       /\ ing[i].at \in Finished \cup {"transaction", "clear", "read", "sync", "invalidate"}
       /\ ing[i].at = "sync" <=> ing[i].todo # <<>>
  /\ \A r \in Request :
       req[r].at \in {"idle", "cached?", "compute", "write"}

\* The seeding of network n ran to its end, with no other beside it.
SeededInPeace(n) ==
  \E i \in Invocation :
    ing[i].net = n /\ ing[i].alone /\ ing[i].at \in {"invalidate", "done"}

\* An invocation that had the system for itself leaves a mirror on which GDS
\* sees exactly the rows: every asset, every link once and in its directions,
\* whatever failed invocations and crashes before it have left in Neo4j,
\* assets of the same ids included (graph_sync.py:135-184).
MirrorFollowsRows ==
  network # 0 /\ SeededInPeace(network) =>
    Projection(mirror, network) = RowsGraph(Rows(network))

\* No answer, computed or cached, scores an asset its network did not have, be the
\* mirror half built, a leftover, or rebuilt while the request is under way
\* (analytics.py:35-39, networks.py:62-107).
AnswersAreOfTheNetwork ==
  LET FitsIn(scores, n) ==
        scores # NotCached => scores.nodes \subseteq Topology[created[n]].nodes
  IN  /\ \A r \in Request : req[r].at = "write" => FitsIn(req[r].answer, req[r].key[1])
      /\ \A k \in DOMAIN cache : FitsIn(cache[k], k[1])

\* The scores a racing request computed on a half-built or replaced mirror and
\* wrote after the invalidation do not stay: once a network was seeded in peace,
\* or is gone, its keys come to hold the right scores or none, for good
\* (ingestion.py:166-178, analytics.py:315-323).
CacheSettles ==
  \A k \in NetId \X Metric :
    LET n == k[1]
        due == SeededInPeace(n) \/ (n <= Len(created) /\ n # network)
        right == IF n = network THEN {RowsGraph(Rows(n))} ELSE {}
    IN  <>due => <>[](cache[k] \in {NotCached} \cup right)
===============================================================================
