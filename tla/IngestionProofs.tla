---------------------------- MODULE IngestionProofs ----------------------------
(***************************************************************************)
(* What holds of the mirror and the cached scores for every pair of        *)
(* fixtures, any number of invocations of the seeding in any overlap, each *)
(* aborted anywhere, and any number of requests.                           *)
(*                                                                         *)
(* StoresInvariant is inductive and bears any disturbance.  PeaceInvariant *)
(* adds what an invocation knows that had the system for itself: statement *)
(* by statement, its network's part of the mirror becomes the rows.        *)
(***************************************************************************)
EXTENDS Ingestion, FiniteSetTheorems, SequenceTheorems, TLAPS

(* The inductive invariant. *)

Nodes(n) == Topology[created[n]].nodes

AssetIds == UNION {Topology[s].nodes : s \in DOMAIN Topology}

\* A row of some fixture, leading from one of ids to another.
Ends(ids) == [row : UNION {Topology[s].edges : s \in DOMAIN Topology}, from : ids, to : ids]

Statement(ids) ==
  {[op |-> "clear"]} \cup
  {[op |-> "nodes", of |-> x] : x \in SUBSET ids} \cup
  {[op |-> "links", of |-> x] : x \in SUBSET Ends(ids)}

\* What an invocation may hold.
Held ==
  [at : Finished \cup {"transaction", "clear", "read", "sync", "invalidate"},
   existing : Nat, source : DOMAIN Topology \cup {""}, net : Nat,
   todo : Seq(Statement(AssetIds)), alone : BOOLEAN]

\* It works on a network that was committed, one of c, with statements on its
\* assets.
Consistent(c, x) ==
  /\ x.at = "transaction" => x.source \in DOMAIN Topology
  /\ x.at \in {"clear", "read", "sync", "invalidate", "done"} => x.net \in 1 .. Len(c)
  /\ IF x.at = "sync"
     THEN x.todo # <<>> /\ x.todo \in Seq(Statement(Topology[c[x.net]].nodes))
     ELSE x.todo = <<>>

InvocationsOK ==
  /\ ing \in [Invocation -> Held]
  /\ \A i \in Invocation : Consistent(created, ing[i])

\* An invocation commits one network.
Committed == {i \in Invocation : ing[i].at \notin {"idle", "transaction"}}

NetworksOK ==
  /\ created \in Seq(DOMAIN Topology)
  /\ network \in {0, Len(created)}
  /\ Len(created) <= 1 + Cardinality(Committed)

\* Whatever seedings overlap or abort, the mirror holds under a network's id
\* only assets of that network, and joins only assets it holds.
OfTheNetworks(m) ==
  /\ m = [assets |-> m.assets, links |-> m.links]
  /\ \A x \in m.assets :
       /\ x \in (1 .. Len(created)) \X AssetIds
       /\ x[2] \in Nodes(x[1])
  /\ \A l \in m.links : {l.from, l.to} \subseteq m.assets

MirrorOK == OfTheNetworks(mirror)

RequestsOK ==
  /\ DOMAIN req = Request
  /\ \A r \in Request :
       /\ req[r].at \in {"idle", "cached?", "compute", "write"}
       /\ req[r].at # "idle" => /\ req[r].key \in NetId \X Metric
                                /\ req[r].key[1] \in 1 .. Len(created)
       /\ req[r].at = "write" => req[r].answer.nodes \subseteq Nodes(req[r].key[1])

CacheOK ==
  /\ DOMAIN cache = NetId \X Metric
  /\ \A k \in DOMAIN cache : cache[k] # NotCached =>
       /\ k[1] \in 1 .. Len(created)
       /\ cache[k].nodes \subseteq Nodes(k[1])

StoresInvariant == InvocationsOK /\ NetworksOK /\ MirrorOK /\ RequestsOK /\ CacheOK

(* What an undisturbed seeding knows of the mirror.                         *)

\* While an invocation that began alone is at work, no other is.
AloneOK ==
  \A i, j \in Invocation : i # j /\ Active(i) /\ ing[i].alone => ~Active(j)

\* It has committed the network that exists.
Undisturbed(i) ==
  /\ ing[i].alone /\ ing[i].net = network
  /\ ing[i].at \in {"clear", "read", "sync", "invalidate", "done"}

\* Those that have still to write to the mirror.
Writing(j) == ing[j].at \in {"clear", "read", "sync"}

\* What a projection of network n sees of a mirror.
Part(m, n) ==
  [assets |-> {x \in m.assets : x[1] = n},
   links  |-> {l \in m.links : l.from[1] = n /\ l.to[1] = n}]

AllEnds(rows) == Directed(MirroredEdges(rows)) \cup Reversed(MirroredEdges(rows))

LinksOnly(todo) == \A k \in DOMAIN todo : todo[k].op = "links"

\* The ends that statements on links have still to join.
Due(todo) == UNION {todo[k].of : k \in DOMAIN todo}

\* The nodes are there, and the links but for those that are due.
Built(m, n, rows, todo) ==
  /\ LinksOnly(todo)
  /\ Part(m, n).assets = {n} \X rows.nodes
  /\ Part(m, n).links \cup Within(n, Due(todo)) = Within(n, AllEnds(rows))

\* Nothing of the network is in the mirror before its nodes are created: what
\* other invocations have left has other networks' ids.
Progress(i) ==
  LET n == ing[i].net
      rows == Topology[created[n]]
      all == SyncStatements(rows)
  IN  /\ ing[i].at \in {"clear", "read"} => Part(mirror, n) = Empty
      /\ ing[i].at = "sync" =>
           \/ Part(mirror, n) = Empty /\ ing[i].todo \in {all, Tail(all)}
           \/ Built(mirror, n, rows, ing[i].todo)
      /\ ing[i].at \in {"invalidate", "done"} => Part(mirror, n) = Mirrored(n, rows)

Peaceful(i) ==
  Undisturbed(i) => (\A j \in Invocation \ {i} : ~Writing(j)) /\ Progress(i)

PeaceOK == \A i \in Invocation : Peaceful(i)

PeaceInvariant == StoresInvariant /\ AloneOK /\ PeaceOK

--------------------------------------------------------------------------------
(* The statements of a synchronisation. *)

LEMMA LinksOfAreStatements ==
  ASSUME NEW ids, NEW ends \in SUBSET Ends(ids)
  PROVE  LinksOf(ends) \in Seq(Statement(ids))
<1>1. [op |-> "links", of |-> ends] \in Statement(ids)
  BY DEF Statement
<1>2. QED
  BY <1>1 DEF LinksOf

LEMMA LinksOfTypeAreStatements ==
  ASSUME NEW ids, NEW edges \in SUBSET UNION {Topology[s].edges : s \in DOMAIN Topology},
         \A e \in edges : {e.source, e.target} \subseteq ids, NEW type
  PROVE  LinksOfType(edges, type) \in Seq(Statement(ids))
<1> DEFINE typed == {e \in edges : e.edge_type = type}
<1>1. Directed(typed) \in SUBSET Ends(ids) /\ Reversed(typed) \in SUBSET Ends(ids)
  BY DEF Directed, Reversed, Ends
<1>2. /\ LinksOf(Directed(typed)) \in Seq(Statement(ids))
      /\ LinksOf(Reversed(typed)) \in Seq(Statement(ids))
  BY <1>1, LinksOfAreStatements
<1>3. QED
  BY <1>2, ConcatProperties DEF LinksOfType

(* They are statements on the assets of the rows, and there is at least one.*)
LEMMA SyncStatementsAreStatements ==
  ASSUME NEW ids, NEW rows, rows.nodes \subseteq ids,
         rows.edges \subseteq UNION {Topology[s].edges : s \in DOMAIN Topology},
         \A e \in rows.edges : {e.source, e.target} \subseteq ids
  PROVE  /\ SyncStatements(rows) \in Seq(Statement(ids))
         /\ SyncStatements(rows) # <<>>
<1> DEFINE first == <<[op |-> "clear"], [op |-> "nodes", of |-> rows.nodes]>>
           T == Statement(ids)
           L(type) == LinksOfType(rows.edges, type)
<1>1. first \in Seq(T) /\ Len(first) = 2
  BY DEF Statement
<1>2. \A type : L(type) \in Seq(T)
  BY LinksOfTypeAreStatements
<1>3. LinkStatements(rows.edges) \in Seq(T)
  <2> HIDE DEF T, L
  <2>1. LinkStatements(rows.edges)
          = L("power_supply") \o L("water_supply") \o L("road_link") \o L("depends_on")
    BY DEF LinkStatements, L
  <2>2. L("power_supply") \o L("water_supply") \in Seq(T)
    BY <1>2, ConcatProperties
  <2>3. L("power_supply") \o L("water_supply") \o L("road_link") \in Seq(T)
    BY <1>2, <2>2, ConcatProperties
  <2>4. QED
    BY <1>2, <2>1, <2>3, ConcatProperties
<1> DEFINE links == LinkStatements(rows.edges)
<1> HIDE DEF T, first, links, L
<1>4. first \o links \in Seq(T) /\ Len(first \o links) = Len(first) + Len(links)
  <2>1. links \in Seq(T)
    BY <1>3 DEF links
  <2>2. QED
    BY <1>1, <2>1, ConcatProperties
<1>5. Len(links) \in Nat
  BY <1>3, LenProperties DEF links
<1>6. first \o links # <<>>
  <2>1. Len(first \o links) # 0
    BY <1>1, <1>4, <1>5
  <2>2. Len(<<>>) = 0
    BY EmptySeq
  <2>3. QED
    BY <2>1, <2>2, Zenon
<1>7. QED
  BY <1>4, <1>6 DEF SyncStatements, first, links, T

(* A statement of network n leaves under every id what is of that network.  *)
LEMMA ExecuteKeepsNetworks ==
  ASSUME NEW m, OfTheNetworks(m), NEW n \in 1 .. Len(created),
         Nodes(n) \subseteq AssetIds, NEW s \in Statement(Nodes(n))
  PROVE  OfTheNetworks(Execute(m, n, s))
<1>1. CASE s = [op |-> "clear"]
  <2>1. Execute(m, n, s) = Clear(m, n)
    BY <1>1 DEF Execute
  <2>2. OfTheNetworks(Clear(m, n))
    BY DEF OfTheNetworks, Clear
  <2>3. QED
    BY <2>1, <2>2
<1>2. ASSUME NEW x \in SUBSET Nodes(n), s = [op |-> "nodes", of |-> x]
      PROVE  OfTheNetworks(Execute(m, n, s))
  <2>1. Execute(m, n, s) = CreateNodes(m, n, x)
    BY <1>2 DEF Execute
  <2>2. CreateNodes(m, n, x) = [assets |-> m.assets \cup {n} \X x, links |-> m.links]
    BY DEF CreateNodes, OfTheNetworks
  <2>3. QED
    BY <2>1, <2>2 DEF OfTheNetworks
<1>3. ASSUME NEW x, s = [op |-> "links", of |-> x]
      PROVE  OfTheNetworks(Execute(m, n, s))
  <2> DEFINE matches == {y \in x \X m.assets \X m.assets :
                           y[1].from = y[2][2] /\ y[1].to = y[3][2]}
             new == {[by |-> n, row |-> y[1].row, from |-> y[2], to |-> y[3]] : y \in matches}
  <2>1. Execute(m, n, s) = CreateLinks(m, n, x)
    BY <1>3 DEF Execute
  <2>2. CreateLinks(m, n, x) = [m EXCEPT !.links = m.links \cup new]
    BY Zenon DEF CreateLinks
  <2>3. ASSUME NEW l \in new
        PROVE  {l.from, l.to} \subseteq m.assets
    <3>1. PICK y \in matches : l = [by |-> n, row |-> y[1].row, from |-> y[2], to |-> y[3]]
      OBVIOUS
    <3>2. y[2] \in m.assets /\ y[3] \in m.assets /\ l.from = y[2] /\ l.to = y[3]
      BY <3>1
    <3>3. QED
      BY <3>2
  <2> HIDE DEF new
  <2>4. QED
    BY <2>1, <2>2, <2>3 DEF OfTheNetworks
<1>4. QED
  BY <1>1, <1>2, <1>3 DEF Statement

LEMMA NodesAreIds ==
  ASSUME created \in Seq(DOMAIN Topology), NEW n \in 1 .. Len(created)
  PROVE  /\ created[n] \in DOMAIN Topology
         /\ Nodes(n) \subseteq AssetIds
<1>1. created[n] \in DOMAIN Topology
  BY ElementOfSeq
<1>2. QED
  BY <1>1 DEF Nodes, AssetIds

(* What is read back of a network are its rows, or none if it is gone.      *)
LEMMA RowsAreOfTheNetwork ==
  ASSUME created \in Seq(DOMAIN Topology), NEW n \in 1 .. Len(created)
  PROVE  /\ Rows(n).nodes \subseteq Nodes(n)
         /\ Rows(n).edges \subseteq UNION {Topology[s].edges : s \in DOMAIN Topology}
         /\ \A e \in Rows(n).edges : {e.source, e.target} \subseteq Nodes(n)
<1>1. created[n] \in DOMAIN Topology
  BY NodesAreIds
<1>2. CASE network = n
  BY <1>1, <1>2, TopologyAssumption DEF Rows, Nodes
<1>3. CASE network # n
  BY <1>3 DEF Rows, NoRows
<1>4. QED
  BY <1>2, <1>3

--------------------------------------------------------------------------------
(* Networks are only added. *)

LEMMA TransactionEffect ==
  ASSUME StoresInvariant, NEW i \in Invocation, Transaction(i),
         network \in {0, ing[i].existing}
  PROVE  /\ created' = Append(created, ing[i].source)
         /\ created' \in Seq(DOMAIN Topology)
         /\ Len(created) \in Nat
         /\ Len(created') = Len(created) + 1
         /\ \A n \in 1 .. Len(created) : created'[n] = created[n]
         /\ network' = Len(created')
<1>1. created \in Seq(DOMAIN Topology) /\ ing[i].source \in DOMAIN Topology
  BY DEF StoresInvariant, NetworksOK, InvocationsOK, Consistent, Transaction
<1>2. created' = Append(created, ing[i].source) /\ network' = Len(created')
  BY DEF Transaction
<1>3. QED
  BY <1>1, <1>2, AppendProperties, LenProperties

LEMMA OnlyTransactionCommits ==
  ASSUME [Next]_vars,
         \A i \in Invocation : ~ (Transaction(i) /\ network \in {0, ing[i].existing})
  PROVE  created' = created /\ network' = network
BY DEF Next, vars, Check, Transaction, ClearReplaced, ReadRows, Sync, Invalidate, Abort,
       Ask, Answering, ReadCache, Compute, WriteCache, GiveUp, Expire

LEMMA NetworksGrow ==
  ASSUME StoresInvariant, [Next]_vars
  PROVE  /\ created' \in Seq(DOMAIN Topology)
         /\ network' \in {0, Len(created')}
         /\ Len(created) \in Nat /\ Len(created') \in Nat
         /\ Len(created) <= Len(created')
         /\ \A n \in 1 .. Len(created) : n \in 1 .. Len(created') /\ Nodes(n)' = Nodes(n)
<1>1. created \in Seq(DOMAIN Topology) /\ network \in {0, Len(created)}
  BY DEF StoresInvariant, NetworksOK
<1>2. Len(created) \in Nat
  BY <1>1, LenProperties
<1>3. ASSUME NEW i \in Invocation, Transaction(i), network \in {0, ing[i].existing}
      PROVE  /\ created' \in Seq(DOMAIN Topology) /\ network' = Len(created')
             /\ Len(created') = Len(created) + 1
             /\ \A n \in 1 .. Len(created) : created'[n] = created[n]
  BY <1>3, TransactionEffect
<1>4. ASSUME \A i \in Invocation : ~ (Transaction(i) /\ network \in {0, ing[i].existing})
      PROVE  created' = created /\ network' = network
  BY <1>4, OnlyTransactionCommits
<1>5. QED
  BY <1>1, <1>2, <1>3, <1>4 DEF Nodes

--------------------------------------------------------------------------------
(* One step of each part of the invariant. *)

LEMMA StatementsOfMore ==
  ASSUME NEW ids, NEW more, ids \subseteq more
  PROVE  Seq(Statement(ids)) \subseteq Seq(Statement(more))
<1>1. Statement(ids) \subseteq Statement(more)
  BY DEF Statement, Ends
<1>2. QED
  BY <1>1, SeqMonotonic

(* The invocations that do not move stay consistent.                        *)
LEMMA OneInvocationMoves ==
  ASSUME StoresInvariant, [Next]_vars, NEW i \in Invocation,
         NEW x \in Held, Consistent(created', x), ing' = [ing EXCEPT ![i] = x]
  PROVE  InvocationsOK'
<1>1. ASSUME NEW j \in Invocation, j # i
      PROVE  Consistent(created', ing'[j])
  <2>1. ing'[j] = ing[j] /\ Consistent(created, ing[j])
    BY <1>1 DEF StoresInvariant, InvocationsOK
  <2>2. \A n \in 1 .. Len(created) :
          n \in 1 .. Len(created') /\ Topology[created'[n]].nodes = Topology[created[n]].nodes
    BY NetworksGrow DEF Nodes
  <2>3. QED
    BY <2>1, <2>2 DEF Consistent
<1>2. ing' \in [Invocation -> Held] /\ ing'[i] = x
  BY DEF StoresInvariant, InvocationsOK
<1>3. QED
  BY <1>1, <1>2 DEF InvocationsOK, Consistent

LEMMA AtRestIsConsistent ==
  ASSUME NEW a \in {"idle", "over"}, NEW c
  PROVE  AtRest(a) \in Held /\ Consistent(c, AtRest(a))
<1>1. <<>> \in Seq(Statement(AssetIds))
  OBVIOUS
<1> DEFINE S == Seq(Statement(AssetIds))
<1> HIDE DEF S
<1>2. AtRest(a) \in Held
  BY <1>1 DEF AtRest, Held, Finished, S
<1>3. QED
  BY <1>2 DEF AtRest, Consistent

LEMMA InvocationsStep ==
  ASSUME StoresInvariant, [Next]_vars
  PROVE  InvocationsOK'
<1> DEFINE T == Seq(Statement(AssetIds))
<1>1. \A n \in 1 .. Len(created) : n \in 1 .. Len(created)' /\ Nodes(n)' = Nodes(n)
  BY NetworksGrow
<1>2. /\ \A i \in Invocation : ing[i] \in Held /\ Consistent(created, ing[i])
      /\ ing \in [Invocation -> Held]
      /\ created \in Seq(DOMAIN Topology) /\ network \in {0, Len(created)}
      /\ Len(created) \in Nat
  BY NetworksGrow DEF StoresInvariant, NetworksOK, InvocationsOK
<1>3. CASE UNCHANGED <<created, ing>>
  BY <1>2, <1>3 DEF InvocationsOK, Consistent, Nodes
<1>4. ASSUME NEW i \in Invocation, NEW force \in BOOLEAN, NEW source \in DOMAIN Topology,
             Check(i, force, source)
      PROVE  InvocationsOK'
  <2>1. UNCHANGED created
    BY <1>4 DEF Check
  <2> DEFINE kept == network # 0 /\ ~force
             alone == ~ \E j \in Invocation : Active(j)
             begun == [ing[i] EXCEPT !.at = "transaction", !.existing = network,
                                     !.source = source, !.alone = alone]
             seen(j) == [ing[j] EXCEPT !.alone = FALSE]
             move(j) == IF j = i /\ kept THEN AtRest("over")
                        ELSE IF j = i THEN begun
                        ELSE IF kept \/ ~Active(j) THEN ing[j]
                        ELSE seen(j)
  <2>2. ing' = [j \in Invocation |-> move(j)] /\ ing[i].at = "idle"
    BY <1>4 DEF Check
  <2>3. begun \in Held /\ Consistent(created', begun)
    <3>1. alone \in BOOLEAN /\ network \in Nat
      BY <1>2
    <3> HIDE DEF alone
    <3>2. /\ begun \in Held /\ begun.at = "transaction" /\ begun.source = source
          /\ begun.todo = ing[i].todo
      BY <1>2, <1>4, <3>1 DEF Held
    <3>3. ing[i].todo = <<>>
      BY <1>2, <2>2 DEF Consistent
    <3> HIDE DEF begun
    <3>4. QED
      BY <1>4, <3>2, <3>3 DEF Consistent
  <2>4. \A j \in Invocation : seen(j) \in Held /\ Consistent(created', seen(j))
    BY <1>2, <2>1 DEF Held, Consistent
  <2>5. AtRest("over") \in Held /\ Consistent(created', AtRest("over"))
    BY AtRestIsConsistent
  <2> HIDE DEF alone, begun, seen, kept
  <2>6. ASSUME NEW j \in Invocation
        PROVE  move(j) \in Held /\ Consistent(created', move(j))
    BY <1>2, <2>1, <2>3, <2>4, <2>5
  <2> HIDE DEF move
  <2>7. QED
    BY <2>2, <2>6 DEF InvocationsOK
<1>5. ASSUME NEW i \in Invocation, Transaction(i)
      PROVE  InvocationsOK'
  <2>1. CASE network \in {0, ing[i].existing}
    <3> DEFINE x == [ing[i] EXCEPT !.at = "clear", !.source = "", !.net = Len(created')]
    <3>1. ing' = [ing EXCEPT ![i] = x]
      BY <1>5, <2>1 DEF Transaction
    <3>2. Len(created') \in Nat /\ Len(created') \in 1 .. Len(created')
      BY <1>5, <2>1, <1>2, TransactionEffect
    <3>3. x \in Held /\ Consistent(created', x)
      BY <1>2, <1>5, <3>2 DEF Transaction, Held, Consistent
    <3> HIDE DEF x
    <3>4. QED
      BY <3>1, <3>3, OneInvocationMoves
  <2>2. CASE network \notin {0, ing[i].existing}
    <3>1. ing' = [ing EXCEPT ![i] = AtRest("over")]
      BY <1>5, <2>2 DEF Transaction
    <3>2. AtRest("over") \in Held /\ Consistent(created', AtRest("over"))
      BY AtRestIsConsistent
    <3>3. QED
      BY <3>1, <3>2, OneInvocationMoves
  <2>3. QED
    BY <2>1, <2>2
<1>6. ASSUME NEW i \in Invocation, ClearReplaced(i)
      PROVE  InvocationsOK'
  <2> DEFINE x == [ing[i] EXCEPT !.at = "read"]
  <2>1. ing' = [ing EXCEPT ![i] = x] /\ UNCHANGED created
    BY <1>6 DEF ClearReplaced
  <2>2. x \in Held /\ Consistent(created', x)
    BY <1>2, <1>6, <2>1 DEF ClearReplaced, Held, Consistent
  <2> HIDE DEF x
  <2>3. QED
    BY <2>1, <2>2, OneInvocationMoves
<1>7. ASSUME NEW i \in Invocation, ReadRows(i)
      PROVE  InvocationsOK'
  <2> DEFINE n == ing[i].net
             todo == SyncStatements(Rows(n))
             x == [ing[i] EXCEPT !.at = "sync", !.todo = todo]
  <2>1. ing' = [ing EXCEPT ![i] = x] /\ UNCHANGED created /\ ing[i].at = "read"
    BY <1>7 DEF ReadRows
  <2>2. n \in 1 .. Len(created)
    BY <1>2, <2>1 DEF Consistent
  <2>3. todo \in Seq(Statement(Nodes(n))) /\ todo # <<>>
    BY <1>2, <2>2, RowsAreOfTheNetwork, SyncStatementsAreStatements
  <2>4. todo \in Seq(Statement(AssetIds))
    BY <1>2, <2>2, <2>3, NodesAreIds, StatementsOfMore
  <2>5. Nodes(n)' = Nodes(n)
    BY <1>1, <2>1, <2>2
  <2> HIDE DEF todo
  <2>6. x \in Held /\ x.at = "sync" /\ x.todo = todo /\ x.net = n
    BY <1>2, <2>4 DEF Held
  <2> HIDE DEF x
  <2>7. Consistent(created', x)
    BY <2>1, <2>2, <2>3, <2>6 DEF Consistent, Nodes
  <2>8. QED
    BY <2>1, <2>6, <2>7, OneInvocationMoves
<1>8. ASSUME NEW i \in Invocation, Sync(i)
      PROVE  InvocationsOK'
  <2> DEFINE n == ing[i].net
             rest == Tail(ing[i].todo)
             at == IF rest = <<>> THEN "invalidate" ELSE "sync"
             x == [ing[i] EXCEPT !.todo = rest, !.at = at]
  <2>1. ing' = [ing EXCEPT ![i] = x] /\ UNCHANGED created /\ ing[i].at = "sync"
    BY <1>8 DEF Sync
  <2>2. /\ n \in 1 .. Len(created)
        /\ ing[i].todo # <<>> /\ ing[i].todo \in Seq(Statement(Nodes(n)))
    BY <1>2, <2>1 DEF Consistent, Nodes
  <2>3. rest \in Seq(Statement(Nodes(n)))
    BY <2>2, HeadTailProperties
  <2>4. rest \in Seq(Statement(AssetIds))
    BY <1>2, <2>2, <2>3, NodesAreIds, StatementsOfMore
  <2> HIDE DEF rest
  <2>5. x \in Held /\ x.at = at /\ x.todo = rest /\ x.net = n
    BY <1>2, <2>4 DEF Held
  <2> HIDE DEF x
  <2>6. Consistent(created', x)
    BY <2>1, <2>2, <2>3, <2>5 DEF Consistent, Nodes
  <2>7. QED
    BY <2>1, <2>5, <2>6, OneInvocationMoves
<1>9. ASSUME NEW i \in Invocation, Invalidate(i)
      PROVE  InvocationsOK'
  <2> DEFINE x == [ing[i] EXCEPT !.at = "done", !.existing = 0]
  <2>1. ing' = [ing EXCEPT ![i] = x] /\ UNCHANGED created
    BY <1>9 DEF Invalidate
  <2>2. x \in Held /\ Consistent(created', x)
    BY <1>2, <1>9, <2>1 DEF Invalidate, Held, Consistent, Finished
  <2> HIDE DEF x
  <2>3. QED
    BY <2>1, <2>2, OneInvocationMoves
<1>10. ASSUME NEW i \in Invocation, Abort(i)
       PROVE  InvocationsOK'
  <2>1. ing' = [ing EXCEPT ![i] = AtRest("over")]
    BY <1>10 DEF Abort
  <2>2. AtRest("over") \in Held /\ Consistent(created', AtRest("over"))
    BY AtRestIsConsistent
  <2>3. QED
    BY <2>1, <2>2, OneInvocationMoves
<1>11. ASSUME NEW r \in Request,
              (\E n \in NetId, metric \in Metric : Ask(r, n, metric)) \/ Answering(r) \/ GiveUp(r)
       PROVE  UNCHANGED <<created, ing>>
  BY <1>11 DEF Ask, Answering, ReadCache, Compute, WriteCache, GiveUp
<1>12. ASSUME NEW k \in NetId \X Metric, Expire(k)
       PROVE  UNCHANGED <<created, ing>>
  BY <1>12 DEF Expire
<1>13. CASE UNCHANGED vars
  BY <1>3, <1>13 DEF vars
<1>14. QED
  BY <1>3, <1>4, <1>5, <1>6, <1>7, <1>8, <1>9, <1>10, <1>11, <1>12, <1>13 DEF Next

(* An invocation that committed, or is over, does not begin again.          *)
LEMMA CommittedGrows ==
  ASSUME StoresInvariant, [Next]_vars
  PROVE  /\ Committed \subseteq Committed'
         /\ IsFiniteSet(Committed')
         /\ Cardinality(Committed) \in Nat /\ Cardinality(Committed') \in Nat
         /\ Cardinality(Committed) <= Cardinality(Committed')
<1> USE DEF Committed
<1>1. ing \in [Invocation -> Held]
  BY DEF StoresInvariant, InvocationsOK
<1>2. ASSUME NEW i \in Invocation,
             (\E force \in BOOLEAN, source \in DOMAIN Topology : Check(i, force, source))
               \/ Transaction(i)
      PROVE  ing[i].at \in {"idle", "transaction"} /\ \A j \in Invocation \ {i} : ing'[j].at = ing[j].at
  <2>1. CASE \E force \in BOOLEAN, source \in DOMAIN Topology : Check(i, force, source)
    <3>1. PICK force \in BOOLEAN, source \in DOMAIN Topology : Check(i, force, source)
      BY <2>1
    <3>2. ing[i].at = "idle"
      BY <3>1 DEF Check
    <3>3. \A j \in Invocation \ {i} : ing'[j].at = ing[j].at
      BY <1>1, <3>1 DEF Check, Held
    <3> QED
      BY <3>2, <3>3
  <2>2. CASE Transaction(i)
    BY <1>1, <2>2 DEF Transaction, Held
  <2> QED
    BY <1>2, <2>1, <2>2
<1>3. ASSUME NEW i \in Invocation,
             ClearReplaced(i) \/ ReadRows(i) \/ Sync(i) \/ Invalidate(i) \/ Abort(i)
      PROVE  /\ ing'[i].at \notin {"idle", "transaction"}
             /\ \A j \in Invocation \ {i} : ing'[j].at = ing[j].at
  <2>1. CASE ClearReplaced(i)
    BY <1>1, <2>1 DEF ClearReplaced, Held
  <2>2. CASE ReadRows(i)
    BY <1>1, <2>2 DEF ReadRows, Held
  <2>3. CASE Sync(i)
    BY <1>1, <2>3 DEF Sync, Held
  <2>4. CASE Invalidate(i)
    BY <1>1, <2>4 DEF Invalidate, Held
  <2>5. CASE Abort(i)
    BY <1>1, <2>5 DEF Abort, AtRest
  <2>6. QED
    BY <1>3, <2>1, <2>2, <2>3, <2>4, <2>5
<1>4. ASSUME NEW r \in Request,
             (\E n \in NetId, metric \in Metric : Ask(r, n, metric)) \/ Answering(r) \/ GiveUp(r)
      PROVE  UNCHANGED ing
  BY <1>4 DEF Ask, Answering, ReadCache, Compute, WriteCache, GiveUp
<1>5. ASSUME NEW k \in NetId \X Metric, Expire(k)
      PROVE  UNCHANGED ing
  BY <1>5 DEF Expire
<1>6. Committed \subseteq Committed'
  BY <1>2, <1>3, <1>4, <1>5 DEF Next, vars
<1>7. IsFiniteSet(Invocation) /\ Committed \subseteq Invocation /\ Committed' \subseteq Invocation
  BY InvocationsAssumption, FS_Interval DEF Invocation
<1> HIDE DEF Committed
<1>8. IsFiniteSet(Committed) /\ IsFiniteSet(Committed')
  BY <1>7, FS_Subset
<1>9. QED
  BY <1>6, <1>8, FS_Subset, FS_CardinalityType

LEMMA NetworksStep ==
  ASSUME StoresInvariant, [Next]_vars
  PROVE  NetworksOK'
<1>1. /\ created' \in Seq(DOMAIN Topology) /\ network' \in {0, Len(created')}
      /\ Len(created) \in Nat
  BY NetworksGrow
<1>2. /\ Committed \subseteq Committed'
      /\ IsFiniteSet(Committed')
      /\ Cardinality(Committed) \in Nat /\ Cardinality(Committed') \in Nat
      /\ Cardinality(Committed) <= Cardinality(Committed')
  BY CommittedGrows
<1>3. Len(created) <= 1 + Cardinality(Committed)
  BY DEF StoresInvariant, NetworksOK
<1>4. CASE created' = created
  <2>1. Len(created') <= 1 + Cardinality(Committed')
    BY <1>1, <1>2, <1>3, <1>4
  <2>2. QED
    BY <1>1, <2>1 DEF NetworksOK
<1>5. ASSUME NEW i \in Invocation, Transaction(i), network \in {0, ing[i].existing}
      PROVE  NetworksOK'
  <2>1. Len(created') = Len(created) + 1
    BY <1>5, TransactionEffect
  <2>2. i \notin Committed /\ i \in Committed'
    <3>1. ing \in [Invocation -> Held] /\ ing[i].at = "transaction"
      BY <1>5 DEF Transaction, StoresInvariant, InvocationsOK
    <3>2. ing' = [ing EXCEPT ![i].at = "clear", ![i].source = "", ![i].net = Len(created')]
      BY <1>5 DEF Transaction
    <3>3. ing'[i].at = "clear"
      BY <3>1, <3>2 DEF Held
    <3>4. QED
      BY <3>1, <3>3 DEF Committed
  <2>3. Committed \subseteq Committed' \ {i} /\ IsFiniteSet(Committed' \ {i})
    BY <1>2, <2>2, FS_Subset
  <2>4. /\ Cardinality(Committed' \ {i}) = Cardinality(Committed') - 1
        /\ Cardinality(Committed) <= Cardinality(Committed' \ {i})
    BY <1>2, <2>2, <2>3, FS_RemoveElement, FS_Subset
  <2>5. Len(created') <= 1 + Cardinality(Committed')
    BY <1>1, <1>2, <1>3, <2>1, <2>4
  <2>6. QED
    BY <1>1, <2>5 DEF NetworksOK
<1>6. QED
  BY <1>4, <1>5, OnlyTransactionCommits

(* Other networks leave what is known of a mirror as it is.                 *)
LEMMA MirrorOfMoreNetworks ==
  ASSUME StoresInvariant, [Next]_vars, NEW m, OfTheNetworks(m)
  PROVE  /\ m = [assets |-> m.assets, links |-> m.links]
         /\ \A x \in m.assets :
              /\ x \in (1 .. Len(created')) \X AssetIds
              /\ x[2] \in Topology[created'[x[1]]].nodes
         /\ \A l \in m.links : {l.from, l.to} \subseteq m.assets
<1>1. /\ Len(created) \in Nat /\ Len(created') \in Nat /\ Len(created) <= Len(created')
      /\ \A n \in 1 .. Len(created) :
           Topology[created'[n]].nodes = Topology[created[n]].nodes
  BY NetworksGrow DEF Nodes
<1>2. QED
  BY <1>1 DEF OfTheNetworks, Nodes

LEMMA MirrorStep ==
  ASSUME StoresInvariant, [Next]_vars
  PROVE  MirrorOK'
<1>1. OfTheNetworks(mirror) /\ created \in Seq(DOMAIN Topology)
  BY DEF StoresInvariant, MirrorOK, NetworksOK
<1>2. CASE mirror' = mirror
  <2>1. OfTheNetworks(mirror)'
    BY <1>1, <1>2, MirrorOfMoreNetworks DEF OfTheNetworks, Nodes
  <2>2. QED
    BY <2>1 DEF MirrorOK
<1>3. ASSUME NEW i \in Invocation, ClearReplaced(i)
      PROVE  MirrorOK'
  <2>1. OfTheNetworks(Clear(mirror, ing[i].existing))
    BY <1>1 DEF OfTheNetworks, Clear
  <2>2. mirror' \in {mirror, Clear(mirror, ing[i].existing)} /\ created' = created
    BY <1>3 DEF ClearReplaced
  <2>3. OfTheNetworks(mirror')
    BY <1>1, <2>1, <2>2
  <2>4. QED
    BY <2>2, <2>3 DEF MirrorOK, OfTheNetworks, Nodes
<1>4. ASSUME NEW i \in Invocation, Sync(i)
      PROVE  MirrorOK'
  <2> DEFINE n == ing[i].net
             s == Head(ing[i].todo)
  <2>1. mirror' = Execute(mirror, n, s) /\ created' = created
    BY <1>4 DEF Sync
  <2>2. /\ n \in 1 .. Len(created)
        /\ ing[i].todo # <<>> /\ ing[i].todo \in Seq(Statement(Nodes(n)))
    BY <1>4 DEF Sync, StoresInvariant, InvocationsOK, Consistent, Nodes
  <2>3. s \in Statement(Nodes(n))
    BY <2>2, HeadTailProperties
  <2>4. Nodes(n) \subseteq AssetIds
    BY <1>1, <2>2, NodesAreIds
  <2> HIDE DEF n, s
  <2>5. OfTheNetworks(mirror')
    BY <1>1, <2>1, <2>2, <2>3, <2>4, ExecuteKeepsNetworks
  <2>6. QED
    BY <2>1, <2>5 DEF MirrorOK, OfTheNetworks, Nodes
<1>5. ASSUME \A i \in Invocation : ~ ClearReplaced(i) /\ ~ Sync(i)
      PROVE  mirror' = mirror
  BY <1>5 DEF Next, vars, Check, Transaction, ReadRows, Invalidate, Abort,
     Ask, Answering, ReadCache, Compute, WriteCache, GiveUp, Expire
<1>6. QED
  BY <1>2, <1>3, <1>4, <1>5

(* Scores computed on the mirror, or on the rows, are of the network.       *)
LEMMA ScoresAreOfTheNetwork ==
  ASSUME StoresInvariant, NEW n \in 1 .. Len(created),
         NEW g \in {Projection(mirror, n), RowsGraph(Rows(n))}
  PROVE  g.nodes \subseteq Nodes(n)
<1>1. CASE g = Projection(mirror, n)
  BY <1>1 DEF Projection, Graph, StoresInvariant, MirrorOK, OfTheNetworks
<1>2. CASE g = RowsGraph(Rows(n))
  BY <1>2, RowsAreOfTheNetwork DEF RowsGraph, StoresInvariant, NetworksOK
<1>3. QED
  BY <1>1, <1>2

LEMMA RequestsStep ==
  ASSUME StoresInvariant, [Next]_vars
  PROVE  RequestsOK'
<1>1. /\ \A n \in 1 .. Len(created) : n \in 1 .. Len(created)' /\ Nodes(n)' = Nodes(n)
      /\ RequestsOK /\ network \in {0, Len(created)}
      /\ Len(created) \in Nat
  BY NetworksGrow DEF StoresInvariant, NetworksOK
<1>2. ASSUME NEW x \in Request, req'[x] = req[x]
      PROVE  /\ req'[x].at \in {"idle", "cached?", "compute", "write"}
             /\ req'[x].at # "idle" => /\ req'[x].key \in NetId \X Metric
                                       /\ req'[x].key[1] \in 1 .. Len(created')
             /\ req'[x].at = "write" => req'[x].answer.nodes \subseteq Nodes(req[x].key[1])'
  BY <1>1, <1>2 DEF RequestsOK
<1>3. CASE req' = req
  BY <1>1, <1>2, <1>3 DEF RequestsOK, Nodes
<1>4. ASSUME NEW r \in Request, NEW n \in NetId, NEW metric \in Metric, Ask(r, n, metric)
      PROVE  RequestsOK'
  <2>1. /\ req' = [req EXCEPT ![r] = Asked("cached?", <<n, metric>>, NotCached)]
        /\ n \in 1 .. Len(created) /\ created' = created
    BY <1>1, <1>4 DEF Ask, NetId
  <2>2. QED
    BY <1>1, <2>1 DEF RequestsOK, Asked, Nodes
<1>5. ASSUME NEW r \in Request, ReadCache(r)
      PROVE  RequestsOK'
  <2>1. created' = created
        /\ req' \in {[req EXCEPT ![r] = NoRequest],
                     [req EXCEPT ![r] = Asked("compute", req[r].key, NotCached)]}
        /\ req[r].at = "cached?"
    BY <1>5 DEF ReadCache
  <2>2. QED
    BY <1>1, <2>1 DEF RequestsOK, NoRequest, Asked, Nodes
<1>6. ASSUME NEW r \in Request, Compute(r)
      PROVE  RequestsOK'
  <2> DEFINE n == req[r].key[1]
  <2>1. req[r].at = "compute" /\ n \in 1 .. Len(created) /\ created' = created
    BY <1>1, <1>6 DEF Compute, RequestsOK
  <2>2. PICK g \in {Projection(mirror, n), RowsGraph(Rows(n))} :
          req' = [req EXCEPT ![r] = Asked("write", req[r].key, g)]
    BY <1>6 DEF Compute
  <2>3. g.nodes \subseteq Nodes(n)
    BY <2>1, ScoresAreOfTheNetwork
  <2>4. QED
    BY <1>1, <2>1, <2>2, <2>3 DEF RequestsOK, Asked, Nodes
<1>7. ASSUME NEW r \in Request, WriteCache(r) \/ GiveUp(r)
      PROVE  RequestsOK'
  <2>1. req' = [req EXCEPT ![r] = NoRequest] /\ created' = created
    BY <1>7 DEF WriteCache, GiveUp
  <2>2. QED
    BY <1>1, <2>1 DEF RequestsOK, NoRequest, Asked, Nodes
<1>8. ASSUME \A r \in Request : /\ \A n \in NetId, metric \in Metric : ~ Ask(r, n, metric)
                                /\ ~ Answering(r) /\ ~ GiveUp(r)
      PROVE  req' = req
  BY <1>8 DEF Next, vars, Check, Transaction, ClearReplaced, ReadRows, Sync, Invalidate,
     Abort, Expire
<1>9. QED
  BY <1>3, <1>4, <1>5, <1>6, <1>7, <1>8 DEF Answering

LEMMA CacheStep ==
  ASSUME StoresInvariant, [Next]_vars
  PROVE  CacheOK'
<1>1. /\ \A n \in 1 .. Len(created) : n \in 1 .. Len(created)' /\ Nodes(n)' = Nodes(n)
      /\ CacheOK /\ RequestsOK
  BY NetworksGrow DEF StoresInvariant
<1>2. ASSUME DOMAIN cache' = DOMAIN cache,
             \A k \in DOMAIN cache : cache'[k] \in {cache[k], NotCached}
      PROVE  CacheOK'
  BY <1>1, <1>2 DEF CacheOK, Nodes
<1>3. ASSUME NEW r \in Request, WriteCache(r), cache' # cache
      PROVE  CacheOK'
  <2>1. /\ cache' = [cache EXCEPT ![req[r].key] = req[r].answer]
        /\ req[r].at = "write" /\ created' = created
    BY <1>3 DEF WriteCache
  <2>2. /\ req[r].key \in NetId \X Metric /\ req[r].key[1] \in 1 .. Len(created)
        /\ req[r].answer.nodes \subseteq Nodes(req[r].key[1])
    BY <1>1, <2>1 DEF RequestsOK
  <2>3. QED
    BY <1>1, <2>1, <2>2 DEF CacheOK, Nodes
<1>4. ASSUME NEW i \in Invocation, Invalidate(i)
      PROVE  CacheOK'
  BY <1>2, <1>4 DEF Invalidate
<1>5. ASSUME NEW k \in NetId \X Metric, Expire(k)
      PROVE  CacheOK'
  BY <1>1, <1>2, <1>5 DEF Expire, CacheOK
<1>6. CASE cache' = cache
  BY <1>2, <1>6
<1>7. ASSUME \A r \in Request : ~ WriteCache(r), \A i \in Invocation : ~ Invalidate(i),
             \A k \in NetId \X Metric : ~ Expire(k)
      PROVE  cache' = cache
  BY <1>7 DEF Next, vars, Check, Transaction, ClearReplaced, ReadRows, Sync, Abort,
     Ask, Answering, ReadCache, Compute, GiveUp
<1>8. QED
  BY <1>3, <1>4, <1>5, <1>6, <1>7

--------------------------------------------------------------------------------
LEMMA InvariantInit ==
  ASSUME Init
  PROVE  StoresInvariant
<1>1. InvocationsOK
  <2>1. AtRest("idle") \in Held /\ Consistent(created, AtRest("idle"))
    BY AtRestIsConsistent
  <2>2. QED
    BY <2>1 DEF Init, InvocationsOK
<1>2. /\ created \in Seq(DOMAIN Topology) /\ network = Len(created) /\ Len(created) \in {0, 1}
      /\ Len(created) = 1 => created[1] = "synthetic"
  <2>1. CASE created = <<>> /\ network = 0
    BY <2>1
  <2>2. CASE created = <<"synthetic">> /\ network = 1
    BY <2>2, TopologyAssumption
  <2>3. QED
    BY <2>1, <2>2 DEF Init
<1>3. NetworksOK
  <2>1. Committed \subseteq 1 .. Invocations
    BY DEF Committed, Invocation
  <2>2. Cardinality(Committed) \in Nat
    <3>1. IsFiniteSet(1 .. Invocations)
      BY InvocationsAssumption, FS_Interval
    <3>2. QED
      BY <2>1, <3>1, FS_Subset, FS_CardinalityType
  <2>3. QED
    BY <1>2, <2>2 DEF NetworksOK
<1>4. MirrorOK
  <2>1. CASE mirror = Empty
    BY <2>1 DEF MirrorOK, OfTheNetworks, Empty
  <2>2. CASE created = <<"synthetic">> /\ mirror = Mirrored(1, Topology["synthetic"])
    <3> DEFINE rows == Topology["synthetic"]
               m == Mirrored(1, rows)
               ends == Directed(MirroredEdges(rows)) \cup Reversed(MirroredEdges(rows))
    <3>1. \A d \in ends : d.from \in rows.nodes /\ d.to \in rows.nodes
      BY TopologyAssumption DEF Directed, Reversed, MirroredEdges
    <3>2. m = [assets |-> m.assets, links |-> m.links] /\ m.assets = {1} \X rows.nodes
      BY DEF Mirrored
    <3>3. m.links = {[by |-> 1, row |-> d.row, from |-> <<1, d.from>>, to |-> <<1, d.to>>] :
                        d \in ends}
      BY DEF Mirrored, Within
    <3> HIDE DEF ends
    <3>4. ASSUME NEW l \in m.links
          PROVE  {l.from, l.to} \subseteq m.assets
      <4>1. PICK d \in ends :
              l = [by |-> 1, row |-> d.row, from |-> <<1, d.from>>, to |-> <<1, d.to>>]
        BY <3>3
      <4>2. d.from \in rows.nodes /\ d.to \in rows.nodes
        BY <3>1
      <4>3. QED
        BY <3>2, <4>1, <4>2
    <3>5. rows.nodes \subseteq AssetIds
      BY TopologyAssumption DEF AssetIds
    <3> HIDE DEF m, rows
    <3>6. Len(created) = 1 /\ created[1] = "synthetic"
      BY <2>2
    <3>7. OfTheNetworks(m)
      BY <3>2, <3>4, <3>5, <3>6 DEF OfTheNetworks, Nodes, rows
    <3>8. QED
      BY <2>2, <3>7 DEF MirrorOK, m, rows
  <2>3. QED
    BY <2>1, <2>2 DEF Init
<1>5. RequestsOK
  BY DEF Init, RequestsOK, NoRequest, Asked
<1>6. CacheOK
  BY DEF Init, CacheOK
<1>7. QED
  BY <1>1, <1>3, <1>4, <1>5, <1>6 DEF StoresInvariant

(* The invariant of the stores holds of every reachable state.              *)
THEOREM StoresInvariantHolds == Spec => []StoresInvariant
<1>1. Init => StoresInvariant
  BY InvariantInit
<1>2. StoresInvariant /\ [Next]_vars => StoresInvariant'
  BY InvocationsStep, NetworksStep, MirrorStep, RequestsStep, CacheStep DEF StoresInvariant
<1>3. QED
  BY <1>1, <1>2, PTL DEF Spec

(* No answer and no cached score is of an asset that its network did not    *)
(* have, however seedings overlap and wherever they end (graph_sync.py:135, *)
(* analytics.py:35-39).                                                     *)
THEOREM ScoresAreOfTheirNetwork == Spec => []AnswersAreOfTheNetwork
<1>1. StoresInvariant => AnswersAreOfTheNetwork
  BY DEF StoresInvariant, RequestsOK, CacheOK, AnswersAreOfTheNetwork, Nodes
<1>2. QED
  BY <1>1, StoresInvariantHolds, PTL

(* Every reachable state is well typed; no link dangles, and no more        *)
(* networks are committed than invocations can have committed.              *)
THEOREM TypeCorrect == Spec => []TypeOK
<1>1. ASSUME StoresInvariant
      PROVE  TypeOK
  <2>1. /\ created \in Seq(DOMAIN Topology) /\ network \in {0, Len(created)}
        /\ Len(created) <= 1 + Cardinality(Committed)
    BY <1>1 DEF StoresInvariant, NetworksOK
  <2>2. Len(created) \in Nat
    BY <2>1, LenProperties
  <2>3. Cardinality(Committed) \in Nat /\ Cardinality(Committed) <= Invocations
    <3>1. Committed \subseteq 1 .. Invocations
      BY DEF Committed, Invocation
    <3>2. IsFiniteSet(1 .. Invocations) /\ Cardinality(1 .. Invocations) = Invocations
      BY InvocationsAssumption, FS_Interval
    <3>3. QED
      BY <3>1, <3>2, FS_Subset, FS_CardinalityType
  <2>4. Cardinality(NetId) = Invocations + 1
    BY InvocationsAssumption, FS_Interval DEF NetId
  <2>5. Len(created) \in 0 .. Cardinality(NetId)
    BY <2>1, <2>2, <2>3, <2>4, InvocationsAssumption
  <2>6. \A x \in mirror.assets : x[1] \in NetId
    <3>1. \A x \in mirror.assets : x[1] \in 1 .. Len(created)
      BY <1>1 DEF StoresInvariant, MirrorOK, OfTheNetworks
    <3>2. 1 .. Len(created) \subseteq NetId
      BY <2>2, <2>4, <2>5, InvocationsAssumption DEF NetId
    <3>3. QED
      BY <3>1, <3>2
  <2>7. \A i \in Invocation :
          /\ ing[i].at \in Finished \cup {"transaction", "clear", "read", "sync", "invalidate"}
          /\ ing[i].at = "sync" <=> ing[i].todo # <<>>
    BY <1>1 DEF StoresInvariant, InvocationsOK, Consistent, Held
  <2>8. QED
    BY <1>1, <2>1, <2>5, <2>6, <2>7
       DEF TypeOK, StoresInvariant, MirrorOK, OfTheNetworks, CacheOK, RequestsOK
<1>2. QED
  BY <1>1, StoresInvariantHolds, PTL

--------------------------------------------------------------------------------
(* What the statements of a synchronisation build, one after the other.     *)

(* What is due of two lists of statements, one after the other.             *)
LEMMA DueOfConcat ==
  ASSUME NEW T, NEW s \in Seq(T), NEW t \in Seq(T)
  PROVE  /\ Due(s \o t) = Due(s) \cup Due(t)
         /\ LinksOnly(s) /\ LinksOnly(t) => LinksOnly(s \o t)
<1> DEFINE m == Len(s)
           n == Len(t)
<1>1. /\ m \in Nat /\ n \in Nat /\ DOMAIN s = 1 .. m /\ DOMAIN t = 1 .. n
      /\ DOMAIN (s \o t) = 1 .. (m + n)
      /\ \A k \in 1 .. (m + n) : (s \o t)[k] = IF k <= m THEN s[k] ELSE t[k - m]
  <2>1. /\ s \o t \in Seq(T) /\ Len(s \o t) = Len(s) + Len(t)
        /\ \A k \in 1 .. Len(s) + Len(t) :
             (s \o t)[k] = IF k <= Len(s) THEN s[k] ELSE t[k - Len(s)]
    BY ConcatProperties
  <2>2. QED
    BY <2>1, LenProperties
<1> HIDE DEF m, n
<1>2. \A k \in 1 .. m : k \in 1 .. (m + n) /\ (s \o t)[k] = s[k]
  BY <1>1
<1>3. \A k \in 1 .. n : m + k \in 1 .. (m + n) /\ (s \o t)[m + k] = t[k]
  <2>1. ASSUME NEW k \in 1 .. n
        PROVE  m + k \in 1 .. (m + n) /\ ~ (m + k <= m) /\ (m + k) - m = k
    BY <1>1
  <2>2. QED
    BY <1>1, <2>1
<1>4. \A k \in 1 .. (m + n) :
        \/ k \in 1 .. m /\ (s \o t)[k] = s[k]
        \/ k - m \in 1 .. n /\ (s \o t)[k] = t[k - m]
  BY <1>1
<1>5. Due(s \o t) \subseteq Due(s) \cup Due(t)
  BY <1>1, <1>4 DEF Due
<1>6. Due(s) \subseteq Due(s \o t)
  BY <1>1, <1>2 DEF Due
<1>7. Due(t) \subseteq Due(s \o t)
  BY <1>1, <1>3 DEF Due
<1>8. LinksOnly(s) /\ LinksOnly(t) => LinksOnly(s \o t)
  BY <1>1, <1>4 DEF LinksOnly
<1>9. QED
  BY <1>5, <1>6, <1>7, <1>8

(* Of the first statement and the others.                                   *)
LEMMA DueOfHead ==
  ASSUME NEW T, NEW todo \in Seq(T), todo # <<>>
  PROVE  /\ Due(todo) = Head(todo).of \cup Due(Tail(todo))
         /\ LinksOnly(todo) => Head(todo).op = "links" /\ LinksOnly(Tail(todo))
<1> DEFINE n == Len(todo)
           rest == Tail(todo)
<1>1. /\ n \in Nat \ {0} /\ DOMAIN todo = 1 .. n /\ Head(todo) = todo[1]
      /\ rest \in Seq(T) /\ Len(rest) = n - 1
      /\ \A k \in 1 .. (n - 1) : rest[k] = todo[k + 1]
  BY HeadTailProperties, EmptySeq, LenProperties
<1>2. DOMAIN rest = 1 .. (n - 1)
  BY <1>1, LenProperties
<1> HIDE DEF n, rest
<1>3. \A k \in 1 .. n : k = 1 \/ (k - 1 \in 1 .. (n - 1) /\ rest[k - 1] = todo[k])
  <2>1. ASSUME NEW k \in 1 .. n, k # 1
        PROVE  k - 1 \in 1 .. (n - 1) /\ (k - 1) + 1 = k
    BY <1>1, <2>1
  <2>2. QED
    BY <1>1, <2>1
<1>4. \A k \in 1 .. (n - 1) : k + 1 \in 1 .. n /\ rest[k] = todo[k + 1]
  BY <1>1
<1>5. 1 \in 1 .. n
  BY <1>1
<1>6. Due(todo) \subseteq todo[1].of \cup Due(rest)
  BY <1>1, <1>2, <1>3 DEF Due
<1>7. todo[1].of \subseteq Due(todo)
  BY <1>1, <1>5 DEF Due
<1>8. Due(rest) \subseteq Due(todo)
  BY <1>1, <1>2, <1>4 DEF Due
<1>9. LinksOnly(todo) => todo[1].op = "links" /\ LinksOnly(rest)
  BY <1>1, <1>2, <1>4, <1>5 DEF LinksOnly
<1>10. QED
  BY <1>1, <1>6, <1>7, <1>8, <1>9 DEF rest

(* Of the statements on links of one type.                                  *)
LEMMA DueOfType ==
  ASSUME NEW ids, NEW edges \in SUBSET UNION {Topology[s].edges : s \in DOMAIN Topology},
         \A e \in edges : {e.source, e.target} \subseteq ids, NEW type
  PROVE  LET typed == {e \in edges : e.edge_type = type}
         IN  /\ LinksOnly(LinksOfType(edges, type))
             /\ Due(LinksOfType(edges, type)) = Directed(typed) \cup Reversed(typed)
<1> DEFINE typed == {e \in edges : e.edge_type = type}
           T == Statement(ids)
<1>1. ASSUME NEW ends \in SUBSET Ends(ids)
      PROVE  /\ LinksOf(ends) \in Seq(T)
             /\ LinksOnly(LinksOf(ends)) /\ Due(LinksOf(ends)) = ends
  <2>1. LinksOf(ends) \in Seq(T)
    BY LinksOfAreStatements
  <2>2. CASE ends = {}
    <3>1. LinksOf(ends) = <<>> /\ DOMAIN LinksOf(ends) = {}
      BY <2>2 DEF LinksOf
    <3>2. QED
      BY <2>1, <2>2, <3>1 DEF LinksOnly, Due
  <2>3. CASE ends # {}
    <3> DEFINE x == [op |-> "links", of |-> ends]
    <3>1. LinksOf(ends) = <<x>> /\ DOMAIN <<x>> = {1} /\ <<x>>[1] = x
      BY <2>3 DEF LinksOf
    <3>2. x.op = "links" /\ x.of = ends
      OBVIOUS
    <3> HIDE DEF x
    <3>3. QED
      BY <2>1, <3>1, <3>2 DEF LinksOnly, Due
  <2>4. QED
    BY <2>2, <2>3
<1>2. Directed(typed) \in SUBSET Ends(ids) /\ Reversed(typed) \in SUBSET Ends(ids)
  BY DEF Directed, Reversed, Ends
<1> HIDE DEF typed, T
<1>3. QED
  BY <1>1, <1>2, DueOfConcat DEF LinksOfType, typed

(* The statements on links make every link of a mirrored type.              *)
LEMMA DueOfLinks ==
  ASSUME NEW ids, NEW rows, rows.nodes \subseteq ids,
         rows.edges \subseteq UNION {Topology[s].edges : s \in DOMAIN Topology},
         \A e \in rows.edges : {e.source, e.target} \subseteq ids
  PROVE  /\ LinkStatements(rows.edges) \in Seq(Statement(ids))
         /\ LinksOnly(LinkStatements(rows.edges))
         /\ Due(LinkStatements(rows.edges)) = AllEnds(rows)
<1> DEFINE L(type) == LinksOfType(rows.edges, type)
           of(type) == {e \in rows.edges : e.edge_type = type}
           T == Statement(ids)
<1>1. \A type : /\ L(type) \in Seq(T) /\ LinksOnly(L(type))
                /\ Due(L(type)) = Directed(of(type)) \cup Reversed(of(type))
  <2>1. rows.edges \in SUBSET UNION {Topology[s].edges : s \in DOMAIN Topology}
    OBVIOUS
  <2>2. \A type : L(type) \in Seq(T)
    BY <2>1, LinksOfTypeAreStatements
  <2>3. \A type : LinksOnly(L(type)) /\ Due(L(type)) = Directed(of(type)) \cup Reversed(of(type))
    BY <2>1, DueOfType
  <2> QED
    BY <2>2, <2>3
<1>2. LinkStatements(rows.edges)
        = L("power_supply") \o L("water_supply") \o L("road_link") \o L("depends_on")
  BY DEF LinkStatements, L
<1> HIDE DEF T, L
<1>3. \A s, t \in Seq(T) : s \o t \in Seq(T) /\ Due(s \o t) = Due(s) \cup Due(t)
                             /\ (LinksOnly(s) /\ LinksOnly(t) => LinksOnly(s \o t))
  BY DueOfConcat, ConcatProperties
<1> DEFINE two == L("power_supply") \o L("water_supply")
           three == two \o L("road_link")
<1>4. two \in Seq(T) /\ LinksOnly(two) /\ Due(two) = Due(L("power_supply")) \cup Due(L("water_supply"))
  BY <1>1, <1>3
<1>5. three \in Seq(T) /\ LinksOnly(three) /\ Due(three) = Due(two) \cup Due(L("road_link"))
  <2> HIDE DEF two
  <2>1. QED
    BY <1>1, <1>3, <1>4
<1>6. /\ LinkStatements(rows.edges) \in Seq(T) /\ LinksOnly(LinkStatements(rows.edges))
      /\ Due(LinkStatements(rows.edges)) = Due(three) \cup Due(L("depends_on"))
  <2>1. LinkStatements(rows.edges) = three \o L("depends_on")
    BY <1>2
  <2> HIDE DEF three
  <2>2. QED
    BY <1>1, <1>3, <1>5, <2>1
<1>7. Due(LinkStatements(rows.edges)) =
        (Directed(of("power_supply")) \cup Reversed(of("power_supply")))
          \cup (Directed(of("water_supply")) \cup Reversed(of("water_supply")))
          \cup (Directed(of("road_link")) \cup Reversed(of("road_link")))
          \cup (Directed(of("depends_on")) \cup Reversed(of("depends_on")))
  BY <1>1, <1>4, <1>5, <1>6
<1>8. MirroredEdges(rows) =
        of("power_supply") \cup of("water_supply") \cup of("road_link") \cup of("depends_on")
  BY DEF MirroredEdges
<1>9. \A a, b : /\ Directed(a \cup b) = Directed(a) \cup Directed(b)
                /\ Reversed(a \cup b) = Reversed(a) \cup Reversed(b)
  BY DEF Directed, Reversed
<1> HIDE DEF of
<1>10. AllEnds(rows) =
        (Directed(of("power_supply")) \cup Reversed(of("power_supply")))
          \cup (Directed(of("water_supply")) \cup Reversed(of("water_supply")))
          \cup (Directed(of("road_link")) \cup Reversed(of("road_link")))
          \cup (Directed(of("depends_on")) \cup Reversed(of("depends_on")))
  <2> DEFINE a == of("power_supply")
             b == of("water_supply")
             c == of("road_link")
             d == of("depends_on")
  <2>1. MirroredEdges(rows) = ((a \cup b) \cup c) \cup d
    BY <1>8
  <2> HIDE DEF a, b, c, d
  <2>2. /\ Directed(((a \cup b) \cup c) \cup d) = Directed((a \cup b) \cup c) \cup Directed(d)
        /\ Directed((a \cup b) \cup c) = Directed(a \cup b) \cup Directed(c)
        /\ Directed(a \cup b) = Directed(a) \cup Directed(b)
    BY <1>9, Zenon
  <2>3. /\ Reversed(((a \cup b) \cup c) \cup d) = Reversed((a \cup b) \cup c) \cup Reversed(d)
        /\ Reversed((a \cup b) \cup c) = Reversed(a \cup b) \cup Reversed(c)
        /\ Reversed(a \cup b) = Reversed(a) \cup Reversed(b)
    BY <1>9, Zenon
  <2>4. AllEnds(rows) = (Directed(a) \cup Reversed(a)) \cup (Directed(b) \cup Reversed(b))
                          \cup (Directed(c) \cup Reversed(c)) \cup (Directed(d) \cup Reversed(d))
    BY <2>1, <2>2, <2>3 DEF AllEnds
  <2>5. QED
    BY <2>4 DEF a, b, c, d
<1>11. QED
  BY <1>6, <1>7, <1>10 DEF T

(* A synchronisation clears, creates the nodes, and then only links.        *)
LEMMA SyncIs ==
  ASSUME NEW ids, NEW rows, rows.nodes \subseteq ids,
         rows.edges \subseteq UNION {Topology[s].edges : s \in DOMAIN Topology},
         \A e \in rows.edges : {e.source, e.target} \subseteq ids
  PROVE  LET all == SyncStatements(rows)
         IN  /\ Head(all) = [op |-> "clear"]
             /\ Tail(all) # <<>> /\ Head(Tail(all)) = [op |-> "nodes", of |-> rows.nodes]
             /\ LinksOnly(Tail(Tail(all))) /\ Due(Tail(Tail(all))) = AllEnds(rows)
<1> DEFINE links == LinkStatements(rows.edges)
           T == Statement(ids)
           c == [op |-> "clear"]
           d == [op |-> "nodes", of |-> rows.nodes]
           all == SyncStatements(rows)
<1>1. links \in Seq(T) /\ LinksOnly(links) /\ Due(links) = AllEnds(rows)
  BY DueOfLinks
<1>2. c \in T /\ d \in T
  BY DEF Statement
<1>3. all = <<c, d>> \o links
  BY DEF SyncStatements
<1> HIDE DEF links, T, c, d, all
<1>4. Head(all) = c /\ Tail(all) = <<d>> \o links
  BY <1>1, <1>2, <1>3
<1>5. <<d>> \o links # <<>> /\ Head(<<d>> \o links) = d /\ Tail(<<d>> \o links) = links
  BY <1>1, <1>2
<1>6. QED
  BY <1>1, <1>4, <1>5 DEF c, d, all

(* Clearing any network keeps an empty part empty.                          *)
LEMMA ClearedPart ==
  ASSUME NEW m, NEW k, NEW n, Part(m, n) = Empty
  PROVE  Part(Clear(m, k), n) = Empty
BY DEF Part, Clear, Empty

(* Creating the nodes of an empty part makes them, and no links.            *)
LEMMA NodesPart ==
  ASSUME NEW m, OfTheNetworks(m), NEW n, NEW nodes, Part(m, n) = Empty
  PROVE  LET t == CreateNodes(m, n, nodes)
         IN  Part(t, n).assets = {n} \X nodes /\ Part(t, n).links = {}
<1> DEFINE more == m.assets \cup {n} \X nodes
<1>1. CreateNodes(m, n, nodes) = [assets |-> more, links |-> m.links]
  <2>1. CreateNodes(m, n, nodes) = [m EXCEPT !.assets = more]
    BY Zenon DEF CreateNodes
  <2> HIDE DEF more
  <2>2. QED
    BY <2>1 DEF OfTheNetworks
<1>2. {x \in m.assets : x[1] = n} = {} /\ {l \in m.links : l.from[1] = n /\ l.to[1] = n} = {}
  BY DEF Part, Empty
<1>3. \A x \in {n} \X nodes : x[1] = n
  OBVIOUS
<1>4. {x \in m.assets \cup {n} \X nodes : x[1] = n} = {n} \X nodes
  BY <1>2, <1>3
<1>5. QED
  BY <1>1, <1>2, <1>4 DEF Part

(* Creating links adds those between the nodes, whatever links to nodes of  *)
(* the same ids in other networks it adds.                                  *)
LEMMA LinksPart ==
  ASSUME NEW m, OfTheNetworks(m), NEW n, NEW nodes, NEW ends \in SUBSET Ends(nodes),
         Part(m, n).assets = {n} \X nodes
  PROVE  LET t == CreateLinks(m, n, ends)
         IN  /\ Part(t, n).assets = {n} \X nodes
             /\ Part(t, n).links = Part(m, n).links \cup Within(n, ends)
<1> DEFINE matches == {y \in ends \X m.assets \X m.assets :
                         y[1].from = y[2][2] /\ y[1].to = y[3][2]}
           Made(y) == [by |-> n, row |-> y[1].row, from |-> y[2], to |-> y[3]]
           new == {Made(y) : y \in matches}
           Own(l) == l.from[1] = n /\ l.to[1] = n
<1>1. CreateLinks(m, n, ends) = [assets |-> m.assets, links |-> m.links \cup new]
  <2>1. CreateLinks(m, n, ends) = [m EXCEPT !.links = m.links \cup new]
    BY Zenon DEF CreateLinks
  <2> HIDE DEF new
  <2>2. QED
    BY <2>1 DEF OfTheNetworks
<1>2. \A x : x \in m.assets /\ x[1] = n <=> x \in {n} \X nodes
  BY DEF Part, OfTheNetworks
<1>3. ASSUME NEW l \in new, Own(l)
      PROVE  l \in Within(n, ends)
  <2>1. PICK y \in matches : l = Made(y)
    OBVIOUS
  <2>2. /\ y[1] \in ends /\ y[2] \in m.assets /\ y[3] \in m.assets
        /\ y[1].from = y[2][2] /\ y[1].to = y[3][2]
    OBVIOUS
  <2>3. l.from = y[2] /\ l.to = y[3]
    BY <2>1
  <2>4. y[2] \in {n} \X nodes /\ y[3] \in {n} \X nodes
    BY <1>2, <1>3, <2>2, <2>3
  <2>5. y[2] = <<n, y[1].from>> /\ y[3] = <<n, y[1].to>>
    BY <2>2, <2>4
  <2>6. QED
    BY <2>1, <2>2, <2>5 DEF Within
<1>4. ASSUME NEW l \in Within(n, ends)
      PROVE  l \in new /\ Own(l)
  <2>1. PICK d \in ends : l = [by |-> n, row |-> d.row, from |-> <<n, d.from>>, to |-> <<n, d.to>>]
    BY DEF Within
  <2>2. d.from \in nodes /\ d.to \in nodes
    BY DEF Ends
  <2> DEFINE y == <<d, <<n, d.from>>, <<n, d.to>>>>
  <2>3. <<n, d.from>> \in m.assets /\ <<n, d.to>> \in m.assets
    BY <1>2, <2>2
  <2>4. y \in ends \X m.assets \X m.assets /\ y[1] = d /\ y[2] = <<n, d.from>> /\ y[3] = <<n, d.to>>
    BY <2>3
  <2>5. y \in matches
    BY <2>4
  <2>6. l = Made(y)
    BY <2>1, <2>4
  <2> HIDE DEF y
  <2>7. Own(l)
    BY <2>1
  <2>8. QED
    BY <2>5, <2>6, <2>7
<1> HIDE DEF new
<1>5. {l \in m.links \cup new : Own(l)} = {l \in m.links : Own(l)} \cup Within(n, ends)
  BY <1>3, <1>4
<1>6. QED
  BY <1>1, <1>5 DEF Part

(* A part that is all built shows the rows: each pair that the rows link is *)
(* joined once.                                                             *)
LEMMA ProjectionIsRows ==
  ASSUME NEW s \in DOMAIN Topology, NEW m, NEW n, Part(m, n) = Mirrored(n, Topology[s])
  PROVE  Projection(m, n) = RowsGraph(Topology[s])
<1> DEFINE rows == Topology[s]
           ends == AllEnds(rows)
           links == Within(n, ends)
           Wire(d) == [by |-> n, row |-> d.row, from |-> <<n, d.from>>, to |-> <<n, d.to>>]
           pairs == {<<d.from, d.to>> : d \in ends}
           Of(p) == {l \in links : EndsById(l) = p}
<1>1. /\ MirroredEdges(rows) = rows.edges
      /\ ends = Directed(rows.edges) \cup Reversed(rows.edges)
      /\ \A d, e \in ends : d.from = e.from /\ d.to = e.to => d = e
  BY FixtureAssumption DEF AllEnds
<1>2. /\ {x \in m.assets : x[1] = n} = {n} \X rows.nodes
      /\ {l \in m.links : l.from[1] = n /\ l.to[1] = n} = links
  BY DEF Part, Mirrored, AllEnds
<1>3. {x[2] : x \in {n} \X rows.nodes} = rows.nodes
  <2> DEFINE V == rows.nodes
  <2> HIDE DEF V
  <2>1. \A v \in V : <<n, v>> \in {n} \X V /\ <<n, v>>[2] = v
    OBVIOUS
  <2>2. \A x \in {n} \X V : x[2] \in V
    OBVIOUS
  <2>3. {x[2] : x \in {n} \X V} = V
    BY <2>1, <2>2
  <2>4. QED
    BY <2>3 DEF V
<1>4. links = {Wire(d) : d \in ends} /\ \A d \in ends : EndsById(Wire(d)) = <<d.from, d.to>>
  BY DEF Within, EndsById
<1>5. RowsGraph(rows) = [nodes |-> rows.nodes, links |-> [p \in pairs |-> 1]]
  BY <1>1 DEF RowsGraph
<1> HIDE DEF ends, links, Wire, rows
<1>6. {EndsById(l) : l \in links} = pairs
  BY <1>4
<1>7. ASSUME NEW p \in pairs
      PROVE  Cardinality(Of(p)) = 1
  <2>1. PICK d \in ends : p = <<d.from, d.to>>
    OBVIOUS
  <2>2. Wire(d) \in links /\ EndsById(Wire(d)) = p
    BY <1>4, <2>1
  <2>3. ASSUME NEW l \in links, EndsById(l) = p
        PROVE  l = Wire(d)
    <3>1. PICK e \in ends : l = Wire(e)
      BY <1>4
    <3>2. e.from = d.from /\ e.to = d.to
      BY <1>4, <2>1, <2>3, <3>1
    <3>3. QED
      BY <1>1, <3>1, <3>2
  <2>4. Of(p) = {Wire(d)}
    BY <2>2, <2>3
  <2>5. QED
    BY <2>4, FS_Singleton
<1>8. Projection(m, n) =
        [nodes |-> {x[2] : x \in {y \in m.assets : y[1] = n}},
         links |-> [p \in {EndsById(l) : l \in links} |-> Cardinality(Of(p))]]
  BY <1>2 DEF Projection, Graph
<1> HIDE DEF pairs, Of
<1>9. Projection(m, n) =
        [nodes |-> rows.nodes, links |-> [p \in pairs |-> Cardinality(Of(p))]]
  BY <1>2, <1>3, <1>6, <1>8
<1>10. [p \in pairs |-> Cardinality(Of(p))] = [p \in pairs |-> 1]
  BY <1>7
<1>11. QED
  BY <1>5, <1>9, <1>10 DEF rows

--------------------------------------------------------------------------------
(* Whoever began alone stays alone, or is told.                             *)

LEMMA AloneStep ==
  ASSUME StoresInvariant, AloneOK, [Next]_vars
  PROVE  AloneOK'
<1>0. ing \in [Invocation -> Held]
  BY DEF StoresInvariant, InvocationsOK
<1>1. ASSUME \A j \in Invocation :
               Active(j)' => Active(j) /\ ing'[j].alone = ing[j].alone
      PROVE  AloneOK'
  BY <1>1 DEF AloneOK
<1>2. ASSUME NEW i \in Invocation, NEW force \in BOOLEAN, NEW source \in DOMAIN Topology,
             Check(i, force, source)
      PROVE  AloneOK'
  <2> DEFINE kept == network # 0 /\ ~force
             others == \E j \in Invocation : Active(j)
             begun == [ing[i] EXCEPT !.at = "transaction", !.existing = network,
                                     !.source = source, !.alone = ~others]
             Told(j) == [ing[j] EXCEPT !.alone = FALSE]
  <2>1. ing' = [j \in Invocation |->
                  IF j = i /\ kept THEN AtRest("over")
                  ELSE IF j = i THEN begun
                  ELSE IF kept \/ ~Active(j) THEN ing[j]
                  ELSE Told(j)]
    BY <1>2 DEF Check
  <2>2. AtRest("over").at = "over"
    BY DEF AtRest
  <2>3. \A j \in Invocation : Told(j).at = ing[j].at /\ Told(j).alone = FALSE
    BY <1>0 DEF Held
  <2>4. begun.alone = ~others
    <3> HIDE DEF others
    <3>1. QED
      BY <1>0 DEF Held
  <2> HIDE DEF begun, Told
  <2>5. CASE kept
    <3>1. ing'[i] = AtRest("over") /\ \A j \in Invocation \ {i} : ing'[j] = ing[j]
      BY <2>1, <2>5
    <3>2. \A j \in Invocation : Active(j)' => Active(j) /\ ing'[j].alone = ing[j].alone
      BY <2>2, <3>1 DEF Active, Finished
    <3>3. QED
      BY <1>1, <3>2
  <2>6. CASE ~kept
    <3>1. /\ ing'[i] = begun
          /\ \A j \in Invocation \ {i} : ~Active(j) => ing'[j] = ing[j]
          /\ \A j \in Invocation \ {i} : Active(j) => ing'[j] = Told(j)
      <4> HIDE DEF kept
      <4>1. QED
        BY <2>1, <2>6
    <3>2. ASSUME NEW j \in Invocation \ {i}
          PROVE  Active(j)' => Active(j) /\ ing'[j].alone = FALSE
      BY <2>3, <3>1 DEF Active
    <3>3. ASSUME NEW j \in Invocation, Active(j)', ing'[j].alone
          PROVE  j = i /\ ~others
      BY <2>4, <3>1, <3>2, <3>3
    <3>4. ASSUME NEW j \in Invocation, NEW k \in Invocation, j # k, Active(j)', ing'[j].alone
          PROVE  ~Active(k)'
      <4>1. j = i /\ ~others /\ k \in Invocation \ {i}
        BY <3>3, <3>4
      <4>2. ~Active(k)
        BY <4>1
      <4>3. QED
        BY <3>2, <4>1, <4>2
    <3>5. QED
      BY <3>4 DEF AloneOK
  <2>7. QED
    BY <2>5, <2>6
<1>3. ASSUME NEW i \in Invocation,
             Transaction(i) \/ ClearReplaced(i) \/ ReadRows(i) \/ Sync(i) \/ Invalidate(i) \/ Abort(i)
      PROVE  AloneOK'
  <2>1. /\ Active(i) /\ (ing'[i].alone = ing[i].alone \/ ing'[i].at = "over")
        /\ \A j \in Invocation \ {i} : ing'[j] = ing[j]
    <3>1. CASE Transaction(i)
      <4>1. CASE network \in {0, ing[i].existing}
        <5> DEFINE net == Len(created')
                   x == [ing[i] EXCEPT !.at = "clear", !.source = "", !.net = net]
        <5>1. ing' = [ing EXCEPT ![i] = x] /\ ing[i].at = "transaction"
          BY <3>1, <4>1 DEF Transaction
        <5> HIDE DEF net
        <5>2. x.alone = ing[i].alone
          BY <1>0 DEF Held
        <5> HIDE DEF x
        <5>3. QED
          BY <1>0, <5>1, <5>2 DEF Active, Finished
      <4>2. CASE network \notin {0, ing[i].existing}
        <5>1. ing' = [ing EXCEPT ![i] = AtRest("over")] /\ ing[i].at = "transaction"
          BY <3>1, <4>2 DEF Transaction
        <5>2. AtRest("over").at = "over"
          BY DEF AtRest
        <5>3. QED
          BY <1>0, <5>1, <5>2 DEF Active, Finished
      <4>3. QED
        BY <4>1, <4>2
    <3>2. CASE ClearReplaced(i)
      BY <1>0, <3>2 DEF ClearReplaced, Held, Active, Finished
    <3>3. CASE ReadRows(i)
      <4> DEFINE todo == SyncStatements(Rows(ing[i].net))
      <4>1. ing' = [ing EXCEPT ![i].at = "sync", ![i].todo = todo] /\ ing[i].at = "read"
        BY <3>3 DEF ReadRows
      <4> HIDE DEF todo
      <4>2. QED
        BY <1>0, <4>1 DEF Held, Active, Finished
    <3>4. CASE Sync(i)
      <4> DEFINE todo == Tail(ing[i].todo)
                 at == IF todo = <<>> THEN "invalidate" ELSE "sync"
      <4>1. ing' = [ing EXCEPT ![i].todo = todo, ![i].at = at] /\ ing[i].at = "sync"
        BY <3>4 DEF Sync
      <4> HIDE DEF todo, at
      <4>2. QED
        BY <1>0, <4>1 DEF Held, Active, Finished
    <3>5. CASE Invalidate(i)
      BY <1>0, <3>5 DEF Invalidate, Held, Active, Finished
    <3>6. CASE Abort(i)
      BY <1>0, <3>6 DEF Abort, AtRest
    <3>7. QED
      BY <1>3, <3>1, <3>2, <3>3, <3>4, <3>5, <3>6
  <2>2. \A j \in Invocation : Active(j)' => Active(j) /\ ing'[j].alone = ing[j].alone
    BY <2>1 DEF Active, Finished
  <2>3. QED
    BY <1>1, <2>2
<1>4. ASSUME ing' = ing
      PROVE  AloneOK'
  BY <1>1, <1>4 DEF Active
<1>5. ASSUME NEW r \in Request,
             (\E n \in NetId, metric \in Metric : Ask(r, n, metric)) \/ Answering(r) \/ GiveUp(r)
      PROVE  AloneOK'
  BY <1>4, <1>5 DEF Ask, Answering, ReadCache, Compute, WriteCache, GiveUp
<1>6. ASSUME NEW k \in NetId \X Metric, Expire(k)
      PROVE  AloneOK'
  BY <1>4, <1>6 DEF Expire
<1>7. QED
  BY <1>2, <1>3, <1>4, <1>5, <1>6 DEF Next, vars

--------------------------------------------------------------------------------
(* One step of an undisturbed seeding, and of the others.                   *)

(* A step that neither moves it nor touches the mirror keeps what it knows. *)
LEMMA PeaceStays ==
  ASSUME NEW i \in Invocation, Peaceful(i), UNCHANGED <<created, network, mirror, ing[i]>>,
         \A j \in Invocation \ {i} : Writing(j)' => Writing(j)
  PROVE  Peaceful(i)'
<1>1. SUFFICES ASSUME Undisturbed(i)'
               PROVE  (\A j \in Invocation \ {i} : ~Writing(j)') /\ Progress(i)'
  BY DEF Peaceful
<1>2. Undisturbed(i)
  BY <1>1 DEF Undisturbed
<1>3. Progress(i)'
  BY <1>2 DEF Peaceful, Progress
<1>4. QED
  BY <1>2, <1>3 DEF Peaceful

(* What the others know while one of them writes: nothing, they are not     *)
(* undisturbed.                                                             *)
LEMMA OthersAreDisturbed ==
  ASSUME PeaceOK, NEW j \in Invocation, Writing(j), NEW i \in Invocation \ {j},
         UNCHANGED <<network, ing[i]>>
  PROVE  Peaceful(i)'
<1>1. ~Undisturbed(i)
  BY DEF PeaceOK, Peaceful
<1>2. QED
  BY <1>1 DEF Undisturbed, Peaceful

(* The rows that an undisturbed seeding reads back, and its statements.     *)
LEMMA OwnRows ==
  ASSUME StoresInvariant, NEW i \in Invocation, Undisturbed(i)
  PROVE  LET n == ing[i].net
             rows == Topology[created[n]]
             all == SyncStatements(rows)
         IN  /\ n \in 1 .. Len(created) /\ created[n] \in DOMAIN Topology
             /\ Rows(n) = rows /\ rows.nodes = Nodes(n)
             /\ Head(all) = [op |-> "clear"]
             /\ Tail(all) # <<>> /\ Head(Tail(all)) = [op |-> "nodes", of |-> rows.nodes]
             /\ LinksOnly(Tail(Tail(all))) /\ Due(Tail(Tail(all))) = AllEnds(rows)
<1> DEFINE n == ing[i].net
           rows == Topology[created[n]]
<1>1. n \in 1 .. Len(created) /\ network = n /\ created \in Seq(DOMAIN Topology)
  BY DEF StoresInvariant, InvocationsOK, NetworksOK, Consistent, Undisturbed
<1>2. Rows(n) = rows /\ rows.nodes = Nodes(n) /\ created[n] \in DOMAIN Topology
  BY <1>1, NodesAreIds DEF Rows, Nodes
<1>3. /\ rows.edges \subseteq UNION {Topology[s].edges : s \in DOMAIN Topology}
      /\ \A e \in rows.edges : {e.source, e.target} \subseteq rows.nodes
  BY <1>1, <1>2, RowsAreOfTheNetwork
<1> HIDE DEF n, rows
<1>4. LET all == SyncStatements(rows)
      IN  /\ Head(all) = [op |-> "clear"]
          /\ Tail(all) # <<>> /\ Head(Tail(all)) = [op |-> "nodes", of |-> rows.nodes]
          /\ LinksOnly(Tail(Tail(all))) /\ Due(Tail(Tail(all))) = AllEnds(rows)
  BY <1>3, SyncIs
<1>5. QED
  BY <1>1, <1>2, <1>4 DEF n, rows

(* A network that was just committed is not in the mirror, and whoever was  *)
(* alone until now still is.                                                *)
LEMMA CommitInPeace ==
  ASSUME StoresInvariant, AloneOK, PeaceOK, [Next]_vars,
         NEW j \in Invocation, Transaction(j), NEW i \in Invocation
  PROVE  Peaceful(i)'
<1>0. ing \in [Invocation -> Held] /\ ing[j].at = "transaction"
  BY DEF StoresInvariant, InvocationsOK, Transaction
<1>1. CASE network \notin {0, ing[j].existing}
  <2>1. /\ ing' = [ing EXCEPT ![j] = AtRest("over")] /\ UNCHANGED <<created, network, mirror>>
        /\ AtRest("over").at = "over"
    BY <1>1 DEF Transaction, AtRest
  <2>2. CASE i = j
    <3>1. ing'[i].at = "over"
      BY <1>0, <2>1, <2>2
    <3>2. QED
      BY <3>1 DEF Peaceful, Undisturbed
  <2>3. CASE i # j
    <3>1. ing'[i] = ing[i] /\ \A k \in Invocation \ {i} : Writing(k)' => Writing(k)
      BY <1>0, <2>1, <2>3 DEF Writing
    <3>2. QED
      BY <2>1, <3>1, PeaceStays DEF PeaceOK
  <2>4. QED
    BY <2>2, <2>3
<1>2. CASE network \in {0, ing[j].existing}
  <2> DEFINE net == Len(created')
             x == [ing[j] EXCEPT !.at = "clear", !.source = "", !.net = net]
  <2>1. ing' = [ing EXCEPT ![j] = x] /\ network' = net /\ mirror' = mirror
    BY <1>2 DEF Transaction
  <2>2. net = Len(created) + 1 /\ Len(created) \in Nat
    BY <1>2, TransactionEffect
  <2> HIDE DEF net
  <2>3. x.at = "clear" /\ x.net = net /\ x.alone = ing[j].alone
    BY <1>0 DEF Held
  <2> HIDE DEF x
  <2>4. CASE i # j
    <3>1. ing'[i] = ing[i]
      BY <1>0, <2>1, <2>4
    <3>2. ing[i].at \in {"clear", "read", "sync", "invalidate", "done"} => ing[i].net # net
      BY <2>2 DEF StoresInvariant, InvocationsOK, Consistent
    <3>3. QED
      BY <2>1, <3>1, <3>2 DEF Peaceful, Undisturbed
  <2>5. CASE i = j
    <3>1. SUFFICES ASSUME Undisturbed(i)'
                   PROVE  (\A k \in Invocation \ {i} : ~Writing(k)') /\ Progress(i)'
      BY DEF Peaceful
    <3>2. ing'[i] = x /\ ing[i].alone /\ Active(i)
      BY <1>0, <2>1, <2>3, <2>5, <3>1 DEF Undisturbed, Active, Finished
    <3>3. \A k \in Invocation \ {i} : ~Active(k) /\ ing'[k] = ing[k]
      BY <1>0, <2>1, <2>5, <3>2 DEF AloneOK
    <3>4. \A k \in Invocation \ {i} : ~Writing(k)'
      BY <3>3 DEF Active, Finished, Writing
    <3>5. \A y \in mirror.assets : y[1] # net
      BY <2>2 DEF StoresInvariant, MirrorOK, OfTheNetworks
    <3>6. \A l \in mirror.links : l.from[1] # net
      BY <3>5 DEF StoresInvariant, MirrorOK, OfTheNetworks
    <3>7. Part(mirror, net) = Empty
      BY <3>5, <3>6 DEF Part, Empty
    <3>8. Progress(i)'
      BY <2>1, <2>3, <3>2, <3>7 DEF Progress
    <3>9. QED
      BY <3>4, <3>8
  <2>6. QED
    BY <2>4, <2>5
<1>3. QED
  BY <1>1, <1>2

(* Clearing what was replaced, before anything of the new network is there. *)
LEMMA ClearInPeace ==
  ASSUME StoresInvariant, PeaceOK, NEW i \in Invocation, ClearReplaced(i)
  PROVE  \A k \in Invocation : Peaceful(k)'
<1> DEFINE x == [ing[i] EXCEPT !.at = "read"]
<1>1. /\ ing \in [Invocation -> Held] /\ ing[i].at = "clear" /\ ing' = [ing EXCEPT ![i] = x]
      /\ mirror' \in {mirror, Clear(mirror, ing[i].existing)}
      /\ UNCHANGED <<created, network>>
  BY DEF StoresInvariant, InvocationsOK, ClearReplaced
<1>2. x.at = "read" /\ x.net = ing[i].net /\ x.alone = ing[i].alone
  BY <1>1 DEF Held
<1> HIDE DEF x
<1>3. Writing(i) /\ \A k \in Invocation \ {i} : ing'[k] = ing[k]
  BY <1>1 DEF Writing
<1>4. \A k \in Invocation \ {i} : Peaceful(k)'
  BY <1>1, <1>3, OthersAreDisturbed
<1>5. ASSUME Undisturbed(i)'
      PROVE  (\A k \in Invocation \ {i} : ~Writing(k)') /\ Progress(i)'
  <2>1. ing'[i] = x
    BY <1>1
  <2>2. Undisturbed(i)
    BY <1>1, <1>2, <1>5, <2>1 DEF Undisturbed
  <2>3. /\ \A k \in Invocation \ {i} : ~Writing(k)
        /\ Part(mirror, ing[i].net) = Empty
    BY <1>1, <2>2 DEF PeaceOK, Peaceful, Progress
  <2>4. Part(mirror', ing[i].net) = Empty
    BY <1>1, <2>3, ClearedPart
  <2>5. QED
    BY <1>2, <1>3, <2>1, <2>3, <2>4 DEF Writing, Progress
<1>6. QED
  BY <1>4, <1>5 DEF Peaceful

(* Reading the rows back: they are those of its network.                    *)
LEMMA ReadInPeace ==
  ASSUME StoresInvariant, PeaceOK, NEW i \in Invocation, ReadRows(i)
  PROVE  \A k \in Invocation : Peaceful(k)'
<1> DEFINE todo == SyncStatements(Rows(ing[i].net))
           x == [ing[i] EXCEPT !.at = "sync", !.todo = todo]
<1>1. /\ ing \in [Invocation -> Held] /\ ing[i].at = "read" /\ ing' = [ing EXCEPT ![i] = x]
      /\ UNCHANGED <<created, network, mirror>>
  BY DEF StoresInvariant, InvocationsOK, ReadRows
<1> HIDE DEF todo
<1>2. x.at = "sync" /\ x.net = ing[i].net /\ x.alone = ing[i].alone /\ x.todo = todo
  BY <1>1 DEF Held
<1> HIDE DEF x
<1>3. Writing(i) /\ \A k \in Invocation \ {i} : ing'[k] = ing[k]
  BY <1>1 DEF Writing
<1>4. \A k \in Invocation \ {i} : Peaceful(k)'
  BY <1>1, <1>3, OthersAreDisturbed
<1>5. ASSUME Undisturbed(i)'
      PROVE  (\A k \in Invocation \ {i} : ~Writing(k)') /\ Progress(i)'
  <2>1. ing'[i] = x
    BY <1>1
  <2>2. Undisturbed(i)
    BY <1>1, <1>2, <1>5, <2>1 DEF Undisturbed
  <2>3. /\ \A k \in Invocation \ {i} : ~Writing(k)
        /\ Part(mirror, ing[i].net) = Empty
    BY <1>1, <2>2 DEF PeaceOK, Peaceful, Progress
  <2>4. todo = SyncStatements(Topology[created[ing[i].net]])
    BY <2>2, OwnRows DEF todo
  <2>5. QED
    BY <1>1, <1>2, <1>3, <2>1, <2>3, <2>4 DEF Writing, Progress
<1>6. QED
  BY <1>4, <1>5 DEF Peaceful

(* What one statement makes of what was built, when its invocation is       *)
(* undisturbed.                                                             *)
LEMMA StatementBuilds ==
  ASSUME StoresInvariant, PeaceOK, NEW i \in Invocation, Undisturbed(i), ing[i].at = "sync"
  PROVE  LET n == ing[i].net
             rows == Topology[created[n]]
             rest == Tail(ing[i].todo)
             m == Execute(mirror, n, Head(ing[i].todo))
         IN  \/ Part(m, n) = Empty /\ rest = Tail(SyncStatements(rows)) /\ rest # <<>>
             \/ Built(m, n, rows, rest)
<1> DEFINE n == ing[i].net
           rows == Topology[created[n]]
           all == SyncStatements(rows)
           todo == ing[i].todo
           s == Head(todo)
           rest == Tail(todo)
           m == Execute(mirror, n, s)
<1>1. /\ OfTheNetworks(mirror) /\ Progress(i)
      /\ n \in 1 .. Len(created) /\ rows.nodes = Nodes(n)
      /\ Head(all) = [op |-> "clear"]
      /\ Tail(all) # <<>> /\ Head(Tail(all)) = [op |-> "nodes", of |-> rows.nodes]
      /\ LinksOnly(Tail(Tail(all))) /\ Due(Tail(Tail(all))) = AllEnds(rows)
  BY OwnRows DEF StoresInvariant, MirrorOK, PeaceOK, Peaceful
<1>2. todo # <<>> /\ todo \in Seq(Statement(Nodes(n)))
  BY DEF StoresInvariant, InvocationsOK, Consistent, Nodes
<1>3. \/ Part(mirror, n) = Empty /\ todo \in {all, Tail(all)}
      \/ Built(mirror, n, rows, todo)
  BY <1>1 DEF Progress
<1> HIDE DEF n, rows, all, todo
<1>4. CASE Part(mirror, n) = Empty /\ todo = all
  <2>1. m = Clear(mirror, n)
    BY <1>1, <1>4 DEF Execute
  <2>2. Part(m, n) = Empty
    BY <1>4, <2>1, ClearedPart
  <2>3. QED
    BY <1>1, <1>4, <2>2 DEF n, rows, all, todo
<1>5. CASE Part(mirror, n) = Empty /\ todo = Tail(all)
  <2>1. m = CreateNodes(mirror, n, rows.nodes)
    BY <1>1, <1>5 DEF Execute
  <2>2. Part(m, n).assets = {n} \X rows.nodes /\ Part(m, n).links = {}
    BY <1>1, <1>5, <2>1, NodesPart
  <2>3. LinksOnly(rest) /\ Due(rest) = AllEnds(rows)
    BY <1>1, <1>5
  <2> HIDE DEF m, rest
  <2>4. Built(m, n, rows, rest)
    BY <2>2, <2>3 DEF Built
  <2>5. QED
    BY <2>4 DEF n, rows, todo, m, s, rest
<1>6. CASE Built(mirror, n, rows, todo)
  <2>1. /\ LinksOnly(todo) /\ Part(mirror, n).assets = {n} \X rows.nodes
        /\ Part(mirror, n).links \cup Within(n, Due(todo)) = Within(n, AllEnds(rows))
    BY <1>6 DEF Built
  <2>2. /\ s.op = "links" /\ LinksOnly(rest)
        /\ Due(todo) = s.of \cup Due(rest)
    BY <1>2, <2>1, DueOfHead
  <2>3. s \in Statement(Nodes(n))
    BY <1>2, HeadTailProperties
  <2>4. s.of \in SUBSET Ends(Nodes(n))
    <3> HIDE DEF s
    <3>1. QED
      BY <2>2, <2>3 DEF Statement
  <2>5. m = CreateLinks(mirror, n, s.of)
    <3> HIDE DEF s
    <3>1. QED
      BY <2>2 DEF Execute, m
  <2>6. /\ Part(m, n).assets = {n} \X rows.nodes
        /\ Part(m, n).links = Part(mirror, n).links \cup Within(n, s.of)
    <3> DEFINE ends == s.of
               nodes == Nodes(n)
    <3> HIDE DEF ends, nodes, m, s
    <3>1. OfTheNetworks(mirror) /\ Part(mirror, n).assets = {n} \X nodes /\ rows.nodes = nodes
      BY <1>1, <2>1 DEF nodes
    <3>2. ends \in SUBSET Ends(nodes)
      BY <2>4 DEF ends, nodes
    <3>3. m = CreateLinks(mirror, n, ends)
      BY <2>5 DEF ends
    <3>4. /\ Part(m, n).assets = {n} \X nodes
          /\ Part(m, n).links = Part(mirror, n).links \cup Within(n, ends)
      BY <3>1, <3>2, <3>3, LinksPart
    <3>5. QED
      BY <3>1, <3>4 DEF ends
  <2>7. Within(n, Due(todo)) = Within(n, s.of) \cup Within(n, Due(rest))
    BY <2>2 DEF Within
  <2> HIDE DEF m, s, rest
  <2>8. Built(m, n, rows, rest)
    BY <2>1, <2>2, <2>6, <2>7 DEF Built
  <2>9. QED
    BY <2>8 DEF n, rows, todo, m, s, rest
<1>7. QED
  BY <1>3, <1>4, <1>5, <1>6

(* One statement of a synchronisation.                                      *)
LEMMA SyncInPeace ==
  ASSUME StoresInvariant, PeaceOK, NEW i \in Invocation, Sync(i)
  PROVE  \A k \in Invocation : Peaceful(k)'
<1> DEFINE rest == Tail(ing[i].todo)
           at == IF rest = <<>> THEN "invalidate" ELSE "sync"
           x == [ing[i] EXCEPT !.todo = rest, !.at = at]
           n == ing[i].net
           rows == Topology[created[n]]
<1>1. /\ ing \in [Invocation -> Held] /\ ing[i].at = "sync" /\ ing' = [ing EXCEPT ![i] = x]
      /\ mirror' = Execute(mirror, n, Head(ing[i].todo)) /\ UNCHANGED <<created, network>>
  BY DEF StoresInvariant, InvocationsOK, Sync
<1> HIDE DEF rest
<1>2. x.at = at /\ x.net = n /\ x.alone = ing[i].alone /\ x.todo = rest
  BY <1>1 DEF Held
<1> HIDE DEF x
<1>3. Writing(i) /\ \A k \in Invocation \ {i} : ing'[k] = ing[k]
  BY <1>1 DEF Writing
<1>4. \A k \in Invocation \ {i} : Peaceful(k)'
  BY <1>1, <1>3, OthersAreDisturbed
<1>5. ASSUME Undisturbed(i)'
      PROVE  (\A k \in Invocation \ {i} : ~Writing(k)') /\ Progress(i)'
  <2>1. ing'[i] = x
    BY <1>1
  <2>2. Undisturbed(i)
    BY <1>1, <1>2, <1>5, <2>1 DEF Undisturbed
  <2>3. \A k \in Invocation \ {i} : ~Writing(k)
    BY <2>2 DEF PeaceOK, Peaceful
  <2>4. \/ Part(mirror', n) = Empty /\ rest = Tail(SyncStatements(rows)) /\ rest # <<>>
        \/ Built(mirror', n, rows, rest)
    BY <1>1, <2>2, StatementBuilds DEF rest
  <2>5. ASSUME rest = <<>>, Built(mirror', n, rows, rest)
        PROVE  Part(mirror', n) = Mirrored(n, rows)
    <3>1. Due(<<>>) = {} /\ Within(n, {}) = {}
      BY DEF Due, Within
    <3>2. /\ Part(mirror', n).assets = {n} \X rows.nodes
          /\ Part(mirror', n).links = Within(n, AllEnds(rows))
      BY <2>5, <3>1 DEF Built
    <3>3. Part(mirror', n) = [assets |-> Part(mirror', n).assets, links |-> Part(mirror', n).links]
      BY DEF Part
    <3>4. QED
      BY <3>2, <3>3 DEF Mirrored, AllEnds
  <2>6. Progress(i)'
    BY <1>1, <1>2, <2>1, <2>4, <2>5 DEF Progress
  <2>7. QED
    BY <1>3, <2>3, <2>6 DEF Writing
<1>6. QED
  BY <1>4, <1>5 DEF Peaceful

(* An invocation that ends, or invalidates, leaves the mirror to the        *)
(* others.                                                                  *)
LEMMA EndInPeace ==
  ASSUME StoresInvariant, PeaceOK, NEW i \in Invocation, Invalidate(i) \/ Abort(i)
  PROVE  \A k \in Invocation : Peaceful(k)'
<1>1. /\ ing \in [Invocation -> Held] /\ UNCHANGED <<created, network, mirror>>
      /\ \A k \in Invocation \ {i} : ing'[k] = ing[k]
      /\ ~Writing(i)'
  <2>1. CASE Invalidate(i)
    BY <2>1 DEF Invalidate, StoresInvariant, InvocationsOK, Held, Writing
  <2>2. CASE Abort(i)
    BY <2>2 DEF Abort, StoresInvariant, InvocationsOK, AtRest, Writing
  <2>3. QED
    BY <2>1, <2>2
<1>2. \A k \in Invocation : Writing(k)' => Writing(k)
  BY <1>1 DEF Writing
<1>3. \A k \in Invocation \ {i} : Peaceful(k)'
  BY <1>1, <1>2, PeaceStays DEF PeaceOK
<1>4. CASE Abort(i)
  <2>1. ing'[i] = AtRest("over") /\ AtRest("over").at = "over"
    BY <1>1, <1>4 DEF Abort, AtRest
  <2>2. QED
    BY <1>3, <2>1 DEF Peaceful, Undisturbed
<1>5. CASE Invalidate(i)
  <2> DEFINE x == [ing[i] EXCEPT !.at = "done", !.existing = 0]
  <2>1. ing'[i] = x /\ ing[i].at = "invalidate"
    BY <1>1, <1>5 DEF Invalidate
  <2>2. x.at = "done" /\ x.net = ing[i].net /\ x.alone = ing[i].alone
    BY <1>1 DEF Held
  <2> HIDE DEF x
  <2>3. Undisturbed(i)' => Undisturbed(i)
    BY <1>1, <2>1, <2>2 DEF Undisturbed
  <2>4. Undisturbed(i) => Progress(i)' /\ \A k \in Invocation \ {i} : ~Writing(k)
    BY <1>1, <2>1, <2>2 DEF PeaceOK, Peaceful, Progress
  <2>5. QED
    BY <1>2, <1>3, <2>3, <2>4 DEF Peaceful
<1>6. QED
  BY <1>4, <1>5

(* One step of the system, whoever takes it.                                *)
LEMMA PeaceStep ==
  ASSUME PeaceInvariant, [Next]_vars
  PROVE  PeaceOK'
<1>0. StoresInvariant /\ AloneOK /\ PeaceOK /\ ing \in [Invocation -> Held]
  BY DEF PeaceInvariant, StoresInvariant, InvocationsOK
<1>1. SUFFICES ASSUME NEW i \in Invocation PROVE Peaceful(i)'
  BY DEF PeaceOK
<1>2. ASSUME NEW j \in Invocation, NEW force \in BOOLEAN, NEW source \in DOMAIN Topology,
             Check(j, force, source)
      PROVE  Peaceful(i)'
  <2> DEFINE kept == network # 0 /\ ~force
             alone == ~ \E k \in Invocation : Active(k)
             begun == [ing[j] EXCEPT !.at = "transaction", !.existing = network,
                                     !.source = source, !.alone = alone]
             Told(k) == [ing[k] EXCEPT !.alone = FALSE]
  <2>1. /\ ing' = [k \in Invocation |->
                     IF k = j /\ kept THEN AtRest("over")
                     ELSE IF k = j THEN begun
                     ELSE IF kept \/ ~Active(k) THEN ing[k]
                     ELSE Told(k)]
        /\ UNCHANGED <<created, network, mirror>>
    BY <1>2 DEF Check
  <2>2. AtRest("over").at = "over"
    BY DEF AtRest
  <2>3. \A k \in Invocation : Told(k).at = ing[k].at /\ Told(k).alone = FALSE
    BY <1>0 DEF Held
  <2>4. begun.at = "transaction"
    <3> HIDE DEF alone
    <3>1. QED
      BY <1>0 DEF Held
  <2> HIDE DEF begun, Told, kept
  <2>5. \A k \in Invocation : Writing(k)' => Writing(k)
    BY <2>1, <2>2, <2>3, <2>4 DEF Writing
  <2>6. CASE ing'[i] = ing[i]
    BY <1>0, <2>1, <2>5, <2>6, PeaceStays DEF PeaceOK
  <2>7. CASE ing'[i] # ing[i]
    <3>1. ing'[i] \in {AtRest("over"), begun, Told(i)}
      BY <2>1, <2>7
    <3>2. ~Undisturbed(i)'
      BY <2>2, <2>3, <2>4, <3>1 DEF Undisturbed
    <3>3. QED
      BY <3>2 DEF Peaceful
  <2>8. QED
    BY <2>6, <2>7
<1>3. ASSUME NEW j \in Invocation, Transaction(j)
      PROVE  Peaceful(i)'
  BY <1>0, <1>3, CommitInPeace
<1>4. ASSUME NEW j \in Invocation,
             ClearReplaced(j) \/ ReadRows(j) \/ Sync(j) \/ Invalidate(j) \/ Abort(j)
      PROVE  Peaceful(i)'
  BY <1>0, <1>4, ClearInPeace, ReadInPeace, SyncInPeace, EndInPeace
<1>5. ASSUME UNCHANGED <<created, network, mirror, ing>>
      PROVE  Peaceful(i)'
  <2>1. ing'[i] = ing[i] /\ \A j \in Invocation : Writing(j)' => Writing(j)
    BY <1>5 DEF Writing
  <2>2. QED
    BY <1>0, <1>5, <2>1, PeaceStays DEF PeaceOK
<1>6. ASSUME NEW r \in Request,
             (\E n \in NetId, metric \in Metric : Ask(r, n, metric)) \/ Answering(r) \/ GiveUp(r)
      PROVE  UNCHANGED <<created, network, mirror, ing>>
  BY <1>6 DEF Ask, Answering, ReadCache, Compute, WriteCache, GiveUp
<1>7. ASSUME NEW k \in NetId \X Metric, Expire(k)
      PROVE  UNCHANGED <<created, network, mirror, ing>>
  BY <1>7 DEF Expire
<1>8. QED
  BY <1>2, <1>3, <1>4, <1>5, <1>6, <1>7 DEF Next, vars

(* The invariant holds of every reachable state, with what an undisturbed   *)
(* seeding knows.                                                           *)
THEOREM PeaceInvariantHolds == Spec => []PeaceInvariant
<1>1. Init => PeaceInvariant
  <2>1. ASSUME Init
        PROVE  \A i \in Invocation : ~Active(i) /\ ~Undisturbed(i)
    BY <2>1 DEF Init, AtRest, Active, Finished, Undisturbed
  <2>2. QED
    BY <2>1, InvariantInit DEF PeaceInvariant, AloneOK, PeaceOK, Peaceful
<1>2. PeaceInvariant /\ [Next]_vars => PeaceInvariant'
  <2>1. PeaceInvariant /\ [Next]_vars => StoresInvariant'
    BY InvocationsStep, NetworksStep, MirrorStep, RequestsStep, CacheStep
       DEF StoresInvariant, PeaceInvariant
  <2>2. QED
    BY <2>1, AloneStep, PeaceStep DEF PeaceInvariant
<1>3. QED
  BY <1>1, <1>2, PTL DEF Spec

(* A seeding that nothing else ran beside leaves a mirror on which GDS sees *)
(* exactly the rows, each link once and in its directions, whatever earlier *)
(* invocations have left in Neo4j, and for as long as its network exists    *)
(* (graph_sync.py:135-184).                                                 *)
THEOREM MirrorIsTheRows == Spec => []MirrorFollowsRows
<1>1. ASSUME PeaceInvariant
      PROVE  MirrorFollowsRows
  <2>1. SUFFICES ASSUME network # 0, SeededInPeace(network)
                 PROVE  Projection(mirror, network) = RowsGraph(Rows(network))
    BY DEF MirrorFollowsRows
  <2>2. PICK i \in Invocation :
          ing[i].net = network /\ ing[i].alone /\ ing[i].at \in {"invalidate", "done"}
    BY <2>1 DEF SeededInPeace
  <2>3. Undisturbed(i)
    BY <2>2 DEF Undisturbed
  <2>4. Part(mirror, network) = Mirrored(network, Topology[created[network]])
    BY <1>1, <2>2, <2>3 DEF PeaceInvariant, PeaceOK, Peaceful, Progress
  <2>5. /\ created[network] \in DOMAIN Topology
        /\ Rows(network) = Topology[created[network]]
    BY <1>1, <2>2, <2>3, OwnRows DEF PeaceInvariant
  <2>6. QED
    BY <2>4, <2>5, ProjectionIsRows
<1>2. QED
  BY <1>1, PeaceInvariantHolds, PTL

================================================================================
