# Ripple: verification project

Ripple simulates how failures spread through a city's infrastructure. An API
accepts a set of initial failures, a Celery worker runs the cascade engine on the
network's graph, a WebSocket relay streams the waves, a scenario keeps the result
of a what-if run, and a React front end plays the waves back. This directory
holds TLA+ modules of that program, the TLC configurations that check them, and
proofs, for every value of the constants, of what matters most about the engine,
the life of a run, the seeding, the recovery and the board.

All paths below are relative to the repository's root (`src/` in `PROJECT.json`).

## 1. Inventory

| Component | State it keeps | Operations | Hard part | What makes it correct |
|---|---|---|---|---|
| Cascade engine (`backend/app/simulation/cascade.py`) | loads, the latch `failed`, the current wave, the deltas of the wave | the four phases of a wave, the guardrail | order of walking a wave, frontier instead of sweep, cycles, zero capacities, the guardrail | waves are atomic, the frontier loses nothing, failures are final, the verdict is right |
| Dependency semantics (`simulation/semantics.py`) | two tables | lookups | unmodelled suppliers | a missing supplier is not a severed one |
| Simulation API (`api/simulations.py`) | the `simulation_results` rows | create, dispatch, read | dispatch that fails before or after the broker took the message; process death | a pending row has somebody to run it |
| Broker and worker (`celery_app.py`, `simulation/runner.py`) | queue, unacknowledged messages, row status and results | deliver, run, save, announce, recover, acknowledge | redelivery, duplicates, crashes, time limits, a publication that fails after the commit | results before announcement, stored results stay, every accepted run settles |
| WebSocket relay (`api/ws.py`) | one subscription per client | handshake, relay, end | subscription after the lookup, pub/sub without memory | a listener of an open run hears its end |
| Scenarios (`api/scenarios.py`) | scenarios and `cached_result_id` | create, compare | two runs of one scenario, runs with other failures, failed runs | what is compared is comparable |
| Seed ingestion (`services/ingestion.py`) | network rows, Neo4j mirror, centrality cache | seed, forced re-seed | deletes rows under running tasks; three stores, one transaction; overlap; an end between any two statements | the mirror follows the rows, whatever an earlier invocation has left |
| Graph builder and modifications (`services/graph_build.py`, `simulation/runner.py`) | the in-memory graph | merge typed links, add links, upgrade assets | several typed rows on one link, an added link over an existing one | a modified graph means what the modification says |
| Graph isolation (`simulation/isolation.py`) | none | copy the graph, compare afterwards and log | – | – |
| Recommendations (`services/recommendations.py`) | none | source reachability, diagnosis, candidates, re-simulation, ranking | a candidate is scored by another code path than the run that applies it; cycles without a source; negative benefit | what a card promises is what its payload brings |
| Neo4j mirror, analytics and cache (`services/graph_sync.py`, `services/analytics.py`, `api/networks.py`) | mirror, cache | sync, clear, project, compute, cache | reads while the mirror is rebuilt; fill of the cache after its invalidation; ids shared by networks | no score of a foreign asset, no stale scores for longer than the cache lives |
| Population impact (`simulation/population.py`) | none | deduplicate, cap | overlap, assets without an area, rounding | each resident counts once, with the densest asset that serves the place |
| Security (`security.py`) | a counter per client and window | authenticate, rate limit | none: increment and expiry are one Redis transaction | a client is never locked out for good |
| Start-up, health, sessions (`main.py`, `db/`, `config.py`) | connections | check two services, serve | – | – |
| Frontend stores and pollers (`frontend/src/stores`, `demo`, `api/hooks.ts`, `components/ControlPanel.tsx`, `RecommendationPanel.tsx`) | displayed result, current wave, failed set, timers, demo beats | adopt, play, scrub, clear, demo beats | timers and late answers against user actions | the board shows the waves of one run |
| Recovery plan (`frontend/src/demo/recovery.ts`) | none | order, percentages, milestones | rounding | restoration is monotone and complete, and called full when it is |
| Frontend views (`MapView`, `GraphView`, `ImpactSummary`, `WaveBreakdown`, `SimulationTimeline`, `ExplainPanel`, `App`) | none | colours, figures, rows, captions | several panels over one store, each with its own idea of the moment | they tell of one moment |
| OSM ingestion, launch script, generators, migrations | – | – | – | not modelled |

How they interact: the API and the worker share the relational rows and meet
through the broker's messages; worker and relay meet through Redis pub/sub, which
keeps nothing; the comparison reads what the worker cached; a re-seed deletes rows
under all of them and replaces the graph in Neo4j under requests for scores, whose
answers outlive it in Redis. A recommendation is computed by the API on a graph of
its own and comes true, or not, in the worker's run of the scenario it was posted
as; the board and its panels show what polls bring. The worker calls the engine as a function on a private copy of
the graph, which is why the engine is a module of its own.

`PROJECT.json` lists the hazards of this code at their lines, with the properties
that would catch them.

## 2. Modules

| Module | Models |
|---|---|
| `Semantics` | the tables and lookups of `semantics.py`, unchanged |
| `GraphBuild` | the graph built from the rows, the modifications of a scenario, a whole run as one function, the efficiency metric |
| `CascadeRules` | the rules of one wave as operators on a network: suppliers, survivors, shares, the failure test |
| `Cascade` | `run_cascade` as a state machine |
| `FullSweep` | the abstract specification: one atomic step per wave, every survivor examined |
| `CascadeRefinement` | the refinement mapping from `Cascade` to `FullSweep` |
| `MCCascade` | networks for TLC |
| `DataLemmas` | what the proofs need of sums, of division, of iterated functions, of induction over sets of numbers and of finite orders, proved from the definitions |
| `CascadeProofs` | the inductive invariant of the loop and its consequences; what a wave passes on: independence of order, no load created |
| `RefinementProofs` | the loop implements the full sweep (safety) |
| `SimulationLifecycle` | the life of a run over API, broker, workers, relay, scenario and re-seed |
| `MCLifecycle` | symmetry and the safety-only specification of the above |
| `LifecycleProofs` | the inductive invariant of a run's life under all faults, and its consequences |
| `Mirror` | the statements of `graph_sync.py` and the projection of `analytics.py`, as functions on the graph store |
| `Ingestion` | seeding, mirror, requests for scores and their cache, side by side |
| `MCIngestion` | two fixtures for the above |
| `IngestionProofs` | the inductive invariants of the three stores, disturbed and undisturbed, and their consequences |
| `Population` | the deduplicated and capped figure (`population.py`) |
| `Recommendations` | candidates, their reruns, ranking, payloads, between two runs of the worker |
| `MCRecommendations` | networks, first failures and scenarios for the above |
| `RecommendationProofs` | the inductive invariant of the engine, supply paths, what a card promises, and the people affected |
| `RecoveryPlan` | the order, stages, percentages and milestones of restoration (`demo/recovery.ts`) |
| `RecoveryProofs` | when "fully restored" is true, and what the stages bring back |
| `SimulationStore` | each action of the front end's simulation store, as a function on its state |
| `DemoStore` | each action of the demo store, and the beats built from a run |
| `Board` | the handlers, effects, polls and timers that call them; the specification of the front end |
| `Views` | what the panels make of the stores, as functions of their state |
| `MCBoard` | the shapes of runs, the assets and the safety-only specification of the above |
| `BoardProofs` | the inductive invariant of the board, and what the panels make of it |

A definition marked *Faulty* is no part of a specification. It is the definition
after it with a plausible bug, kept so that each property can be shown to fail.

### Cascade

`Commit` is phase 1 (latch, record, publish), `Shed(u)` the part of phase 2 that
belongs to one asset, `Settle` phases 3 and 4, `Return` the exit of the loop. The
program walks a wave in sorted order; `Shed` takes any order, so that the
properties do not depend on names. `phase` is the program counter; every other
variable has the name it has in the code, except `load` (`current_load`).
Suppliers are computed from the network, which never changes in a run, as the
code's index is.

Abstractions: loads are natural numbers and shares are rounded down, where the
program has floats; `capacity * failure_threshold` is one number, `limit`, as the
run never changes either factor. The efficiency metric does not feed back into the
run and is in `GraphBuild`; the naive population sum, which nothing uses, is left
out. A run whose initial failures are
unknown ends in `rejected`, the `ValueError`.

### SimulationLifecycle

A step is what one process does between two points at which another can act.
`create_simulation` ends at the commit of the pending row; `Dispatch` is the
return of `delay()`, `DispatchRaises` its exception (before or after the broker
took the message), `RecordDispatchFailure` the except branch. A worker goes
through `received` (holds the message), `running`, `saved` (results committed),
`returned`, or through `recovering` and `marked` in the except branch;
`Acknowledge` ends the task because `task_acks_late` is set. `Crash` requeues the
message (`task_reject_on_worker_lost`), `HardTimeLimit` does not: Celery
acknowledges a message whose task it killed. `Reseed` is the forced ingestion, which
fails and is rolled back as long as a scenario references the network.

Faults happen only if their kind is in `Faults`, at most `MaxFaults` in a run.

### Ingestion

Any number of invocations of `ingest_seed_data` and of requests for scores run side
by side. `Check` is the look at the existing network, `Transaction` everything up
to the relational commit: it is one step because `Network.name` is unique, so that
of two conflicting transactions the later one waits and then fails. After it come
`ClearReplaced`, `ReadRows`, one `Sync` per Neo4j statement, in the order of the
source (`SyncStatements`), and `Invalidate`. `Abort` ends an invocation between any
two of these: a file, Postgres or Neo4j raised, or the process died. A request goes
through `ReadCache`, `Compute` (Neo4j or, when it raises, the rows) and
`WriteCache`; errors of Redis are only logged, so that each of its commands may
have no effect. `Expire` is the time to live of a key.

The mirror is a set of nodes and a set of relationships, which remember by whose
synchronisation and for which row they were created: two relationships that join the
same assets are two, as in Neo4j. Statements match assets as the source does, by network or by id
alone. A score stands for the graph it was computed on, so that "the right scores"
means "computed on the right graph". `alone` is a history variable of an
invocation: no other was active since it began. `ReadRows`, and the fallback in
`Compute`, read assets and links in one step; the code issues two queries, each of
which sees what was committed when it began, so that a re-seed that commits between
them is left out.

### Recommendations

`FirstRun` is a completed run, plain or of a user's scenario; `GetRecommendations`
builds the graph and stops when there is nothing to mitigate; `ScoreUpgrades` tries
the upgrades, `ScoreLink` the two best donors of one lost link (one step per link,
since `tested_edges` carries over), `Rank` sorts, cuts and synthesises. `ApplyOne` is
what the panel does with a card: its payload is posted, validated, and run by the
worker, `RunTask`, which is the same operator that made the first run: rows, graph,
modifications, cascade, population, efficiency. Candidates are scored by `Score`, as
the source does it: on another graph and without the path through the database.

Abstractions: betweenness picks at most five casualties, and which five is left open
(`TopCentral`); efficiency is counted in units of 1/60, exact for distances up to six,
and its rounding to five digits is left out; a service area is a set of cells of
equal size, where the code buffers and intersects polygons. The code projects the areas
about the mean position of the assets at hand, so that they overlap differently in every
failed set: `area[L][v]` is the area of `v` when the assets `L` are on the map
(`Placed`), and nothing is assumed of how it depends on `L`. A
card keeps its candidate, and a candidate the outcome of its rerun; lists sorted by a
key are `InOrder` of the comparison. `MaxPosted` is the largest capacity, and the largest
weight, that a scenario accepts; a card may ask for more, by doubling a capacity or by
copying the weight of a link, and is then refused when it is applied.

There are two guardrails. The worker passes the setting `max_cascade_waves` (`MaxWaves`);
a rerun passes none and has `run_cascade`'s own default of 50 (`DefaultWaves`). Where a
cascade comes to its end within both, or the two are equal, they make no difference
(`GuardrailsAgree`, a condition on the run of the payload). Where one cuts it short and
the other does not, a card may promise what its payload does not bring, and
`PromisesAreKept` and the second half of `SupplyClaimsAreTrue` except it (section 5).

### Board

The two stores are records, `store` and `demo`, and each of their actions is an
operator from a record to the next (`SimulationStore`, `DemoStore`), because the
handlers of the front end call several of them in a row: `CardSettles` is
`addSimulation`, `stop`, `setSimulationResult`, `setSavedNodes`, composed in the
order of the source. `Board` has one action per handler, effect, answer and timer.
A step is one browser task: JavaScript runs it to the end, with the effects that
React flushes after it. The one exception is the effect that advances the beats,
which is a step of its own also where it calls `finish()` without a timer.

`panel` and `runner` are the state of `ControlPanel` and `DemoRunner`: the
mutation (`mutation`), the id its answer gave to the polling query (`simId`), the
last status polled (`seen`), and their refs under their own names. `Answers` is
what a poll may return; a status is only acted on when it changes. Starting a
mutation again forgets the run of the one before (`Requested`); nothing cancels the
run itself, which goes on in `runs`. A card of the recommendations is an async
function that outlives its component, so that `SwitchNetwork` keeps its handler
and loses its marks (`ui = "gone"`).

The browser's part is `intervals` (timers that tick, whether the store still
knows them or not) and `autoplays` (calls of `play()` that are due).

Abstractions: a completed run is its waves, a sequence of sequences of assets out of
`Shapes`; the ids of runs are numbers; an error message is a boolean. `runToken` is left out, since a press of a
button and its dispatch are one step. `beatsOf`, the run the beats were built
from, is added for the properties. A rank is applied at most once between two
mounts, as its disabled button has it, and while a handler outlives its component
the new card of its rank stays idle. The first network has the seeds of the demos in
`Seeded`; a demo outside it fails without a request. A network that is switched to may
lack the seeds of a demo that was arming, which then fails there (`TopologyLoaded`).

`Views` has no state. The fills, outlines, sizes and tooltips of the map, the classes
of the graph view, the headline, the timeline, the rows of the wave list, the
inspector, the explanation with its root cause, the outcome on a card, the buttons,
the badge and the strip of the demo are operators on the store's record, on what the
user points at (`UIState`: any selection, any asset under the pointer) and on the
component's own state, in the order in which the source tests its conditions.
`PanelsTellOneMoment` relates them, two by two: pictures, controls, figures, the end
of the run, the outcome of a recommendation. Two things it does not claim, because they
are not so:

- The fill does not tell a failed asset from a healthy substation: the colour of that
  class is the very red of a failure (`TypeColour`). What has failed also pulses, and
  `LooksFailed` asks for both; in the graph view the two reds differ. Red without
  pulsing is shown to be a substation.
- On a board before its first wave, or rewound to there, the headline tells the total of
  the whole run over an intact map. `NothingYet` says that this is the only
  disagreement there, and exactly what every panel shows.

Whether a run was cut off is a flag of its result that the store only carries along;
`Badge` and `GuardrailNotice` are functions of it and compared for both of its values.
The check box that hides road junctions is left out: the map is taken as it opens.

## 3. Runs

| Run | Question | Bounds |
|---|---|---|
| `cascade` | Does the engine do what its docstring promises, in every order of walking a wave? | four assets; every digraph on three of them with and without capacities and with two load profiles, plus five hand-made networks (typed feeds of a hospital, an interdependent cycle, a diamond with mixed capacities, an overloaded asset, a chain); six sets of initial failures, one with an unknown id; guardrails 2 and 4 |
| `lifecycle_faults` | Is what is completed, cached or announced always backed by results, and which of its runs does a scenario show, whatever goes wrong? | two simulations, one scenario, two values of `initial_failures`, two workers, any two of eight kinds of fault |
| `lifecycle_delivery` | Is an accepted run executed, settled and announced? | two simulations, two workers, two faults among task exception, worker crash, failed dispatch |
| `board` | Does the board always show the waves of one run, whatever the user clicks while answers and timers are on their way, and do its panels agree? | three demos, one without seeds in the network, one recommendation, up to three clicks that start a run or switch the network, the third only where no demo has been (`NoDemoOfThree`), any number of the others; two assets, one a hospital, one a substation; runs of one and of two waves that share an asset; a history of two runs |
| `ingestion` | Does the mirror follow the rows, and what do racing requests leave in the cache? | two invocations, forced or not; two fixtures that share an asset id, one with a two-way link; one request at a time, one metric; an empty and a seeded start |
| `mitigation` | Does a recommendation, posted and run, bring what its card promised? | five assets of four classes, 256 networks, three sets of first failures, three scenarios of a user, three runs in a row, the two best cards offered; a worker that stops after three waves (`MaxWaves`), reruns that stop after five (`DefaultWaves`); capacities and weights up to 20 (`MaxPosted`) |
| `finding_compare_*`, `finding_pending` | Three statements about the lifecycle that the code does not keep (section 5) | the lifecycle instance with the faults that matter |
| `finding_upgrade` | A statement about ranking that the code does not keep (section 5) | seven telecom towers |
| `finding_board_*` | Two statements about the board that the code does not keep (section 5) | the board instance, without fairness |

Why the bounds are enough: in the engine, four assets give waves of two, chains of
four waves, cycles of three, an asset that two members of a wave feed, and one
that is fed by a failed and a surviving supplier; the guardrails 2 and 4 truncate
some runs and end others exactly. In the lifecycle, a conflict needs two runs of
one scenario and two workers on one message; two faults allow the recovery from a
fault to fail itself. The proofs of section 4 remove the bounds for the
safety of the engine, of the life of a run, of the three stores and of the board.
On the board, most conflicts are between two clients, or between a client and its
own earlier run, which takes two clicks; scrubbing, playing, clearing, stopping,
jumping on the rail and reloading are free. A ring of saved assets and the return of an
old run take three: a baseline, the run of a card, and one more of the panel or of a
card before, between or after them. Three clicks with demos among them are millions of
states and more than the run has time for; `NoDemoOfThree` allows the third click only where no
demo is active and the demo's poller holds no run, and no demo after it. The theorems of
section 4 have no such bound. Runs of one and two waves tell the last
wave from the others and give a restoration of one and of two stages; in a history of
two the run that left the board is still held when the next one comes, and the cap bites at
the third.
In the ingestion, every conflict is between two
invocations, or between an invocation and what an aborted one has left, or between
a request and an invocation that overtakes it; a third network needs an initial
state that was already seeded, which is one of the two. Shared ids are what makes
matching by id alone visible. In the recommendations, five assets give a cause, a
severed dependent, a hospital, a surviving donor and one more that may be worse off;
three runs give a recommendation made for the run of another recommendation. Three waves
cut some cascades short that five do not, so that `GuardrailsAgree` holds of some runs
and not of others: without it as a condition, TLC finds a promise that is broken. One
link is too heavy to be posted. The area of one asset moves into another's when a third
fails as well, so that the figure falls from one failed set to a larger one.

The runs reach 38,665 (`cascade`), 290,494 (`ingestion`), 220,014 (`board`) and 14,528
(`mitigation`) distinct states; most of the time of `ingestion` goes into
`CacheSettles`.

Fairness. `Cascade` assumes that the worker's thread keeps running. The lifecycle
assumes that a live API thread finishes its request, that the broker delivers a
queued message to a free worker, that a worker that is alive continues its task,
and that the relay completes its subscription. Nobody has to post, connect or
re-seed, and no fault has to happen or to stop happening, except through the bound
`MaxFaults`. The liveness run leaves out the faults after which the code does not
promise an ending: a hard time limit or a refused recovery write leaves the row
`running`, and a lost publication is not repeated. `ListenerHearsTheEnd` starts at the
subscription: a client between the look-up of the row and the subscription may miss
the end, and nothing reads the row again. That the engine's runs end
(`EveryRunReturns`) rests on the guardrail alone; that no failure is undone and redone
below it is `LatchedForGood`.

`Ingestion` assumes that a request that was asked is worked on and that Redis
expires its keys. Nothing makes an invocation go on: it may hang in a statement, and
nothing asserts that it ends. The promise is `CacheSettles`: wrong scores do not stay.
The expiry of keys is enough for it; the invalidation at the end of a seeding makes it
come sooner, which is not a property here.

`Board` assumes that requests are answered, that accepted runs settle (which is
what `AcceptedRunsSettle` shows of the lifecycle), that the demo's poll goes on,
that its timers fire and that a topology arrives; the user owes nothing. The
fairness of both is weak fairness with the condition of the action written out
(`[]<>~guard \/ []<><<A>>_vars`) in place of `WF_vars(A)`, which says the same of
actions that change a variable whenever their guard holds, and which TLC evaluates
far more quickly.

Deadlock is not checked because the systems may stop: a run returns, clients
may stop posting, and a user may leave the board alone.

## 4. Proofs

Everything in this section holds for every value of the constants; TLC has checked
the same formulas, and the inductive invariants, on the instances above.

### The wave loop

`CascadeProofs`, for every finite set of assets, every network, every set of initial
failures and every positive guardrail:

- `TypeCorrect`, `FrontierIsExact`, `WavesPartition`, `Spreads`, `FlagIsTrue`,
  `LargeBoundNeverTruncates`: the invariants of the same subject that the
  `cascade` run checks;
- `FailureIsLatched`: the action property `LatchedForGood`.

None of them is inductive. `LoopInvariant` (end of `Cascade.tla`) adds what
each point of the loop knows:

- `WaveAndLatch`: while a wave sheds it is inside the latch and the deltas are
  outside; elsewhere the wave and the latch are disjoint. It supports the types
  (`idx` stays within the guardrail, shares go to survivors).
- `SurvivorsPassed`: while a wave sheds, its survivors are those that passed the
  test against the failures before it. This is why the frontier is enough: an asset
  that got no load and has no supplier in the wave is in that very state
  (`OutsideFrontierPasses`).
- `VerdictOfWave`, `OneFailurePerWave`: from these the flag and the large bound.
- `WaveReached`: each member of the next wave was fed by the last one.

A step lemma per conjunct, one step per action; `LoopInvariantHolds` combines
them. That shares are natural numbers needs the sum of capacities to be one;
`SumFunctionOnSet` is defined by recursion through `CHOOSE`, so `DataLemmas` first
shows that the recursion is satisfiable on a finite set, and then, by induction over
subsets, insertion, exchange of two sums, and bounds.

The second part of `CascadeProofs` builds on these sums. `OrderMakesNoDifference`: however far a wave has
been walked, and in whatever order, the delta of an asset is the sum of what the
members walked so far give it, each computed from the loads and failures of the whole
wave. `RedistributionCreatesNoLoad`: what a wave gives away is at most what it
carried; the shares of one asset are split by capacity or, without capacities,
evenly, and both are bounded with their rounding (`SharesBounded`).

`RefinementProofs` proves `LoopImplementsSweep`: every step of the loop is a step of
`FullSweep` under the mapping of `CascadeRefinement`, or leaves it alone. `Settle` is
the step of the sweep: that its deltas are those of the whole wave is
`OrderMakesNoDifference`, that the frontier suffices is `FrontierIsExact`. This is the
safety half of `ImplementsFullSweep`; its fairness stays with TLC.

### The life of a run

`LifecycleProofs`, for any simulations, scenarios, workers and any bound on faults.
`RunInvariant` says what each point of a worker, a relay and a row implies of the
others: results come before the status, the status before the announcement, and what
a scenario caches was posted for it. From it, under every kind of fault: `TypeCorrect`,
`ServedIsStored`, `ShowsLatest`, `ToldCanRead`, `ResultsSurvive`, and
`SettledIsFinal`, which is about the steps before the first fault.

`ServedIsStored` says that a scenario shows one of its own stored runs as soon as it has
one, and nothing before. It says nothing of the other side of a comparison: the code
does not look at the baseline's status (`scenarios.py:174-187`), and one that is
pending, running or failed is compared as it is, without waves. `ShowsLatest` settles
which of two runs of one scenario wins: the one that stored its results last, in
whatever order they were posted, taken up or announced. After a fault the redelivered
message of an older run may be executed again, and that run comes back over the newer
one; the property says that nothing else does this.

Two theorems name the faults they cannot bear. `AcceptedTracked` (an accepted open run
is queued or held) needs neither a hard time limit nor a failing database: these are
the faults that lose a run. `OneExecution` (no run is with two workers, nor with
a worker and in the queue) needs no repeated publish: this is the fault that
duplicates one. All other faults may happen in both, any number of times.

### Seeding, mirror and cache

`IngestionProofs`, for any fixtures, any number of overlapping or aborted invocations
and any number of requests. `StoresInvariant` has five parts: which networks an
invocation at each of its points knows and what it has still to do
(`InvocationsOK`), how many networks there can be (`NetworksOK`), that the assets of the
mirror are those of the fixture of their network and no relationship dangles
(`MirrorOK`), and that what a request carries and the cache holds are such assets
(`RequestsOK`, `CacheOK`). It gives `TypeCorrect` and `ScoresAreOfTheirNetwork`: no
answer and no cached score is of an asset its network did not have.

This invariant bears any disturbance and therefore says little about the relationships.
`PeaceInvariant` adds what an invocation knows that had the system for itself.
`AloneOK` is the history: while it is at work, nobody else is active. `PeaceOK` is what
follows for the stores: nobody else writes, and the invocation has made the `Progress`
that its point in the source calls for. Until it creates its assets, nothing of its network
is in the mirror: what aborted invocations left there has other networks' ids. From then
on, the links that are there and those that the remaining statements are `Due` to create
are together those of the rows. Each statement keeps this
(`StatementBuilds`); at the end nothing is due, and what GDS projects is the graph of
the rows (`ProjectionIsRows`): `MirrorIsTheRows`, which is `MirrorFollowsRows` for every
fixture. Lists of statements are taken apart at the head and joined by concatenation
(`DueOfHead`, `DueOfConcat`), so that no induction over them is needed.

### Recovery

`RecoveryProofs` settles what the rounding of percentages can do.
`FullyRestoredIsTrue`: with fewer than 200 failed assets, a stage says 100 exactly when
nothing is offline after it. `FullyRestoredTooSoon`: from 200 on, a stage that ends one
asset short of the last says 100 as well. The model's percentages are exact, the
source's are floating point; they may differ where a percentage ends in exactly .5,
which can be rounded down there. At 99.5, which decides these theorems, the
floating-point product is exact enough to round up in both.

`RestorationIsSteadyAndWhole`, for any waves over finitely many assets: no stage takes
anything back, each restores failed assets only and at most a quarter of them, rounded
up, and after the last one everything is back. The plan is made of flattened and cut
sequences. `FlattenElements` shows that `FlattenSeq`, a recursive function chosen by
`CHOOSE`, exists, by induction on the length as a set of numbers (`NatSetInduction`),
which needs no operator for a parameter, and what its elements are.

### The board

`BoardProofs`, for any demos, recommendations, assets and shapes of runs, and any
number of clicks and of entries in the history: every property of the `board` run but
`DemoComesToRest`. The invariants are `Types`, `MapIsTheTimelines`, `TimersArePaused`,
`SavedStayOnline`, `DemosTellTheirRuns` and `PanelsAreOne`; the action properties
`RunsDoNotComeBack`, `BaselinesAreKept`, `PlayingIsTimed` and `LoadingIsKeptBacked`.

None of the invariants is inductive. `IInv` adds what the clients owe each other:

- `BoardOK`: the failed set is the prefix of waves the timeline is at, or what the
  recovery has not restored; a saved asset never fails in the run shown; the only
  timer is the one the store knows.
- `HistoryOK`: the capped history flags at most the baseline.
- `DemoOK`: act 2 comes last and is reached after its reveal, so that a beat is never
  applied to a board in the other act; a demo that arms has no beats.
- `RunsOK`, `PanelOK`, `RunnerOK`, `CardsOK`: the run a client waits for is its own, is
  not on the board, and is nobody else's. The panel's two sets of ids are its memory of
  that. This is why a late answer neither brings a run back nor is told as another's.
- `LoadingOK`: without an active demo the demo's poll does not back the loading state,
  since its answer would not be adopted. Without this, `LoadingStaysBacked` does not
  follow from one step.
- `ClicksOK`: each run, and each request that may still bring one, was clicked for. This
  bounds the ids, which the types speak of.

The proof has a lemma per action of each store, and one per action of `Board`. What
most actions leave alone is shown once: a step that brings the runs `ids` to the board
(`Brings`) while the runs only grow (`RunsGrow`) keeps what each client knows
(`PanelStays`, `RunnerStays`, `CardStays`), and the steps that only move the picture are
one lemma (`Scene`). The action properties are a second pass over the actions, with
`Moved` and `Backed` as what a step must do. `PanelsAreOne` needs no more of the board
than `IInv`; its parts are `PicturesAreOne`, `LinksAreOne`, `ControlsAreOne`,
`NothingIsShownYet`, `FiguresAreOne`, `EndsAreOne` and `OutcomesAreShown`.

`SavedStayOnline` and the second half of `RunsDoNotComeBack` need a second invariant on
top of `IInv` (`RingIsKept`, from the same pass over the actions): the ring on the board is of the
run of a card, fails none of it, and each of its assets failed in some completed run; and
the run on the board is the one recorded last. The ring survives the steps that leave
the result alone (`RingStays`: completed runs do not change, `NextGrows`), goes with
every new result, and is put up by the handler of a card only (`CardRings`), whose
baseline is of a completed run, whatever has come to the board since it was captured.

### Recommendations

`RecommendationProofs`, for any networks, first failures, scenarios of users and limits,
and any number of cards applied one after the other. `Inv` says what is true of the
search at each of its points. Its core is `IsCard`: the outcome on a card is that of the
cascade on the baseline's graph with the card's modification (`Promised`), under the
guardrail of a rerun, compared with the run that is looked at. So it is in the terms of
the worker's graph and not of the scorer's, and `Types`, `Promises` and `SupplyClaims`
follow from it when a card is applied (`ApplyOneStep`). The worker's guardrail is
another; where both let the cascade of the payload end, or are equal, the two runs are
one (`RerunIsRun`, from `GuardrailsAgree`). The run that is looked at may be cut short
in any way: its own figures are what the card subtracts from. What supports it:

- `RunsInv`: the run that is looked at is the one the worker makes of its modifications
  and first failures (`IsRun`), and the graph of the engine is the one of the rows.
- `SearchInv`: what is left to try are links of that graph, and the candidates are
  finitely many.
- `CardsInv`: two cards between the same assets are one, because each pair was tested
  once. Without this the ranking is no total order and could repeat or lose a card.
- `PromiseIsKept`, `SupplyIsRestored`: the card applied last has kept its word.

The lemmas on data are the larger part. `BuildIsGraph` and `ScenarioIsGraph`: whatever
the rows and the modifications, what comes out is a graph of these assets
(`GraphIsNetwork` makes it a network for the cascade). `ConnectedIsClosure`: as many
steps as there are assets reach all that is reachable. `ReachIsSupplied`: whatever
`surviving_source_reach` returns has a path from an asset above which nothing has
failed. It searches by components and fed in degree; `Supplied` speaks of paths. That a
root exists wherever something is unharmed is shown by going upstream to an
asset with the fewest above it (`UnharmedHasRoot`), which takes care of islands that
feed themselves. `LinksInOrder`, `DonorsInOrder`, `CardsInOrder`: each sort key of the
source is a strict total order, so that `InOrder` is a list of the elements sorted
(`PlacesAreTaken`).

`Impacts` needs nothing of the search: `CountsEachResidentOnce` holds for any failed
assets of any network. `_deduplicate` adds up per asset what nobody denser has claimed;
the promise adds up per cell. The claims are disjoint and cover every cell, because
density with the id as tie-break is a strict total order (`ClaimsAreDisjoint`), each
claimed cell counts with the density of its densest asset (`ClaimedCellsCount`), and so
both sums are one (`OnePassIsEnough`, by `SumOfParts`). With it the bounds follow:
by asset, no more than the plain sum (`WholeIsBounded`); by cell, no less than any one
asset serves (`WholeCountsEach`). Rounding to whole residents keeps both
(`RoundIsMonotone`, `RoundOfWhole`). The theorem is about each failed set with the areas
as they are projected for it, whatever they are. It does not compare two failed sets:
one more asset moves the mean position (`population.py:172-178`) and with it the
overlaps, and the figure may fall.

### Assumptions

- Engine: `NodeAssumption` (finitely many assets), `NoCapacityAssumption` (the marker for
  "no capacity" is no number), `NetworksAssumption` (networks are what `build_graph`
  builds), `MaxWavesAssumption` (the guardrail is positive).
- Life of a run: `FaultsAssumption` and `NoneAssumption` (the faults are of the kinds
  listed, `None` is no simulation, scenario or set of failures).
- Ingestion: `InvocationsAssumption` (a natural number) and `TopologyAssumption` (the
  edges of a fixture join two different nodes of it, by a check and two foreign keys in
  `models/network.py:134, 145-148`, and there is a synthetic fixture), and
  `FixtureAssumption` (its edges are of mirrored types, at most one from one asset to
  another, as in `data/seed/edges.json` and `osm_ingestion.py:139-166`). Only
  `ProjectionIsRows` needs the last one: GDS sees every relationship of the mirror,
  the fallback one edge per pair of assets.
- Board: `SeededAssumption` (the seeded demos are demos), `CardAssumption` and
  `AssetAssumption` (finitely many recommendations and assets), `ShapesAssumption` (a
  completed run has at least one wave, the initial failures), `MaxClicksAssumption` and
  `MaxHistoryAssumption` (a natural number; a history of at least one run),
  `TypesAssumption` (hospitals and substations are assets), `NoneAssumption` and `ClientAssumption`
  (`None` is no id, demo, status or result, and no demo has the name of another client).

- Recommendations: `IdsAssumption` (assets are positive numbers, which stand for the ids
  and are compared in ties), `BoundsAssumption` (both guardrails and the number of runs are
  positive, the limit a natural number), `AreasAssumption` (areas have some cells,
  finitely many, and `AreaUnit` is a multiple of each number of them, so that the density of an
  asset times `AreaUnit` is a whole number; how the areas of one set of assets relate to those
  of another is left open), `RunsAssumption` (rows satisfy the constraints of
  `models/network.py:51-62, 133-138` and their links have one of the four types that a
  scenario can add; first failures are a non-empty set of assets; modifications are of
  the shapes in `scenarios.py:29-60`). The theorems hold whether or not a capacity or a weight is
  too large to be posted: `PromisesAreKept` excepts such a card from being accepted.

TLC evaluates them in the runs.

### Only model-checked

- Liveness (`EveryRunReturns`, `AcceptedRunsSettle`, `ListenerHearsTheEnd`,
  `CacheSettles`, `DemoComesToRest`, the fairness of
  `ImplementsFullSweep`), which is out of the prover's reach.

## 5. Findings

1. `finding_compare_failures`: the comparison's docstring ensures that the initial
   failures match; it compares with those the scenario was saved with, and a
   scenario may have been run with others.
2. `finding_compare_status`: a comparison may serve a run whose status is
   `failed`, because a refused publication makes the recovery path overwrite the
   status of a saved and cached run.
3. `finding_pending`: a row stays `pending` for ever if the write that records a
   dispatch failure fails too, against the comment above it.
4. `finding_board_loading`: a switch to a network whose topology is not cached
   unmounts the components that wait for a run, and `isRunning` stays on with no
   request in flight, against the comment on that field.
5. `finding_board_narration`: a demo may be started while a manual run is in
   flight; when that run completes it replaces the demo's result and the demo goes
   on applying its beats to it, which a comment says is prevented.
6. `finding_upgrade`: an upgrade may save one populated asset and fail more
   others. It passes the filter of upgrades, which asks for prevented failures *or*
   saved population, and is offered with a negative number of prevented
   failures; the filter of links has the guard that excludes this.

Behaviours met on the way that have no run of their own, on the board:

- The delayed `play()` after an adoption clears a timer that ticks and returns with
  `isPlaying` on if the user has played to the last wave within its 300 ms: the
  button then says Pause and nothing moves. `PlayingKeepsTimer` shows that nothing
  else leads there.
- A demo without seeds leaves the request of the demo before it alone. If that is
  answered afterwards, its run is adopted under the demo that failed, although a
  comment in `DemoRunner.tsx` calls a stale result unadoptable; if it had been
  answered before, its run is disowned and the board stays in its loading state.
  `NarrationIsOfItsPreset` and `LoadingStaysBacked` except such demos.
- A jump on the replay rail in act 1 sets the phase to `complete`. The button that
  starts the restoration is shown in `awaiting-recovery` only, and its beats stay
  locked, so that this run's restoration cannot be reached any more.
- The comment in `ImpactSummary.tsx:93-95` has the headline count "what is actually red on
  the map" while the cascade plays. Before the first wave, of which it does not speak, the
  headline counts the whole run over an intact map; and healthy substations are red all the
  time (`types/index.ts:224`).
- A ring of saved assets compares the rerun with the baseline as it was when the button
  was pressed. If another run has come to the board in between, the ring is about
  a result that the user no longer sees; it is still true of the rerun it is shown over.
- `isRunning` is said to be set by `RecommendationPanel` too; no code there sets it,
  so that an applied recommendation shows no loading state.
- The ring of the last wave stays on the map during a recovery, around assets that are
  back. `PanelsTellOneMoment` asks for red assets in it before the recovery only.
- `ExplainPanel` tells the end of the run also while the map is in the middle of the
  cascade; the two are compared at its end. Beside a verified run its
  simulation paragraph compares that run with itself: it says "was N" of the result on
  the board, which is the scenario's (`derive.ts:78`), where the baseline's figure is
  meant. The paragraph on the verified run has the right one.
- The outcome on a card goes on saying that the saved assets are ringed on the map after
  another result has cleared the rings. Where nothing was saved it says that the same
  assets went offline, also when the intervention has brought others down
  (`RecommendationPanel.tsx:530-535`).
- After finding 5, the stages of a recovery are of another run than the one on the
  board, and the figures of restored assets do not add up; `PanelsTellOneMoment`
  excepts that case.

In the back end:

- A forced re-seed is refused as long as a scenario references the network
  (`models/network.py:46`).
- An invocation that is not forced ends at the existing row. A mirror that was left
  incomplete is never repaired without force, and queries on an empty or half-built
  mirror raise nothing: scores of nothing, or of a part, are answered with 200 rather
  than computed by the fallback.
- Endpoints of relationships are matched by id alone (`graph_sync.py:153`). Two
  invocations at once leave relationships twice, or between two networks. The
  projection asks both ends for their network, which hides the latter;
  `MirrorFollowsRows` speaks of an invocation that had the system for itself.
- Links of the `requires_*` types are not mirrored (`graph_sync.py:136-141`), so that
  GDS and the fallback see different graphs of a network that has them; so they do of a
  network with two links of different types over one pair, which the schema allows. The
  fixtures have neither (`FixtureAssumption`). A
  recommendation built on such a link would be refused when posted
  (`scenarios.py:33`), although its payload is called ready to post; and so would be an
  upgrade that doubles a capacity beyond the accepted 1,000,000 (`scenarios.py:48`),
  which the tables do not bound.
- The reruns of `recommendations.py:340, 533` do not pass `max_cascade_waves`, which the
  worker does (`runner.py:144`, `config.py:47`, anything from 1 to 10,000). With a setting
  below the default of 50, a cascade that lasts longer is cut short in the runs and not in
  the reruns, and a card then counts the failures that the cut hid as ones it causes; with
  one above it, the reverse. A comment at line 333 has the rerun use "the same cascade model
  the runner used", which is so of the semantics only.
- The figure of affected people may fall when one more asset fails, because every failed
  set is projected about its own mean (`population.py:172-178`).
- A comparison serves a baseline that has not completed, with no waves
  (`scenarios.py:174-187`).
- The recommendations for the run of a scenario are derived from the graph without the
  scenario's modifications (`recommendations.py:421`), and their payloads do not repeat
  them. `PromisesAreKept` holds for what the payload brings on that graph.
- An asset that never failed may be diagnosed, as the target of a recommended link, as
  failed by "overload" (`recommendations.py:146-163`).

## 6. Not modelled

On the board: the registry of scenarios, the redundancy mode that `uiFlags.ts`
switches off, the steps that select assets (every selection is considered instead), the
wording of captions, geometry and layout.

In the back end: `isolation.py`, a copy and a comparison that only logs, since graphs
are values in the models and no run could change one for another; `security.py`, whose
checks are functions of one request and whose counter is incremented and expired in one
Redis transaction; start-up, health and sessions, which hold connections and check
two services once; the conversion of OpenStreetMap data and coordinates, batches
without state; the numbers that libraries compute (betweenness, PageRank, buffers and
intersections of polygons), for which the models take a graph or a set of cells; the
waves on their way through Redis, and a client that disconnects; the launch script,
the data generators and the migrations.

## 7. Plan

What is left, in this order:

1. The waves in transit: publication during a run, a client that joins in the middle or
   disconnects, and what a poll makes up for.
2. The registry of scenarios on the board, with the comparison panel.
