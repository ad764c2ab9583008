-------------------------- MODULE SimulationLifecycle --------------------------
(***************************************************************************)
(* The life of a simulation run across the processes that touch it: the    *)
(* API that creates the row and dispatches the task                        *)
(* (backend/app/api/simulations.py), the Celery broker that delivers it    *)
(* (celery_app.py: acks_late, reject_on_worker_lost, time limits), the     *)
(* workers that execute it (simulation/runner.py), the WebSocket relay     *)
(* that announces its end (api/ws.py), the scenario that caches its result *)
(* and the comparison that reads it (api/scenarios.py), and the forced     *)
(* re-seed that deletes it (services/ingestion.py).                        *)
(*                                                                         *)
(* A step is what one process does between two points where another        *)
(* process can act: a commit, a publication, a message taken or            *)
(* acknowledged.  The cascade itself is module Cascade; here a run only    *)
(* has, or has not, stored its waves.  One network is modelled.            *)
(*                                                                         *)
(* A definition marked "Faulty" is no part of the specification: it is what*)
(* a plausible bug would make of the definition after it, and shows that   *)
(* the properties can fail.                                                *)
(***************************************************************************)
EXTENDS Naturals, FiniteSets

CONSTANTS
  Simulation,   \* ids of simulation rows, one per POST /simulations
  Scenario,     \* ids of scenarios
  FailureSet,   \* the values of initial_failures
  Worker,       \* worker processes
  None,         \* "no scenario", "no cached result", "no job"
  Faults,       \* the kinds of fault that may happen in this instance
  MaxFaults     \* how many of them may happen

FaultKind ==
  {"exception",    \* the task body raises (bad data, soft time limit, database)
   "database",     \* a commit that records a failure raises itself
   "publish",      \* Redis refuses a publication
   "crash",        \* a worker process dies
   "hard_limit",   \* a worker process is killed by task_time_limit
   "dispatch",     \* delay() raises, though the message may be in the queue
   "duplicate",    \* the broker client retries a publish that had succeeded
   "api_crash"}    \* the API process dies inside the request

ASSUME FaultsAssumption == Faults \subseteq FaultKind /\ MaxFaults \in Nat
ASSUME NoneAssumption ==
  /\ None \notin Simulation \cup Scenario \cup FailureSet
  /\ None \notin [initial_failures : FailureSet, cached_result_id : Simulation \cup {None}]

VARIABLES
  network,      \* the seeded network: "seeded", or "replaced" by a re-seed
  scenario,     \* [initial_failures, cached_result_id], or None if not created
  posted,       \* arguments of each POST: [failures, scenario], or None
  request,      \* where the POST handler of each simulation stands
  status,       \* the status column, "absent" before and "gone" after the row
  stored,       \* whether the row holds waves and metrics
  queue,        \* number of task messages waiting for each simulation
  worker,       \* [at, job]: where each worker stands in which task
  subscriber,   \* one WebSocket client per simulation
  faults        \* faults so far

vars == <<network, scenario, posted, request, status, stored, queue, worker,
          subscriber, faults>>

Row == {"pending", "running", "completed", "failed"}
Settled == {"completed", "failed"}
IdleWorker == [at |-> "idle", job |-> None]

Init ==
  /\ network = "seeded"
  /\ scenario = [c \in Scenario |-> None]
  /\ posted = [s \in Simulation |-> None]
  /\ request = [s \in Simulation |-> "idle"]
  /\ status = [s \in Simulation |-> "absent"]
  /\ stored = [s \in Simulation |-> FALSE]
  /\ queue = [s \in Simulation |-> 0]
  /\ worker = [w \in Worker |-> IdleWorker]
  /\ subscriber = [s \in Simulation |-> "away"]
  /\ faults = 0

(* A fault of a kind the instance allows, within the bound.                 *)
Fault(kind) ==
  /\ kind \in Faults
  /\ faults < MaxFaults
  /\ faults' = faults + 1

NoFault == UNCHANGED faults

HasRow(s) == status[s] \in Row

--------------------------------------------------------------------------------
(* The API process *)

(* POST /scenarios.                                                         *)
create_scenario(c, f) ==
  /\ network = "seeded"
  /\ scenario[c] = None
  /\ scenario' = [scenario EXCEPT ![c] = [initial_failures |-> f, cached_result_id |-> None]]
  /\ NoFault
  /\ UNCHANGED <<network, posted, request, status, stored, queue, worker, subscriber>>

(* POST /simulations up to the commit of the pending row.  A scenario must  *)
(* exist; its own initial_failures are not compared with the request's.     *)
create_simulation(s, f, c) ==
  /\ network = "seeded"
  /\ request[s] = "idle"
  /\ c # None => scenario[c] # None
  /\ posted' = [posted EXCEPT ![s] = [failures |-> f, scenario |-> c]]
  /\ status' = [status EXCEPT ![s] = "pending"]
  /\ request' = [request EXCEPT ![s] = "dispatching"]
  /\ NoFault
  /\ UNCHANGED <<network, scenario, stored, queue, worker, subscriber>>

(* delay() returns: the message is queued, twice if the client retried.     *)
Dispatch(s) ==
  /\ request[s] = "dispatching"
  /\ request' = [request EXCEPT ![s] = "accepted"]
  /\ \/ NoFault /\ queue' = [queue EXCEPT ![s] = @ + 1]
     \/ Fault("duplicate") /\ queue' = [queue EXCEPT ![s] = @ + 2]
  /\ UNCHANGED <<network, scenario, posted, status, stored, worker, subscriber>>

(* delay() raises, before or after the broker took the message.             *)
DispatchRaises(s) ==
  /\ request[s] = "dispatching"
  /\ Fault("dispatch")
  /\ request' = [request EXCEPT ![s] = "undoing"]
  /\ queue' \in {queue, [queue EXCEPT ![s] = @ + 1]}
  /\ UNCHANGED <<network, scenario, posted, status, stored, worker, subscriber>>

(* The except branch writes "failed" whatever the row has become since, and *)
(* answers 503; the write itself fails on a deleted row.                    *)
RecordDispatchFailure(s) ==
  /\ request[s] = "undoing"
  /\ request' = [request EXCEPT ![s] = IF HasRow(s) THEN "refused" ELSE "errored"]
  /\ status' = [status EXCEPT ![s] = IF HasRow(s) THEN "failed" ELSE @]
  /\ NoFault
  /\ UNCHANGED <<network, scenario, posted, stored, queue, worker, subscriber>>

(* The write of "failed" raises: the client gets an error, the row stays.   *)
RecordDispatchFailureRaises(s) ==
  /\ request[s] = "undoing"
  /\ Fault("database")
  /\ request' = [request EXCEPT ![s] = "errored"]
  /\ UNCHANGED <<network, scenario, posted, status, stored, queue, worker, subscriber>>

ApiCrash(s) ==
  /\ request[s] \in {"dispatching", "undoing"}
  /\ Fault("api_crash")
  /\ request' = [request EXCEPT ![s] = "died"]
  /\ UNCHANGED <<network, scenario, posted, status, stored, queue, worker, subscriber>>

(* ingest_seed_data(force): deleting the network deletes its rows.  With a  *)
(* scenario present the delete violates a constraint and is rolled back.    *)
Reseed ==
  /\ network = "seeded"
  /\ \A c \in Scenario : scenario[c] = None
  /\ network' = "replaced"
  /\ status' = [s \in Simulation |-> IF HasRow(s) THEN "gone" ELSE status[s]]
  /\ stored' = [s \in Simulation |-> FALSE]
  /\ NoFault
  /\ UNCHANGED <<scenario, posted, request, queue, worker, subscriber>>

--------------------------------------------------------------------------------
(* The WebSocket relay: one client per simulation. *)

(* The row is looked up, then the socket is accepted ...                    *)
Connect(s) ==
  /\ subscriber[s] = "away"
  /\ HasRow(s)
  /\ subscriber' = [subscriber EXCEPT ![s] = "accepted"]
  /\ NoFault
  /\ UNCHANGED <<network, scenario, posted, request, status, stored, queue, worker>>

(* ... and only then is the channel subscribed; the row is not read again.  *)
Subscribe(s) ==
  /\ subscriber[s] = "accepted"
  /\ subscriber' = [subscriber EXCEPT ![s] = "listening"]
  /\ NoFault
  /\ UNCHANGED <<network, scenario, posted, request, status, stored, queue, worker>>

(* Redis pub/sub keeps nothing: a publication reaches who is listening now, *)
(* and the first terminal one ends the relay.                               *)
Publish(s, word) ==
  subscriber' = [subscriber EXCEPT ![s] = IF @ = "listening" THEN word ELSE @]

--------------------------------------------------------------------------------
(* The workers *)

Goes(w, place) == worker' = [worker EXCEPT ![w].at = place]

(* Faulty: the message stays deliverable while it is being worked on.       *)
ReceiveKeepsMessage(w, s) ==
  /\ worker[w] = IdleWorker
  /\ queue[s] > 0
  /\ worker' = [worker EXCEPT ![w] = [at |-> "received", job |-> s]]
  /\ NoFault
  /\ UNCHANGED <<network, scenario, posted, request, status, stored, queue, subscriber>>

(* Delivery with acks_late: the message stays unacknowledged while held.    *)
Receive(w, s) ==
  /\ worker[w] = IdleWorker
  /\ queue[s] > 0
  /\ queue' = [queue EXCEPT ![s] = @ - 1]
  /\ worker' = [worker EXCEPT ![w] = [at |-> "received", job |-> s]]
  /\ NoFault
  /\ UNCHANGED <<network, scenario, posted, request, status, stored, subscriber>>

(* The row is marked running whatever its status; a missing row ends the    *)
(* task at once.                                                            *)
Start(w) ==
  LET s == worker[w].job IN
  /\ worker[w].at = "received"
  /\ Goes(w, IF HasRow(s) THEN "running" ELSE "returned")
  /\ status' = [status EXCEPT ![s] = IF HasRow(s) THEN "running" ELSE @]
  /\ NoFault
  /\ UNCHANGED <<network, scenario, posted, request, stored, queue, subscriber>>

(* Faulty: the status is committed without the results.                     *)
SaveStatusOnly(w) ==
  LET s == worker[w].job IN
  /\ worker[w].at = "running"
  /\ status' = [status EXCEPT ![s] = IF HasRow(s) THEN "completed" ELSE @]
  /\ Goes(w, IF HasRow(s) THEN "saved" ELSE "recovering")
  /\ NoFault
  /\ UNCHANGED <<network, scenario, posted, request, stored, queue, subscriber>>

(* The cascade has run: results, status and the scenario's link to them are *)
(* one transaction.  On a deleted row it raises.                            *)
Save(w) ==
  LET s == worker[w].job
      c == posted[s].scenario
  IN
  /\ worker[w].at = "running"
  /\ IF HasRow(s)
     THEN /\ status' = [status EXCEPT ![s] = "completed"]
          /\ stored' = [stored EXCEPT ![s] = TRUE]
          /\ scenario' = IF c = None THEN scenario
                         ELSE [scenario EXCEPT ![c].cached_result_id = s]
          /\ Goes(w, "saved")
     ELSE /\ Goes(w, "recovering")
          /\ UNCHANGED <<status, stored, scenario>>
  /\ NoFault
  /\ UNCHANGED <<network, posted, request, queue, subscriber>>

(* Faulty: completion is announced before the results are committed.        *)
AnnounceBeforeCommit(w) ==
  /\ worker[w].at \in {"running", "saved"}
  /\ Publish(worker[w].job, "completed")
  /\ worker' = worker
  /\ NoFault
  /\ UNCHANGED <<network, scenario, posted, request, status, stored, queue>>

(* Only a committed run is announced as completed.                          *)
Announce(w) ==
  /\ worker[w].at = "saved"
  /\ Publish(worker[w].job, "completed")
  /\ Goes(w, "returned")
  /\ NoFault
  /\ UNCHANGED <<network, scenario, posted, request, status, stored, queue>>

(* Anything the try block raises before its commit.                         *)
Raise(w) ==
  /\ worker[w].at \in {"received", "running"}
  /\ Fault("exception")
  /\ Goes(w, "recovering")
  /\ UNCHANGED <<network, scenario, posted, request, status, stored, queue, subscriber>>

(* The publication of a saved run is inside the same try block.             *)
AnnounceRaises(w) ==
  /\ worker[w].at = "saved"
  /\ Fault("publish")
  /\ Goes(w, "recovering")
  /\ UNCHANGED <<network, scenario, posted, request, status, stored, queue, subscriber>>

(* Faulty: the recovery clears what was stored.                             *)
MarkFailedClears(w) ==
  LET s == worker[w].job IN
  /\ worker[w].at = "recovering"
  /\ status' = [status EXCEPT ![s] = IF HasRow(s) THEN "failed" ELSE @]
  /\ stored' = [stored EXCEPT ![s] = FALSE]
  /\ Goes(w, "marked")
  /\ NoFault
  /\ UNCHANGED <<network, scenario, posted, request, queue, subscriber>>

(* Faulty: without the rollback, the recovery cannot write the row.         *)
MarkFailedWithoutRollback(w) ==
  /\ worker[w].at = "recovering"
  /\ Goes(w, "returned")
  /\ NoFault
  /\ UNCHANGED <<network, scenario, posted, request, status, stored, queue, subscriber>>

(* The except branch: the row, if there still is one, becomes failed.  What *)
(* an earlier commit stored stays in it.                                    *)
MarkFailed(w) ==
  LET s == worker[w].job IN
  /\ worker[w].at = "recovering"
  /\ status' = [status EXCEPT ![s] = IF HasRow(s) THEN "failed" ELSE @]
  /\ Goes(w, "marked")
  /\ NoFault
  /\ UNCHANGED <<network, scenario, posted, request, stored, queue, subscriber>>

MarkFailedRaises(w) ==
  /\ worker[w].at = "recovering"
  /\ Fault("database")
  /\ Goes(w, "returned")
  /\ UNCHANGED <<network, scenario, posted, request, status, stored, queue, subscriber>>

(* Faulty: a failed run ends without a word.                                *)
AnnounceFailureSilent(w) ==
  /\ worker[w].at = "marked"
  /\ Goes(w, "returned")
  /\ NoFault
  /\ UNCHANGED <<network, scenario, posted, request, status, stored, queue, subscriber>>

(* The failure is published outside any handler: if Redis refuses, it is    *)
(* lost.                                                                    *)
AnnounceFailure(w) ==
  /\ worker[w].at = "marked"
  /\ \/ NoFault /\ Publish(worker[w].job, "failed")
     \/ Fault("publish") /\ UNCHANGED subscriber
  /\ Goes(w, "returned")
  /\ UNCHANGED <<network, scenario, posted, request, status, stored, queue>>

(* Faulty: the worker is freed without forgetting its job.                  *)
AcknowledgeKeepsJob(w) ==
  /\ worker[w].at = "returned"
  /\ Goes(w, "idle")
  /\ NoFault
  /\ UNCHANGED <<network, scenario, posted, request, status, stored, queue, subscriber>>

(* The task is over, with or without an exception: the message is           *)
(* acknowledged only now.                                                   *)
Acknowledge(w) ==
  /\ worker[w].at = "returned"
  /\ worker' = [worker EXCEPT ![w] = IdleWorker]
  /\ NoFault
  /\ UNCHANGED <<network, scenario, posted, request, status, stored, queue, subscriber>>

(* Faulty: the message was acknowledged when it was received.               *)
CrashAfterEarlyAck(w) ==
  /\ worker[w].at # "idle"
  /\ Fault("crash")
  /\ worker' = [worker EXCEPT ![w] = IdleWorker]
  /\ UNCHANGED <<network, scenario, posted, request, status, stored, queue, subscriber>>

(* A lost worker: the unacknowledged message goes back to the queue.        *)
Crash(w) ==
  LET s == worker[w].job IN
  /\ worker[w].at # "idle"
  /\ Fault("crash")
  /\ worker' = [worker EXCEPT ![w] = IdleWorker]
  /\ queue' = [queue EXCEPT ![s] = @ + 1]
  /\ UNCHANGED <<network, scenario, posted, request, status, stored, subscriber>>

(* The hard time limit kills the process and acknowledges the message.      *)
HardTimeLimit(w) ==
  /\ worker[w].at \notin {"idle", "returned"}
  /\ Fault("hard_limit")
  /\ worker' = [worker EXCEPT ![w] = IdleWorker]
  /\ UNCHANGED <<network, scenario, posted, request, status, stored, queue, subscriber>>

--------------------------------------------------------------------------------
Api(s) ==
  \/ \E f \in FailureSet, c \in Scenario \cup {None} : create_simulation(s, f, c)
  \/ Dispatch(s)
  \/ DispatchRaises(s)
  \/ RecordDispatchFailure(s)
  \/ RecordDispatchFailureRaises(s)
  \/ ApiCrash(s)

Relay(s) == Connect(s) \/ Subscribe(s)

TaskStep(w) ==
  \/ Start(w) \/ Save(w) \/ Announce(w)
  \/ MarkFailed(w) \/ AnnounceFailure(w) \/ Acknowledge(w)

Misfortune(w) ==
  \/ Raise(w) \/ AnnounceRaises(w) \/ MarkFailedRaises(w)
  \/ Crash(w) \/ HardTimeLimit(w)

Next ==
  \/ \E c \in Scenario, f \in FailureSet : create_scenario(c, f)
  \/ \E s \in Simulation : Api(s) \/ Relay(s)
  \/ \E w \in Worker, s \in Simulation : Receive(w, s)
  \/ \E w \in Worker : TaskStep(w) \/ Misfortune(w)
  \/ Reseed

(* A live API thread finishes its request, the broker delivers what is      *)
(* queued to a free worker, a live worker continues its task, the relay     *)
(* continues its handshake.  Nobody is obliged to post, connect or re-seed, *)
(* and no fault is obliged to happen.                                       *)
Fairness ==
  /\ \A s \in Simulation :
       /\ WF_vars(Dispatch(s) \/ RecordDispatchFailure(s))
       /\ WF_vars(\E w \in Worker : Receive(w, s))
       /\ WF_vars(Subscribe(s))
  /\ \A w \in Worker : WF_vars(TaskStep(w))

Spec == Init /\ [][Next]_vars /\ Fairness

--------------------------------------------------------------------------------
(* GET /scenarios/compare/{baseline}/{scenario}: what the handler checks    *)
(* before it serves the scenario's cached result beside the baseline.       *)
compare_scenarios(baseline, c) ==
  /\ HasRow(baseline)
  /\ scenario[c] # None
  /\ posted[baseline].failures = scenario[c].initial_failures
  /\ scenario[c].cached_result_id # None
  /\ HasRow(scenario[c].cached_result_id)

(* GET /simulations/{id}/recommendations is served for completed runs only. *)
recommendations_served(s) == status[s] = "completed"

--------------------------------------------------------------------------------
TypeOK ==
  /\ network \in {"seeded", "replaced"}
  /\ scenario \in [Scenario -> {None} \cup
       [initial_failures : FailureSet, cached_result_id : Simulation \cup {None}]]
  /\ posted \in [Simulation -> {None} \cup
       [failures : FailureSet, scenario : Scenario \cup {None}]]
  /\ request \in [Simulation -> {"idle", "dispatching", "undoing", "accepted",
                                 "refused", "errored", "died"}]
  /\ status \in [Simulation -> Row \cup {"absent", "gone"}]
  /\ stored \in [Simulation -> BOOLEAN]
  /\ queue \in [Simulation -> Nat]
  /\ worker \in [Worker -> {IdleWorker} \cup
       [at : {"received", "running", "saved", "recovering", "marked", "returned"},
        job : Simulation]]
  /\ subscriber \in [Simulation -> {"away", "accepted", "listening", "completed", "failed"}]
  /\ faults \in 0 .. MaxFaults

Holds(w, s) == worker[w].at # "idle" /\ worker[w].job = s

(* The runs of a scenario that hold results, and the one it shows.          *)
StoredRuns(c) == {s \in Simulation : stored[s] /\ posted[s].scenario = c}
Shown(c) == IF scenario[c] = None THEN None ELSE scenario[c].cached_result_id

(* Where the code looks at a status or at the scenario's link, results are  *)
(* behind it (runner.py:165-186): a completed row holds waves, so that      *)
(* recommendations read some; and a scenario shows a result as soon as, and *)
(* only if, a run of its own has stored one, and what it shows is such a    *)
(* run, whatever its status has become since.  Of the other side of a       *)
(* comparison nothing is said, for nothing is checked: scenarios.py:174-187 *)
(* serves a baseline that is pending, running or failed, without waves.     *)
ServedResultsAreStored ==
  /\ \A s \in Simulation : recommendations_served(s) => stored[s]
  /\ \A c \in Scenario : scenario[c] # None =>
       IF StoredRuns(c) = {} THEN Shown(c) = None ELSE Shown(c) \in StoredRuns(c)

(* Of several runs of one scenario it shows the one whose results were      *)
(* stored last (runner.py:183-184), in whatever order they were posted or   *)
(* begun: the first results of a run replace what was shown, and nothing    *)
(* else does, unless after a fault a redelivered message repeats an older   *)
(* run, which then comes back over a newer one.                             *)
ShowsTheLatestRun ==
  [][\A c \in Scenario, s \in Simulation :
       /\ s \in StoredRuns(c)' \ StoredRuns(c) => Shown(c)' = s
       /\ Shown(c)' = s /\ Shown(c) # s /\ s \in StoredRuns(c) => faults > 0]_vars

(* A client told that a run completed can read its waves, unless the whole  *)
(* network was replaced since: the announcement follows the commit          *)
(* (runner.py:186-189), whatever is lost, repeated or killed.               *)
ToldCompletedCanRead ==
  \A s \in Simulation :
    subscriber[s] = "completed" => stored[s] \/ status[s] = "gone"

(* A run that has ended stays as it ended unless something went wrong: only *)
(* a fault lets a second execution or the recovery path overwrite the       *)
(* status of a settled run (runner.py:107-112, 191-204).                    *)
SettledStatusIsFinalWithoutFaults ==
  [][\A s \in Simulation :
       status[s] \in Settled /\ status'[s] \in Row \ {status[s]} => faults > 0]_vars

(* Results, once stored, are never taken away but by deleting the row:      *)
(* neither the recovery path nor a second delivery clears them.             *)
StoredResultsSurvive ==
  [][\A s \in Simulation : stored[s] /\ ~ stored'[s] => status'[s] = "gone"]_vars

(* At-least-once delivery (celery_app.py:24-25): until its row is settled   *)
(* or deleted, an accepted run is queued or held by a live worker, so it is *)
(* never forgotten.                                                         *)
AcceptedIsTracked ==
  \A s \in Simulation :
    request[s] = "accepted" /\ status[s] \in {"pending", "running"} =>
      queue[s] > 0 \/ \E w \in Worker : Holds(w, s)

(* Without a duplicated publish, a redelivery never puts two workers on the *)
(* same run: the message returns to the queue only once its worker is dead. *)
OneExecutionAtATime ==
  \A s \in Simulation :
    /\ \A w1, w2 \in Worker : Holds(w1, s) /\ Holds(w2, s) => w1 = w2
    /\ (\E w \in Worker : Holds(w, s)) => queue[s] = 0
    /\ queue[s] <= 1

(* Every accepted run settles for good, although tasks raise, workers crash *)
(* and dispatches fail after the broker took the message.                   *)
AcceptedRunsSettle ==
  \A s \in Simulation :
    request[s] = "accepted" ~> [](status[s] \in Settled \cup {"gone"})

(* A client that is subscribed while its accepted run is still open hears   *)
(* how it ended, as long as Redis takes publications and nobody re-seeds    *)
(* (ws.py:35-49, runner.py:189, 205).  One that is still between the look-up*)
(* of the row and the subscription is promised nothing: an end published    *)
(* meanwhile is lost to it, and the row is not read again.                  *)
ListenerHearsTheEnd ==
  \A s \in Simulation :
    (subscriber[s] = "listening" /\ request[s] = "accepted"
       /\ status[s] \in {"pending", "running"})
    ~> (subscriber[s] \in Settled \/ status[s] = "gone")

--------------------------------------------------------------------------------
(* What comments, docstrings and messages of the program say, and the code  *)
(* does not guarantee.                                                      *)

(* "Ensures that the initial_failures match" (scenarios.py:172): the        *)
(* comparison shows two runs of the same initial failures.                  *)
ComparedRunsShareFailures ==
  \A b \in Simulation, c \in Scenario :
    compare_scenarios(b, c) =>
      posted[b].failures = posted[scenario[c].cached_result_id].failures

(* "Scenario simulation has not been run or has not completed"              *)
(* (scenarios.py:192): a comparison that is not refused shows a scenario    *)
(* run whose status is completed.                                           *)
ComparedScenarioRunCompleted ==
  \A b \in Simulation, c \in Scenario :
    compare_scenarios(b, c) => status[scenario[c].cached_result_id] = "completed"

(* "callers never poll a permanently pending job" (simulations.py:71-72): a *)
(* pending row is being dispatched, queued or held by a worker.             *)
PendingIsTracked ==
  \A s \in Simulation : status[s] = "pending" =>
    \/ request[s] \in {"dispatching", "undoing"}
    \/ queue[s] > 0
    \/ \E w \in Worker : Holds(w, s)

================================================================================
