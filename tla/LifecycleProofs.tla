---------------------------- MODULE LifecycleProofs ----------------------------
(***************************************************************************)
(* What holds of the life of a run for any number of simulations, scenarios*)
(* and workers, and for any number of faults.  RunInvariant is inductive   *)
(* whatever the faults; the two theorems on delivery name the faults they  *)
(* exclude.                                                                *)
(***************************************************************************)
EXTENDS SimulationLifecycle, TLAPS

Arguments == [failures : FailureSet, scenario : Scenario \cup {None}]

ScenarioRow == [initial_failures : FailureSet, cached_result_id : Simulation \cup {None}]

(* Before its POST, nothing in the system knows a simulation.               *)
UnpostedIsUnknown ==
  \A s \in Simulation : request[s] = "idle" =>
    /\ status[s] = "absent"
    /\ stored[s] = FALSE
    /\ queue[s] = 0
    /\ subscriber[s] = "away"
    /\ \A w \in Worker : ~ Holds(w, s)

(* A posted simulation has its arguments, and the scenario it names exists. *)
PostedHasArguments ==
  \A s \in Simulation : request[s] # "idle" =>
    /\ posted[s] \in Arguments
    /\ posted[s].scenario # None => scenario[posted[s].scenario] \in ScenarioRow

(* Whoever may say that a run completed, the results are stored, or the row *)
(* was deleted with the network.                                            *)
CompletedIsStored ==
  /\ \A s \in Simulation :
       /\ status[s] = "completed" => stored[s]
       /\ stored[s] => HasRow(s)
       /\ subscriber[s] = "completed" => stored[s] \/ status[s] = "gone"
  /\ \A w \in Worker :
       worker[w].at = "saved" => stored[worker[w].job] \/ status[worker[w].job] = "gone"

(* What a scenario caches is a stored run that was posted for it, and it    *)
(* caches one as soon as there is one.                                      *)
CachedIsStored ==
  \A c \in Scenario, s \in Simulation :
    /\ scenario[c] # None /\ scenario[c].cached_result_id = s =>
         /\ request[s] # "idle"
         /\ posted[s].scenario = c
         /\ stored[s]
    /\ request[s] # "idle" /\ stored[s] /\ posted[s].scenario = c =>
         scenario[c].cached_result_id # None

RunInvariant ==
  /\ TypeOK
  /\ UnpostedIsUnknown
  /\ PostedHasArguments
  /\ CompletedIsStored
  /\ CachedIsStored

(* Unless the hard limit or the database takes it, an open run that was     *)
(* accepted is in the queue or with a worker that has yet to settle it.     *)
OpenIsTracked ==
  \A s \in Simulation :
    request[s] = "accepted" /\ status[s] \in {"pending", "running"} =>
      \/ queue[s] > 0
      \/ \E w \in Worker : /\ Holds(w, s)
                           /\ worker[w].at \in {"received", "running", "recovering"}

(* Unless a publish is repeated, no message exists before the dispatch, and *)
(* there is never more than one, counting the one a worker holds.           *)
OneMessage ==
  /\ OneExecutionAtATime
  /\ \A s \in Simulation : request[s] \in {"idle", "dispatching"} =>
       /\ queue[s] = 0
       /\ \A w \in Worker : ~ Holds(w, s)

(* Until the first fault, the place of a run and its status go together.    *)
FaultlessPlaces ==
  faults = 0 =>
    /\ OneMessage
    /\ \A s \in Simulation :
         /\ request[s] # "undoing"
         /\ stored[s] => status[s] = "completed"
         /\ request[s] = "dispatching" \/ queue[s] > 0 => status[s] \in {"pending", "gone"}
         /\ \A w \in Worker : Holds(w, s) =>
              /\ worker[w].at = "received" => status[s] \in {"pending", "gone"}
              /\ worker[w].at = "running" => status[s] \in {"running", "gone"}
              /\ worker[w].at \in {"recovering", "marked"} => status[s] = "gone"

--------------------------------------------------------------------------------
(* Save, without its nested update: where the worker goes, and that only    *)
(* the scenario the run was posted for changes (runner.py:165-186).         *)
LEMMA SaveEffect ==
  ASSUME RunInvariant, NEW w \in Worker, Save(w)
  PROVE  LET s == worker[w].job
             c == posted[s].scenario
             place == IF HasRow(s) THEN "saved" ELSE "recovering"
         IN
         /\ worker[w].at = "running"
         /\ s \in Simulation
         /\ worker' = [worker EXCEPT ![w] = [at |-> place, job |-> s]]
         /\ status' = [status EXCEPT ![s] = IF HasRow(s) THEN "completed" ELSE @]
         /\ scenario' \in [Scenario -> {None} \cup ScenarioRow]
         /\ stored' \in [Simulation -> BOOLEAN]
         /\ UNCHANGED <<network, posted, request, queue, subscriber, faults>>
<1> DEFINE s == worker[w].job
           c == posted[s].scenario
<1>1. worker[w].at = "running" /\ s \in Simulation /\ request[s] # "idle"
  BY DEF Save, RunInvariant, TypeOK, IdleWorker, UnpostedIsUnknown, Holds
<1>2. worker' = [worker EXCEPT ![w] = [at |-> IF HasRow(s) THEN "saved" ELSE "recovering",
                                       job |-> s]]
  BY <1>1 DEF Save, Goes, RunInvariant, TypeOK, IdleWorker
<1>3. status' = [status EXCEPT ![s] = IF HasRow(s) THEN "completed" ELSE @]
  BY <1>1 DEF Save, RunInvariant, TypeOK
<1>4. c # None => c \in Scenario /\ scenario[c] \in ScenarioRow
  BY <1>1 DEF RunInvariant, PostedHasArguments, Arguments
<1>5. scenario' \in [Scenario -> {None} \cup ScenarioRow]
  <2>1. scenario \in [Scenario -> {None} \cup ScenarioRow]
    BY DEF RunInvariant, TypeOK, ScenarioRow
  <2>2. c # None => [scenario[c] EXCEPT !.cached_result_id = s] \in ScenarioRow
    BY <1>1, <1>4 DEF ScenarioRow
  <2>3. CASE c # None /\ HasRow(s)
    <3>1. scenario' = [scenario EXCEPT ![c] = [scenario[c] EXCEPT !.cached_result_id = s]]
      BY <2>3 DEF Save
    <3>2. QED
      BY <2>1, <2>2, <2>3, <3>1, <1>4
  <2>4. CASE c = None \/ ~ HasRow(s)
    BY <2>1, <2>4 DEF Save
  <2>5. QED
    BY <2>3, <2>4
<1>6. stored' \in [Simulation -> BOOLEAN]
  BY DEF Save, RunInvariant, TypeOK
<1>7. QED
  BY <1>1, <1>2, <1>3, <1>5, <1>6 DEF Save, NoFault

(* Save frees no worker and gives none a job.                               *)
LEMMA SaveKeepsHolders ==
  ASSUME RunInvariant, NEW w \in Worker, Save(w), NEW x \in Worker, NEW r \in Simulation
  PROVE  Holds(x, r)' <=> Holds(x, r)
<1>1. CASE x = w
  BY <1>1, SaveEffect DEF RunInvariant, TypeOK, Holds
<1>2. CASE x # w
  <2>1. worker'[x] = worker[x]
    BY <1>2, SaveEffect DEF RunInvariant, TypeOK
  <2>2. QED
    BY <2>1 DEF Holds
<1>3. QED
  BY <1>1, <1>2

(* Every step keeps the types.                                              *)
LEMMA TypeStep ==
  ASSUME RunInvariant, [Next]_vars
  PROVE  TypeOK'
<1> USE NoneAssumption, FaultsAssumption
    DEF RunInvariant, TypeOK, Row, HasRow, IdleWorker, Holds, Goes, Publish,
        Fault, NoFault, PostedHasArguments, ScenarioRow, Arguments
<1>1. ASSUME NEW c \in Scenario, NEW f \in FailureSet, create_scenario(c, f)
      PROVE  TypeOK'
  BY <1>1 DEF create_scenario
<1>2. ASSUME NEW s \in Simulation, NEW f \in FailureSet, NEW c \in Scenario \cup {None}, create_simulation(s, f, c)
      PROVE  TypeOK'
  BY <1>2 DEF create_simulation
<1>3. ASSUME NEW s \in Simulation, Dispatch(s)
      PROVE  TypeOK'
  BY <1>3 DEF Dispatch
<1>4. ASSUME NEW s \in Simulation, DispatchRaises(s)
      PROVE  TypeOK'
  BY <1>4 DEF DispatchRaises
<1>5. ASSUME NEW s \in Simulation, RecordDispatchFailure(s)
      PROVE  TypeOK'
  BY <1>5 DEF RecordDispatchFailure
<1>6. ASSUME NEW s \in Simulation, RecordDispatchFailureRaises(s)
      PROVE  TypeOK'
  BY <1>6 DEF RecordDispatchFailureRaises
<1>7. ASSUME NEW s \in Simulation, ApiCrash(s)
      PROVE  TypeOK'
  BY <1>7 DEF ApiCrash
<1>8. ASSUME NEW s \in Simulation, Connect(s)
      PROVE  TypeOK'
  BY <1>8 DEF Connect
<1>9. ASSUME NEW s \in Simulation, Subscribe(s)
      PROVE  TypeOK'
  BY <1>9 DEF Subscribe
<1>10. ASSUME NEW w \in Worker, NEW s \in Simulation, Receive(w, s)
      PROVE  TypeOK'
  BY <1>10 DEF Receive
<1>11. ASSUME NEW w \in Worker, Start(w)
      PROVE  TypeOK'
  BY <1>11 DEF Start
<1>12. ASSUME NEW w \in Worker, Save(w)
      PROVE  TypeOK'
  BY <1>12, SaveEffect
<1>13. ASSUME NEW w \in Worker, Announce(w)
      PROVE  TypeOK'
  BY <1>13 DEF Announce
<1>14. ASSUME NEW w \in Worker, MarkFailed(w)
      PROVE  TypeOK'
  BY <1>14 DEF MarkFailed
<1>15. ASSUME NEW w \in Worker, AnnounceFailure(w)
      PROVE  TypeOK'
  BY <1>15 DEF AnnounceFailure
<1>16. ASSUME NEW w \in Worker, Acknowledge(w)
      PROVE  TypeOK'
  BY <1>16 DEF Acknowledge
<1>17. ASSUME NEW w \in Worker, Raise(w)
      PROVE  TypeOK'
  BY <1>17 DEF Raise
<1>18. ASSUME NEW w \in Worker, AnnounceRaises(w)
      PROVE  TypeOK'
  BY <1>18 DEF AnnounceRaises
<1>19. ASSUME NEW w \in Worker, MarkFailedRaises(w)
      PROVE  TypeOK'
  BY <1>19 DEF MarkFailedRaises
<1>20. ASSUME NEW w \in Worker, Crash(w)
      PROVE  TypeOK'
  BY <1>20 DEF Crash
<1>21. ASSUME NEW w \in Worker, HardTimeLimit(w)
      PROVE  TypeOK'
  BY <1>21 DEF HardTimeLimit
<1>22. ASSUME Reseed
      PROVE  TypeOK'
  BY <1>22 DEF Reseed
<1>23. CASE UNCHANGED vars
  BY <1>23 DEF vars
<1>24. QED
  BY <1>1, <1>2, <1>3, <1>4, <1>5, <1>6, <1>7, <1>8, <1>9, <1>10, <1>11, <1>12,
     <1>13, <1>14, <1>15, <1>16, <1>17, <1>18, <1>19, <1>20, <1>21, <1>22, <1>23
  DEF Next, Api, Relay, TaskStep, Misfortune

(* Nothing is done for a simulation before its POST.                        *)
LEMMA UnpostedStep ==
  ASSUME RunInvariant, [Next]_vars
  PROVE  UnpostedIsUnknown'
<1> USE NoneAssumption, FaultsAssumption
    DEF RunInvariant, TypeOK, Row, HasRow, IdleWorker, Holds, Goes, Publish,
        Fault, NoFault, UnpostedIsUnknown
<1>1. ASSUME NEW c \in Scenario, NEW f \in FailureSet, create_scenario(c, f)
      PROVE  UnpostedIsUnknown'
  BY <1>1 DEF create_scenario
<1>2. ASSUME NEW s \in Simulation, NEW f \in FailureSet, NEW c \in Scenario \cup {None}, create_simulation(s, f, c)
      PROVE  UnpostedIsUnknown'
  BY <1>2 DEF create_simulation
<1>3. ASSUME NEW s \in Simulation, Dispatch(s)
      PROVE  UnpostedIsUnknown'
  BY <1>3 DEF Dispatch
<1>4. ASSUME NEW s \in Simulation, DispatchRaises(s)
      PROVE  UnpostedIsUnknown'
  BY <1>4 DEF DispatchRaises
<1>5. ASSUME NEW s \in Simulation, RecordDispatchFailure(s)
      PROVE  UnpostedIsUnknown'
  BY <1>5 DEF RecordDispatchFailure
<1>6. ASSUME NEW s \in Simulation, RecordDispatchFailureRaises(s)
      PROVE  UnpostedIsUnknown'
  BY <1>6 DEF RecordDispatchFailureRaises
<1>7. ASSUME NEW s \in Simulation, ApiCrash(s)
      PROVE  UnpostedIsUnknown'
  BY <1>7 DEF ApiCrash
<1>8. ASSUME NEW s \in Simulation, Connect(s)
      PROVE  UnpostedIsUnknown'
  BY <1>8 DEF Connect
<1>9. ASSUME NEW s \in Simulation, Subscribe(s)
      PROVE  UnpostedIsUnknown'
  BY <1>9 DEF Subscribe
<1>10. ASSUME NEW w \in Worker, NEW s \in Simulation, Receive(w, s)
      PROVE  UnpostedIsUnknown'
  BY <1>10 DEF Receive
<1>11. ASSUME NEW w \in Worker, Start(w)
      PROVE  UnpostedIsUnknown'
  BY <1>11 DEF Start
<1>12. ASSUME NEW w \in Worker, Save(w)
      PROVE  UnpostedIsUnknown'
  BY <1>12 DEF Save
<1>13. ASSUME NEW w \in Worker, Announce(w)
      PROVE  UnpostedIsUnknown'
  BY <1>13 DEF Announce
<1>14. ASSUME NEW w \in Worker, MarkFailed(w)
      PROVE  UnpostedIsUnknown'
  BY <1>14 DEF MarkFailed
<1>15. ASSUME NEW w \in Worker, AnnounceFailure(w)
      PROVE  UnpostedIsUnknown'
  BY <1>15 DEF AnnounceFailure
<1>16. ASSUME NEW w \in Worker, Acknowledge(w)
      PROVE  UnpostedIsUnknown'
  BY <1>16 DEF Acknowledge
<1>17. ASSUME NEW w \in Worker, Raise(w)
      PROVE  UnpostedIsUnknown'
  BY <1>17 DEF Raise
<1>18. ASSUME NEW w \in Worker, AnnounceRaises(w)
      PROVE  UnpostedIsUnknown'
  BY <1>18 DEF AnnounceRaises
<1>19. ASSUME NEW w \in Worker, MarkFailedRaises(w)
      PROVE  UnpostedIsUnknown'
  BY <1>19 DEF MarkFailedRaises
<1>20. ASSUME NEW w \in Worker, Crash(w)
      PROVE  UnpostedIsUnknown'
  BY <1>20 DEF Crash
<1>21. ASSUME NEW w \in Worker, HardTimeLimit(w)
      PROVE  UnpostedIsUnknown'
  BY <1>21 DEF HardTimeLimit
<1>22. ASSUME Reseed
      PROVE  UnpostedIsUnknown'
  BY <1>22 DEF Reseed
<1>23. CASE UNCHANGED vars
  BY <1>23 DEF vars
<1>24. QED
  BY <1>1, <1>2, <1>3, <1>4, <1>5, <1>6, <1>7, <1>8, <1>9, <1>10, <1>11, <1>12,
     <1>13, <1>14, <1>15, <1>16, <1>17, <1>18, <1>19, <1>20, <1>21, <1>22, <1>23
  DEF Next, Api, Relay, TaskStep, Misfortune

(* Arguments are never changed, and a scenario is never removed.            *)
LEMMA PostedStep ==
  ASSUME RunInvariant, [Next]_vars
  PROVE  PostedHasArguments'
<1> USE NoneAssumption, FaultsAssumption
    DEF RunInvariant, TypeOK, Row, HasRow, IdleWorker, Holds, Goes, Publish,
        Fault, NoFault, UnpostedIsUnknown,
        PostedHasArguments, Arguments, ScenarioRow
<1>1. ASSUME NEW c \in Scenario, NEW f \in FailureSet, create_scenario(c, f)
      PROVE  PostedHasArguments'
  BY <1>1 DEF create_scenario
<1>2. ASSUME NEW s \in Simulation, NEW f \in FailureSet, NEW c \in Scenario \cup {None}, create_simulation(s, f, c)
      PROVE  PostedHasArguments'
  BY <1>2 DEF create_simulation
<1>3. ASSUME NEW s \in Simulation, Dispatch(s)
      PROVE  PostedHasArguments'
  BY <1>3 DEF Dispatch
<1>4. ASSUME NEW s \in Simulation, DispatchRaises(s)
      PROVE  PostedHasArguments'
  BY <1>4 DEF DispatchRaises
<1>5. ASSUME NEW s \in Simulation, RecordDispatchFailure(s)
      PROVE  PostedHasArguments'
  BY <1>5 DEF RecordDispatchFailure
<1>6. ASSUME NEW s \in Simulation, RecordDispatchFailureRaises(s)
      PROVE  PostedHasArguments'
  BY <1>6 DEF RecordDispatchFailureRaises
<1>7. ASSUME NEW s \in Simulation, ApiCrash(s)
      PROVE  PostedHasArguments'
  BY <1>7 DEF ApiCrash
<1>8. ASSUME NEW s \in Simulation, Connect(s)
      PROVE  PostedHasArguments'
  BY <1>8 DEF Connect
<1>9. ASSUME NEW s \in Simulation, Subscribe(s)
      PROVE  PostedHasArguments'
  BY <1>9 DEF Subscribe
<1>10. ASSUME NEW w \in Worker, NEW s \in Simulation, Receive(w, s)
      PROVE  PostedHasArguments'
  BY <1>10 DEF Receive
<1>11. ASSUME NEW w \in Worker, Start(w)
      PROVE  PostedHasArguments'
  BY <1>11 DEF Start
<1>12. ASSUME NEW w \in Worker, Save(w)
      PROVE  PostedHasArguments'
  BY <1>12 DEF Save
<1>13. ASSUME NEW w \in Worker, Announce(w)
      PROVE  PostedHasArguments'
  BY <1>13 DEF Announce
<1>14. ASSUME NEW w \in Worker, MarkFailed(w)
      PROVE  PostedHasArguments'
  BY <1>14 DEF MarkFailed
<1>15. ASSUME NEW w \in Worker, AnnounceFailure(w)
      PROVE  PostedHasArguments'
  BY <1>15 DEF AnnounceFailure
<1>16. ASSUME NEW w \in Worker, Acknowledge(w)
      PROVE  PostedHasArguments'
  BY <1>16 DEF Acknowledge
<1>17. ASSUME NEW w \in Worker, Raise(w)
      PROVE  PostedHasArguments'
  BY <1>17 DEF Raise
<1>18. ASSUME NEW w \in Worker, AnnounceRaises(w)
      PROVE  PostedHasArguments'
  BY <1>18 DEF AnnounceRaises
<1>19. ASSUME NEW w \in Worker, MarkFailedRaises(w)
      PROVE  PostedHasArguments'
  BY <1>19 DEF MarkFailedRaises
<1>20. ASSUME NEW w \in Worker, Crash(w)
      PROVE  PostedHasArguments'
  BY <1>20 DEF Crash
<1>21. ASSUME NEW w \in Worker, HardTimeLimit(w)
      PROVE  PostedHasArguments'
  BY <1>21 DEF HardTimeLimit
<1>22. ASSUME Reseed
      PROVE  PostedHasArguments'
  BY <1>22 DEF Reseed
<1>23. CASE UNCHANGED vars
  BY <1>23 DEF vars
<1>24. QED
  BY <1>1, <1>2, <1>3, <1>4, <1>5, <1>6, <1>7, <1>8, <1>9, <1>10, <1>11, <1>12,
     <1>13, <1>14, <1>15, <1>16, <1>17, <1>18, <1>19, <1>20, <1>21, <1>22, <1>23
  DEF Next, Api, Relay, TaskStep, Misfortune

(* Results precede the status, the status the announcement; only a re-seed  *)
(* takes results away, and with them the row.                               *)
LEMMA CompletedStep ==
  ASSUME RunInvariant, [Next]_vars
  PROVE  CompletedIsStored'
<1> USE NoneAssumption, FaultsAssumption
    DEF RunInvariant, TypeOK, Row, HasRow, IdleWorker, Holds, Goes, Publish,
        Fault, NoFault, UnpostedIsUnknown,
        CompletedIsStored
<1>1. ASSUME NEW c \in Scenario, NEW f \in FailureSet, create_scenario(c, f)
      PROVE  CompletedIsStored'
  BY <1>1 DEF create_scenario
<1>2. ASSUME NEW s \in Simulation, NEW f \in FailureSet, NEW c \in Scenario \cup {None}, create_simulation(s, f, c)
      PROVE  CompletedIsStored'
  BY <1>2 DEF create_simulation
<1>3. ASSUME NEW s \in Simulation, Dispatch(s)
      PROVE  CompletedIsStored'
  BY <1>3 DEF Dispatch
<1>4. ASSUME NEW s \in Simulation, DispatchRaises(s)
      PROVE  CompletedIsStored'
  BY <1>4 DEF DispatchRaises
<1>5. ASSUME NEW s \in Simulation, RecordDispatchFailure(s)
      PROVE  CompletedIsStored'
  BY <1>5 DEF RecordDispatchFailure
<1>6. ASSUME NEW s \in Simulation, RecordDispatchFailureRaises(s)
      PROVE  CompletedIsStored'
  BY <1>6 DEF RecordDispatchFailureRaises
<1>7. ASSUME NEW s \in Simulation, ApiCrash(s)
      PROVE  CompletedIsStored'
  BY <1>7 DEF ApiCrash
<1>8. ASSUME NEW s \in Simulation, Connect(s)
      PROVE  CompletedIsStored'
  BY <1>8 DEF Connect
<1>9. ASSUME NEW s \in Simulation, Subscribe(s)
      PROVE  CompletedIsStored'
  BY <1>9 DEF Subscribe
<1>10. ASSUME NEW w \in Worker, NEW s \in Simulation, Receive(w, s)
      PROVE  CompletedIsStored'
  BY <1>10 DEF Receive
<1>11. ASSUME NEW w \in Worker, Start(w)
      PROVE  CompletedIsStored'
  BY <1>11 DEF Start
<1>12. ASSUME NEW w \in Worker, Save(w)
      PROVE  CompletedIsStored'
  BY <1>12 DEF Save
<1>13. ASSUME NEW w \in Worker, Announce(w)
      PROVE  CompletedIsStored'
  BY <1>13 DEF Announce
<1>14. ASSUME NEW w \in Worker, MarkFailed(w)
      PROVE  CompletedIsStored'
  BY <1>14 DEF MarkFailed
<1>15. ASSUME NEW w \in Worker, AnnounceFailure(w)
      PROVE  CompletedIsStored'
  BY <1>15 DEF AnnounceFailure
<1>16. ASSUME NEW w \in Worker, Acknowledge(w)
      PROVE  CompletedIsStored'
  BY <1>16 DEF Acknowledge
<1>17. ASSUME NEW w \in Worker, Raise(w)
      PROVE  CompletedIsStored'
  BY <1>17 DEF Raise
<1>18. ASSUME NEW w \in Worker, AnnounceRaises(w)
      PROVE  CompletedIsStored'
  BY <1>18 DEF AnnounceRaises
<1>19. ASSUME NEW w \in Worker, MarkFailedRaises(w)
      PROVE  CompletedIsStored'
  BY <1>19 DEF MarkFailedRaises
<1>20. ASSUME NEW w \in Worker, Crash(w)
      PROVE  CompletedIsStored'
  BY <1>20 DEF Crash
<1>21. ASSUME NEW w \in Worker, HardTimeLimit(w)
      PROVE  CompletedIsStored'
  BY <1>21 DEF HardTimeLimit
<1>22. ASSUME Reseed
      PROVE  CompletedIsStored'
  BY <1>22 DEF Reseed
<1>23. CASE UNCHANGED vars
  BY <1>23 DEF vars
<1>24. QED
  BY <1>1, <1>2, <1>3, <1>4, <1>5, <1>6, <1>7, <1>8, <1>9, <1>10, <1>11, <1>12,
     <1>13, <1>14, <1>15, <1>16, <1>17, <1>18, <1>19, <1>20, <1>21, <1>22, <1>23
  DEF Next, Api, Relay, TaskStep, Misfortune

(* Save links a run to the scenario it was posted for, with its results; a  *)
(* re-seed is refused while there is a scenario.                            *)
LEMMA CachedStep ==
  ASSUME RunInvariant, [Next]_vars
  PROVE  CachedIsStored'
<1> USE NoneAssumption, FaultsAssumption
    DEF RunInvariant, TypeOK, Row, HasRow, IdleWorker, Holds, Goes, Publish,
        Fault, NoFault, UnpostedIsUnknown,
        PostedHasArguments, Arguments, ScenarioRow, CachedIsStored, CompletedIsStored
<1>1. ASSUME NEW c \in Scenario, NEW f \in FailureSet, create_scenario(c, f)
      PROVE  CachedIsStored'
  BY <1>1 DEF create_scenario
<1>2. ASSUME NEW s \in Simulation, NEW f \in FailureSet, NEW c \in Scenario \cup {None}, create_simulation(s, f, c)
      PROVE  CachedIsStored'
  BY <1>2 DEF create_simulation
<1>3. ASSUME NEW s \in Simulation, Dispatch(s)
      PROVE  CachedIsStored'
  BY <1>3 DEF Dispatch
<1>4. ASSUME NEW s \in Simulation, DispatchRaises(s)
      PROVE  CachedIsStored'
  BY <1>4 DEF DispatchRaises
<1>5. ASSUME NEW s \in Simulation, RecordDispatchFailure(s)
      PROVE  CachedIsStored'
  BY <1>5 DEF RecordDispatchFailure
<1>6. ASSUME NEW s \in Simulation, RecordDispatchFailureRaises(s)
      PROVE  CachedIsStored'
  BY <1>6 DEF RecordDispatchFailureRaises
<1>7. ASSUME NEW s \in Simulation, ApiCrash(s)
      PROVE  CachedIsStored'
  BY <1>7 DEF ApiCrash
<1>8. ASSUME NEW s \in Simulation, Connect(s)
      PROVE  CachedIsStored'
  BY <1>8 DEF Connect
<1>9. ASSUME NEW s \in Simulation, Subscribe(s)
      PROVE  CachedIsStored'
  BY <1>9 DEF Subscribe
<1>10. ASSUME NEW w \in Worker, NEW s \in Simulation, Receive(w, s)
      PROVE  CachedIsStored'
  BY <1>10 DEF Receive
<1>11. ASSUME NEW w \in Worker, Start(w)
      PROVE  CachedIsStored'
  BY <1>11 DEF Start
<1>12. ASSUME NEW w \in Worker, Save(w)
      PROVE  CachedIsStored'
  BY <1>12 DEF Save
<1>13. ASSUME NEW w \in Worker, Announce(w)
      PROVE  CachedIsStored'
  BY <1>13 DEF Announce
<1>14. ASSUME NEW w \in Worker, MarkFailed(w)
      PROVE  CachedIsStored'
  BY <1>14 DEF MarkFailed
<1>15. ASSUME NEW w \in Worker, AnnounceFailure(w)
      PROVE  CachedIsStored'
  BY <1>15 DEF AnnounceFailure
<1>16. ASSUME NEW w \in Worker, Acknowledge(w)
      PROVE  CachedIsStored'
  BY <1>16 DEF Acknowledge
<1>17. ASSUME NEW w \in Worker, Raise(w)
      PROVE  CachedIsStored'
  BY <1>17 DEF Raise
<1>18. ASSUME NEW w \in Worker, AnnounceRaises(w)
      PROVE  CachedIsStored'
  BY <1>18 DEF AnnounceRaises
<1>19. ASSUME NEW w \in Worker, MarkFailedRaises(w)
      PROVE  CachedIsStored'
  BY <1>19 DEF MarkFailedRaises
<1>20. ASSUME NEW w \in Worker, Crash(w)
      PROVE  CachedIsStored'
  BY <1>20 DEF Crash
<1>21. ASSUME NEW w \in Worker, HardTimeLimit(w)
      PROVE  CachedIsStored'
  BY <1>21 DEF HardTimeLimit
<1>22. ASSUME Reseed
      PROVE  CachedIsStored'
  BY <1>22 DEF Reseed
<1>23. CASE UNCHANGED vars
  BY <1>23 DEF vars
<1>24. QED
  BY <1>1, <1>2, <1>3, <1>4, <1>5, <1>6, <1>7, <1>8, <1>9, <1>10, <1>11, <1>12,
     <1>13, <1>14, <1>15, <1>16, <1>17, <1>18, <1>19, <1>20, <1>21, <1>22, <1>23
  DEF Next, Api, Relay, TaskStep, Misfortune

(* The invariant holds in every reachable state, whatever the faults.       *)
THEOREM RunInvariantHolds == Spec => []RunInvariant
<1>1. Init => RunInvariant
  BY NoneAssumption, FaultsAssumption
  DEF Init, RunInvariant, TypeOK, IdleWorker, Holds, HasRow, Row,
      UnpostedIsUnknown, PostedHasArguments, CompletedIsStored, CachedIsStored
<1>2. RunInvariant /\ [Next]_vars => RunInvariant'
  BY TypeStep, UnpostedStep, PostedStep, CompletedStep, CachedStep DEF RunInvariant
<1>3. QED
  BY <1>1, <1>2, PTL DEF Spec

(* Every state of the run's life is well typed.                             *)
THEOREM TypeCorrect == Spec => []TypeOK
<1>1. RunInvariant => TypeOK
  BY DEF RunInvariant
<1>2. QED
  BY <1>1, RunInvariantHolds, PTL

(* A completed row holds waves, and a scenario shows one of its own stored  *)
(* runs as soon as it has one (runner.py:165-186), for any number of runs,  *)
(* scenarios, workers and faults.                                           *)
THEOREM ServedIsStored == Spec => []ServedResultsAreStored
<1>1. RunInvariant => ServedResultsAreStored
  <2> SUFFICES ASSUME RunInvariant
               PROVE  ServedResultsAreStored
    OBVIOUS
  <2>1. \A s \in Simulation : recommendations_served(s) => stored[s]
    BY DEF RunInvariant, CompletedIsStored, recommendations_served
  <2>2. \A s \in Simulation : stored[s] => request[s] # "idle"
    BY DEF RunInvariant, UnpostedIsUnknown
  <2>3. ASSUME NEW c \in Scenario, scenario[c] # None
        PROVE  Shown(c) \in Simulation \cup {None}
    BY <2>3 DEF Shown, RunInvariant, TypeOK
  <2>4. ASSUME NEW c \in Scenario, scenario[c] # None, Shown(c) # None
        PROVE  Shown(c) \in StoredRuns(c)
    <3>1. Shown(c) \in Simulation /\ scenario[c].cached_result_id = Shown(c)
      BY <2>3, <2>4 DEF Shown
    <3>2. request[Shown(c)] # "idle" /\ posted[Shown(c)].scenario = c /\ stored[Shown(c)]
      BY <2>4, <3>1 DEF RunInvariant, CachedIsStored
    <3>3. QED
      BY <3>1, <3>2 DEF StoredRuns
  <2>5. ASSUME NEW c \in Scenario, scenario[c] # None, StoredRuns(c) # {}
        PROVE  Shown(c) # None
    <3>1. PICK s \in Simulation : stored[s] /\ posted[s].scenario = c
      BY <2>5 DEF StoredRuns
    <3>2. QED
      BY <2>2, <2>5, <3>1 DEF RunInvariant, CachedIsStored, Shown
  <2>6. QED
    BY <2>1, <2>3, <2>4, <2>5 DEF ServedResultsAreStored
<1>2. QED
  BY <1>1, RunInvariantHolds, PTL

(* A client told that a run completed can read it (runner.py:186-189).      *)
THEOREM ToldCanRead == Spec => []ToldCompletedCanRead
<1>1. RunInvariant => ToldCompletedCanRead
  BY DEF RunInvariant, CompletedIsStored, ToldCompletedCanRead
<1>2. QED
  BY <1>1, RunInvariantHolds, PTL

(* Only the deletion of its row takes a run's results away.                 *)
LEMMA ResultsSurviveStep ==
  ASSUME RunInvariant, [Next]_vars, NEW s \in Simulation, stored[s], ~ stored'[s]
  PROVE  status'[s] = "gone"
<1>1. CASE Reseed
  BY <1>1 DEF Reseed, RunInvariant, TypeOK, CompletedIsStored
<1>2. ASSUME NEW w \in Worker, Save(w)
      PROVE  stored'[s]
  BY <1>2 DEF Save, RunInvariant, TypeOK
<1>3. CASE UNCHANGED stored
  BY <1>3
<1>4. QED
  BY <1>1, <1>2, <1>3
  DEF Next, Api, Relay, TaskStep, Misfortune, vars, create_scenario, create_simulation,
      Dispatch, DispatchRaises, RecordDispatchFailure, RecordDispatchFailureRaises,
      ApiCrash, Connect, Subscribe, Receive, Start, Announce, MarkFailed,
      AnnounceFailure, Acknowledge, Raise, AnnounceRaises, MarkFailedRaises, Crash,
      HardTimeLimit

(* Stored results survive every step but the deletion of their row.         *)
THEOREM ResultsSurvive == Spec => StoredResultsSurvive
<1>1. RunInvariant /\ [Next]_vars =>
        [\A s \in Simulation : stored[s] /\ ~ stored'[s] => status'[s] = "gone"]_vars
  BY ResultsSurviveStep
<1>2. QED
  BY <1>1, RunInvariantHolds, PTL DEF Spec, StoredResultsSurvive

--------------------------------------------------------------------------------
(* Delivery *)

(* Without a hard limit and with a database that records failures, a worker *)
(* that is done with an open run has settled it, or gave it back.           *)
LEMMA OpenStep ==
  ASSUME RunInvariant, OpenIsTracked,
         Faults \cap {"hard_limit", "database"} = {}, [Next]_vars
  PROVE  OpenIsTracked'
<1> USE NoneAssumption, FaultsAssumption
    DEF RunInvariant, TypeOK, Row, HasRow, IdleWorker, Holds, Goes, Publish,
        Fault, NoFault, UnpostedIsUnknown,
        OpenIsTracked
<1>1. ASSUME NEW c \in Scenario, NEW f \in FailureSet, create_scenario(c, f)
      PROVE  OpenIsTracked'
  BY <1>1 DEF create_scenario
<1>2. ASSUME NEW s \in Simulation, NEW f \in FailureSet, NEW c \in Scenario \cup {None}, create_simulation(s, f, c)
      PROVE  OpenIsTracked'
  BY <1>2 DEF create_simulation
<1>3. ASSUME NEW s \in Simulation, Dispatch(s)
      PROVE  OpenIsTracked'
  BY <1>3 DEF Dispatch
<1>4. ASSUME NEW s \in Simulation, DispatchRaises(s)
      PROVE  OpenIsTracked'
  BY <1>4 DEF DispatchRaises
<1>5. ASSUME NEW s \in Simulation, RecordDispatchFailure(s)
      PROVE  OpenIsTracked'
  BY <1>5 DEF RecordDispatchFailure
<1>6. ASSUME NEW s \in Simulation, RecordDispatchFailureRaises(s)
      PROVE  OpenIsTracked'
  BY <1>6 DEF RecordDispatchFailureRaises
<1>7. ASSUME NEW s \in Simulation, ApiCrash(s)
      PROVE  OpenIsTracked'
  BY <1>7 DEF ApiCrash
<1>8. ASSUME NEW s \in Simulation, Connect(s)
      PROVE  OpenIsTracked'
  BY <1>8 DEF Connect
<1>9. ASSUME NEW s \in Simulation, Subscribe(s)
      PROVE  OpenIsTracked'
  BY <1>9 DEF Subscribe
<1>10. ASSUME NEW w \in Worker, NEW s \in Simulation, Receive(w, s)
      PROVE  OpenIsTracked'
  BY <1>10 DEF Receive
<1>11. ASSUME NEW w \in Worker, Start(w)
      PROVE  OpenIsTracked'
  BY <1>11, SMTT(30) DEF Start
<1>12. ASSUME NEW w \in Worker, Save(w)
      PROVE  OpenIsTracked'
  BY <1>12 DEF Save
<1>13. ASSUME NEW w \in Worker, Announce(w)
      PROVE  OpenIsTracked'
  BY <1>13 DEF Announce
<1>14. ASSUME NEW w \in Worker, MarkFailed(w)
      PROVE  OpenIsTracked'
  BY <1>14 DEF MarkFailed
<1>15. ASSUME NEW w \in Worker, AnnounceFailure(w)
      PROVE  OpenIsTracked'
  BY <1>15 DEF AnnounceFailure
<1>16. ASSUME NEW w \in Worker, Acknowledge(w)
      PROVE  OpenIsTracked'
  BY <1>16 DEF Acknowledge
<1>17. ASSUME NEW w \in Worker, Raise(w)
      PROVE  OpenIsTracked'
  BY <1>17 DEF Raise
<1>18. ASSUME NEW w \in Worker, AnnounceRaises(w)
      PROVE  OpenIsTracked'
  BY <1>18 DEF AnnounceRaises
<1>19. ASSUME NEW w \in Worker, MarkFailedRaises(w)
      PROVE  OpenIsTracked'
  BY <1>19 DEF MarkFailedRaises
<1>20. ASSUME NEW w \in Worker, Crash(w)
      PROVE  OpenIsTracked'
  BY <1>20 DEF Crash
<1>21. ASSUME NEW w \in Worker, HardTimeLimit(w)
      PROVE  OpenIsTracked'
  BY <1>21 DEF HardTimeLimit
<1>22. ASSUME Reseed
      PROVE  OpenIsTracked'
  BY <1>22 DEF Reseed
<1>23. CASE UNCHANGED vars
  BY <1>23 DEF vars
<1>24. QED
  BY <1>1, <1>2, <1>3, <1>4, <1>5, <1>6, <1>7, <1>8, <1>9, <1>10, <1>11, <1>12,
     <1>13, <1>14, <1>15, <1>16, <1>17, <1>18, <1>19, <1>20, <1>21, <1>22, <1>23
  DEF Next, Api, Relay, TaskStep, Misfortune

(* At-least-once delivery (celery_app.py:24-25): an accepted run that is    *)
(* open is never forgotten, if the hard limit never strikes and the         *)
(* database takes the failures it is given; any other fault is allowed.     *)
THEOREM AcceptedTracked ==
  ASSUME Faults \cap {"hard_limit", "database"} = {}
  PROVE  Spec => []AcceptedIsTracked
<1>1. Init => OpenIsTracked
  BY DEF Init, OpenIsTracked
<1>2. RunInvariant /\ OpenIsTracked /\ [Next]_vars => OpenIsTracked'
  BY OpenStep
<1>3. OpenIsTracked => AcceptedIsTracked
  BY DEF OpenIsTracked, AcceptedIsTracked
<1>4. QED
  BY <1>1, <1>2, <1>3, RunInvariantHolds, PTL DEF Spec

(* A message is created once, and moves between the queue and one worker.   *)
LEMMA MessageStep ==
  ASSUME RunInvariant, OneMessage, "duplicate" \notin Faults, [Next]_vars
  PROVE  OneMessage'
<1> USE NoneAssumption, FaultsAssumption
    DEF RunInvariant, TypeOK, Row, HasRow, IdleWorker, Holds, Goes, Publish,
        Fault, NoFault, OneMessage,
        OneExecutionAtATime
<1>1. ASSUME NEW c \in Scenario, NEW f \in FailureSet, create_scenario(c, f)
      PROVE  OneMessage'
  BY <1>1 DEF create_scenario
<1>2. ASSUME NEW s \in Simulation, NEW f \in FailureSet, NEW c \in Scenario \cup {None}, create_simulation(s, f, c)
      PROVE  OneMessage'
  BY <1>2 DEF create_simulation
<1>3. ASSUME NEW s \in Simulation, Dispatch(s)
      PROVE  OneMessage'
  BY <1>3 DEF Dispatch
<1>4. ASSUME NEW s \in Simulation, DispatchRaises(s)
      PROVE  OneMessage'
  BY <1>4 DEF DispatchRaises
<1>5. ASSUME NEW s \in Simulation, RecordDispatchFailure(s)
      PROVE  OneMessage'
  BY <1>5 DEF RecordDispatchFailure
<1>6. ASSUME NEW s \in Simulation, RecordDispatchFailureRaises(s)
      PROVE  OneMessage'
  BY <1>6 DEF RecordDispatchFailureRaises
<1>7. ASSUME NEW s \in Simulation, ApiCrash(s)
      PROVE  OneMessage'
  BY <1>7 DEF ApiCrash
<1>8. ASSUME NEW s \in Simulation, Connect(s)
      PROVE  OneMessage'
  BY <1>8 DEF Connect
<1>9. ASSUME NEW s \in Simulation, Subscribe(s)
      PROVE  OneMessage'
  BY <1>9 DEF Subscribe
<1>10. ASSUME NEW w \in Worker, NEW s \in Simulation, Receive(w, s)
      PROVE  OneMessage'
  BY <1>10 DEF Receive
<1>11. ASSUME NEW w \in Worker, Start(w)
      PROVE  OneMessage'
  BY <1>11 DEF Start
<1>12. ASSUME NEW w \in Worker, Save(w)
      PROVE  OneMessage'
  <2>1. queue' = queue /\ request' = request
    BY <1>12 DEF Save
  <2>2. \A x \in Worker, r \in Simulation : Holds(x, r)' <=> Holds(x, r)
    BY <1>12, SaveKeepsHolders
  <2> HIDE DEF Holds
  <2>3. QED
    BY <2>1, <2>2
<1>13. ASSUME NEW w \in Worker, Announce(w)
      PROVE  OneMessage'
  BY <1>13 DEF Announce
<1>14. ASSUME NEW w \in Worker, MarkFailed(w)
      PROVE  OneMessage'
  BY <1>14 DEF MarkFailed
<1>15. ASSUME NEW w \in Worker, AnnounceFailure(w)
      PROVE  OneMessage'
  BY <1>15 DEF AnnounceFailure
<1>16. ASSUME NEW w \in Worker, Acknowledge(w)
      PROVE  OneMessage'
  BY <1>16 DEF Acknowledge
<1>17. ASSUME NEW w \in Worker, Raise(w)
      PROVE  OneMessage'
  BY <1>17 DEF Raise
<1>18. ASSUME NEW w \in Worker, AnnounceRaises(w)
      PROVE  OneMessage'
  BY <1>18 DEF AnnounceRaises
<1>19. ASSUME NEW w \in Worker, MarkFailedRaises(w)
      PROVE  OneMessage'
  BY <1>19 DEF MarkFailedRaises
<1>20. ASSUME NEW w \in Worker, Crash(w)
      PROVE  OneMessage'
  BY <1>20 DEF Crash
<1>21. ASSUME NEW w \in Worker, HardTimeLimit(w)
      PROVE  OneMessage'
  BY <1>21 DEF HardTimeLimit
<1>22. ASSUME Reseed
      PROVE  OneMessage'
  BY <1>22 DEF Reseed
<1>23. CASE UNCHANGED vars
  BY <1>23 DEF vars
<1>24. QED
  BY <1>1, <1>2, <1>3, <1>4, <1>5, <1>6, <1>7, <1>8, <1>9, <1>10, <1>11, <1>12,
     <1>13, <1>14, <1>15, <1>16, <1>17, <1>18, <1>19, <1>20, <1>21, <1>22, <1>23
  DEF Next, Api, Relay, TaskStep, Misfortune

(* No run is executed twice at once (celery_app.py:24-25), if the broker    *)
(* client never repeats a publish; any other fault is allowed.              *)
THEOREM OneExecution ==
  ASSUME "duplicate" \notin Faults
  PROVE  Spec => []OneExecutionAtATime
<1>1. Init => OneMessage
  BY DEF Init, OneMessage, OneExecutionAtATime, Holds, IdleWorker
<1>2. RunInvariant /\ OneMessage /\ [Next]_vars => OneMessage'
  BY MessageStep
<1>3. OneMessage => OneExecutionAtATime
  BY DEF OneMessage
<1>4. QED
  BY <1>1, <1>2, <1>3, RunInvariantHolds, PTL DEF Spec

(* Before the first fault, Save finds its run open or its row gone ...      *)
LEMMA SaveFindsOpen ==
  ASSUME RunInvariant, FaultlessPlaces, faults = 0, NEW w \in Worker, Save(w),
         NEW r \in Simulation
  PROVE  /\ worker[w].job \in Simulation
         /\ Holds(w, worker[w].job)
         /\ status[worker[w].job] \in {"running", "gone"}
         /\ status[r] \in Settled => status'[r] = status[r]
<1>1. worker[w].at = "running" /\ worker[w].job \in Simulation
  BY SaveEffect
<1>2. Holds(w, worker[w].job) /\ status[worker[w].job] \in {"running", "gone"}
  BY <1>1 DEF FaultlessPlaces, Holds
<1>3. status[r] \in Settled => status'[r] = status[r]
  <2>1. r # worker[w].job => status'[r] = status[r]
    BY <1>1, SaveEffect DEF RunInvariant, TypeOK
  <2>2. QED
    BY <1>2, <2>1 DEF Settled
<1>4. QED
  BY <1>1, <1>2, <1>3

(* ... and leaves the places of the runs as they should be.                 *)
LEMMA SaveKeepsPlaces ==
  ASSUME RunInvariant, FaultlessPlaces, NEW w \in Worker, Save(w)
  PROVE  FaultlessPlaces'
<1> DEFINE s == worker[w].job
<1>1. /\ worker[w].at = "running"
      /\ s \in Simulation
      /\ worker' = [worker EXCEPT ![w] = [at |-> IF HasRow(s) THEN "saved" ELSE "recovering",
                                           job |-> s]]
      /\ status' = [status EXCEPT ![s] = IF HasRow(s) THEN "completed" ELSE @]
      /\ UNCHANGED <<queue, request, faults>>
  BY SaveEffect
<1>2. \A x \in Worker, r \in Simulation : Holds(x, r)' <=> Holds(x, r)
  BY SaveKeepsHolders
<1>3. SUFFICES ASSUME faults = 0
               PROVE  FaultlessPlaces'
  BY <1>1 DEF FaultlessPlaces
<1>4. OneMessage'
  BY <1>1, <1>2, <1>3 DEF FaultlessPlaces, OneMessage, OneExecutionAtATime
<1>5. Holds(w, s) /\ status[s] \in {"running", "gone"}
  BY <1>1, <1>3, SaveFindsOpen
<1>6. request[s] # "dispatching" /\ queue[s] = 0
  BY <1>1, <1>3, <1>5 DEF FaultlessPlaces, OneMessage, OneExecutionAtATime
<1>7. ASSUME NEW r \in Simulation, r # s
      PROVE  status'[r] = status[r]
  BY <1>1, <1>7 DEF RunInvariant, TypeOK
<1>8. ASSUME NEW r \in Simulation
      PROVE  /\ request'[r] # "undoing"
             /\ stored'[r] => status'[r] = "completed"
             /\ request'[r] = "dispatching" \/ queue'[r] > 0 => status'[r] \in {"pending", "gone"}
  <2>1. stored'[r] => status'[r] = "completed"
    BY <1>1, <1>3 DEF Save, FaultlessPlaces, RunInvariant, TypeOK, CompletedIsStored
  <2>2. QED
    BY <1>1, <1>3, <1>6, <1>7, <2>1 DEF FaultlessPlaces, RunInvariant, TypeOK
<1>9. ASSUME NEW r \in Simulation, NEW x \in Worker, Holds(x, r)'
      PROVE  /\ worker'[x].at = "received" => status'[r] \in {"pending", "gone"}
             /\ worker'[x].at = "running" => status'[r] \in {"running", "gone"}
             /\ worker'[x].at \in {"recovering", "marked"} => status'[r] = "gone"
  <2>1. CASE x = w
    <3>1. worker'[w].at = IF HasRow(s) THEN "saved" ELSE "recovering"
      BY <1>1 DEF RunInvariant, TypeOK
    <3>2. r = s
      BY <1>2, <1>9, <2>1 DEF Holds
    <3>3. ~ HasRow(s) => status'[s] = "gone"
      BY <1>1, <1>5 DEF HasRow, Row, RunInvariant, TypeOK
    <3>4. QED
      BY <2>1, <3>1, <3>2, <3>3
  <2>2. CASE x # w
    <3>1. worker'[x] = worker[x]
      BY <1>1, <2>2 DEF RunInvariant, TypeOK
    <3>2. Holds(x, r) /\ r # s
      BY <1>2, <1>3, <1>5, <1>9, <2>2 DEF FaultlessPlaces, OneMessage, OneExecutionAtATime
    <3>3. QED
      BY <1>3, <1>7, <3>1, <3>2 DEF FaultlessPlaces
  <2>3. QED
    BY <2>1, <2>2
<1>10. QED
  BY <1>4, <1>8, <1>9 DEF FaultlessPlaces

(* Until the first fault, a run is handled once and in order.               *)
LEMMA PlacesStep ==
  ASSUME RunInvariant, FaultlessPlaces, [Next]_vars
  PROVE  FaultlessPlaces'
<1> USE NoneAssumption, FaultsAssumption
    DEF RunInvariant, TypeOK, Row, HasRow, IdleWorker, Holds, Goes, Publish,
        Fault, NoFault, UnpostedIsUnknown,
        OneMessage, OneExecutionAtATime, FaultlessPlaces
<1>1. ASSUME NEW c \in Scenario, NEW f \in FailureSet, create_scenario(c, f)
      PROVE  FaultlessPlaces'
  BY <1>1 DEF create_scenario
<1>2. ASSUME NEW s \in Simulation, NEW f \in FailureSet, NEW c \in Scenario \cup {None}, create_simulation(s, f, c)
      PROVE  FaultlessPlaces'
  BY <1>2 DEF create_simulation
<1>3. ASSUME NEW s \in Simulation, Dispatch(s)
      PROVE  FaultlessPlaces'
  BY <1>3 DEF Dispatch
<1>4. ASSUME NEW s \in Simulation, DispatchRaises(s)
      PROVE  FaultlessPlaces'
  BY <1>4 DEF DispatchRaises
<1>5. ASSUME NEW s \in Simulation, RecordDispatchFailure(s)
      PROVE  FaultlessPlaces'
  BY <1>5 DEF RecordDispatchFailure
<1>6. ASSUME NEW s \in Simulation, RecordDispatchFailureRaises(s)
      PROVE  FaultlessPlaces'
  BY <1>6 DEF RecordDispatchFailureRaises
<1>7. ASSUME NEW s \in Simulation, ApiCrash(s)
      PROVE  FaultlessPlaces'
  BY <1>7 DEF ApiCrash
<1>8. ASSUME NEW s \in Simulation, Connect(s)
      PROVE  FaultlessPlaces'
  BY <1>8 DEF Connect
<1>9. ASSUME NEW s \in Simulation, Subscribe(s)
      PROVE  FaultlessPlaces'
  BY <1>9 DEF Subscribe
<1>10. ASSUME NEW w \in Worker, NEW s \in Simulation, Receive(w, s)
      PROVE  FaultlessPlaces'
  BY <1>10 DEF Receive
<1>11. ASSUME NEW w \in Worker, Start(w)
      PROVE  FaultlessPlaces'
  BY <1>11 DEF Start
<1>12. ASSUME NEW w \in Worker, Save(w)
      PROVE  FaultlessPlaces'
  BY <1>12, SaveKeepsPlaces
<1>13. ASSUME NEW w \in Worker, Announce(w)
      PROVE  FaultlessPlaces'
  BY <1>13 DEF Announce
<1>14. ASSUME NEW w \in Worker, MarkFailed(w)
      PROVE  FaultlessPlaces'
  BY <1>14 DEF MarkFailed
<1>15. ASSUME NEW w \in Worker, AnnounceFailure(w)
      PROVE  FaultlessPlaces'
  BY <1>15 DEF AnnounceFailure
<1>16. ASSUME NEW w \in Worker, Acknowledge(w)
      PROVE  FaultlessPlaces'
  BY <1>16 DEF Acknowledge
<1>17. ASSUME NEW w \in Worker, Raise(w)
      PROVE  FaultlessPlaces'
  BY <1>17 DEF Raise
<1>18. ASSUME NEW w \in Worker, AnnounceRaises(w)
      PROVE  FaultlessPlaces'
  BY <1>18 DEF AnnounceRaises
<1>19. ASSUME NEW w \in Worker, MarkFailedRaises(w)
      PROVE  FaultlessPlaces'
  BY <1>19 DEF MarkFailedRaises
<1>20. ASSUME NEW w \in Worker, Crash(w)
      PROVE  FaultlessPlaces'
  BY <1>20 DEF Crash
<1>21. ASSUME NEW w \in Worker, HardTimeLimit(w)
      PROVE  FaultlessPlaces'
  BY <1>21 DEF HardTimeLimit
<1>22. ASSUME Reseed
      PROVE  FaultlessPlaces'
  BY <1>22 DEF Reseed
<1>23. CASE UNCHANGED vars
  BY <1>23 DEF vars
<1>24. QED
  BY <1>1, <1>2, <1>3, <1>4, <1>5, <1>6, <1>7, <1>8, <1>9, <1>10, <1>11, <1>12,
     <1>13, <1>14, <1>15, <1>16, <1>17, <1>18, <1>19, <1>20, <1>21, <1>22, <1>23
  DEF Next, Api, Relay, TaskStep, Misfortune

(* The four writes of a status, before the first fault: each finds its run  *)
(* open, or its row gone.                                                   *)
LEMMA SettledStep ==
  ASSUME RunInvariant, FaultlessPlaces, NEW r \in Simulation,
         status[r] \in Settled, faults = 0, [Next]_vars
  PROVE  status'[r] \notin Row \ {status[r]}
<1> USE NoneAssumption, FaultsAssumption
    DEF RunInvariant, TypeOK, Row, HasRow, IdleWorker, Holds, Goes, Publish,
        Fault, NoFault, UnpostedIsUnknown,
        FaultlessPlaces, Settled
<1>1. ASSUME NEW c \in Scenario, NEW f \in FailureSet, create_scenario(c, f)
      PROVE  status'[r] \notin Row \ {status[r]}
  BY <1>1 DEF create_scenario
<1>2. ASSUME NEW s \in Simulation, NEW f \in FailureSet, NEW c \in Scenario \cup {None}, create_simulation(s, f, c)
      PROVE  status'[r] \notin Row \ {status[r]}
  BY <1>2 DEF create_simulation
<1>3. ASSUME NEW s \in Simulation, Dispatch(s)
      PROVE  status'[r] \notin Row \ {status[r]}
  BY <1>3 DEF Dispatch
<1>4. ASSUME NEW s \in Simulation, DispatchRaises(s)
      PROVE  status'[r] \notin Row \ {status[r]}
  BY <1>4 DEF DispatchRaises
<1>5. ASSUME NEW s \in Simulation, RecordDispatchFailure(s)
      PROVE  status'[r] \notin Row \ {status[r]}
  BY <1>5 DEF RecordDispatchFailure
<1>6. ASSUME NEW s \in Simulation, RecordDispatchFailureRaises(s)
      PROVE  status'[r] \notin Row \ {status[r]}
  BY <1>6 DEF RecordDispatchFailureRaises
<1>7. ASSUME NEW s \in Simulation, ApiCrash(s)
      PROVE  status'[r] \notin Row \ {status[r]}
  BY <1>7 DEF ApiCrash
<1>8. ASSUME NEW s \in Simulation, Connect(s)
      PROVE  status'[r] \notin Row \ {status[r]}
  BY <1>8 DEF Connect
<1>9. ASSUME NEW s \in Simulation, Subscribe(s)
      PROVE  status'[r] \notin Row \ {status[r]}
  BY <1>9 DEF Subscribe
<1>10. ASSUME NEW w \in Worker, NEW s \in Simulation, Receive(w, s)
      PROVE  status'[r] \notin Row \ {status[r]}
  BY <1>10 DEF Receive
<1>11. ASSUME NEW w \in Worker, Start(w)
      PROVE  status'[r] \notin Row \ {status[r]}
  BY <1>11 DEF Start
<1>12. ASSUME NEW w \in Worker, Save(w)
      PROVE  status'[r] \notin Row \ {status[r]}
  BY <1>12, SaveFindsOpen
<1>13. ASSUME NEW w \in Worker, Announce(w)
      PROVE  status'[r] \notin Row \ {status[r]}
  BY <1>13 DEF Announce
<1>14. ASSUME NEW w \in Worker, MarkFailed(w)
      PROVE  status'[r] \notin Row \ {status[r]}
  BY <1>14 DEF MarkFailed
<1>15. ASSUME NEW w \in Worker, AnnounceFailure(w)
      PROVE  status'[r] \notin Row \ {status[r]}
  BY <1>15 DEF AnnounceFailure
<1>16. ASSUME NEW w \in Worker, Acknowledge(w)
      PROVE  status'[r] \notin Row \ {status[r]}
  BY <1>16 DEF Acknowledge
<1>17. ASSUME NEW w \in Worker, Raise(w)
      PROVE  status'[r] \notin Row \ {status[r]}
  BY <1>17 DEF Raise
<1>18. ASSUME NEW w \in Worker, AnnounceRaises(w)
      PROVE  status'[r] \notin Row \ {status[r]}
  BY <1>18 DEF AnnounceRaises
<1>19. ASSUME NEW w \in Worker, MarkFailedRaises(w)
      PROVE  status'[r] \notin Row \ {status[r]}
  BY <1>19 DEF MarkFailedRaises
<1>20. ASSUME NEW w \in Worker, Crash(w)
      PROVE  status'[r] \notin Row \ {status[r]}
  BY <1>20 DEF Crash
<1>21. ASSUME NEW w \in Worker, HardTimeLimit(w)
      PROVE  status'[r] \notin Row \ {status[r]}
  BY <1>21 DEF HardTimeLimit
<1>22. ASSUME Reseed
      PROVE  status'[r] \notin Row \ {status[r]}
  BY <1>22 DEF Reseed
<1>23. CASE UNCHANGED vars
  BY <1>23 DEF vars
<1>24. QED
  BY <1>1, <1>2, <1>3, <1>4, <1>5, <1>6, <1>7, <1>8, <1>9, <1>10, <1>11, <1>12,
     <1>13, <1>14, <1>15, <1>16, <1>17, <1>18, <1>19, <1>20, <1>21, <1>22, <1>23
  DEF Next, Api, Relay, TaskStep, Misfortune

(* Without a fault, a run that ended stays as it ended                      *)
(* (runner.py:107-112, 191-204).                                            *)
THEOREM SettledIsFinal == Spec => SettledStatusIsFinalWithoutFaults
<1>1. Init => FaultlessPlaces
  BY DEF Init, FaultlessPlaces, OneMessage, OneExecutionAtATime, Holds, IdleWorker
<1>2. RunInvariant /\ FaultlessPlaces /\ [Next]_vars => FaultlessPlaces'
  BY PlacesStep
<1>3. RunInvariant /\ FaultlessPlaces /\ [Next]_vars =>
        [\A s \in Simulation :
           status[s] \in Settled /\ status'[s] \in Row \ {status[s]} => faults > 0]_vars
  BY SettledStep, FaultsAssumption DEF RunInvariant, TypeOK
<1>4. QED
  BY <1>1, <1>2, <1>3, RunInvariantHolds, PTL DEF Spec, SettledStatusIsFinalWithoutFaults

(* Save makes the run it stores the one its scenario shows, and no other.   *)
LEMMA SaveShows ==
  ASSUME RunInvariant, NEW w \in Worker, Save(w), NEW c \in Scenario
  PROVE  /\ Shown(c)' # Shown(c) => Shown(c)' = worker[w].job
         /\ stored'[worker[w].job] /\ posted[worker[w].job].scenario = c
              => Shown(c)' = worker[w].job \/ stored[worker[w].job]
         /\ \A s \in Simulation \ {worker[w].job} : stored'[s] = stored[s]
<1> DEFINE s == worker[w].job
<1>1. s \in Simulation /\ request[s] # "idle"
  BY SaveEffect DEF Save, RunInvariant, TypeOK, IdleWorker, UnpostedIsUnknown, Holds
<1>2. posted[s].scenario = c => scenario[c] \in ScenarioRow
  BY <1>1, NoneAssumption DEF RunInvariant, PostedHasArguments, Arguments
<1>3. CASE posted[s].scenario = c /\ HasRow(s)
  <2>1. scenario'[c] = [scenario[c] EXCEPT !.cached_result_id = s]
    BY <1>1, <1>3, NoneAssumption DEF Save, RunInvariant, TypeOK
  <2>2. scenario'[c] \in ScenarioRow /\ scenario'[c].cached_result_id = s
    BY <1>1, <1>2, <1>3, <2>1 DEF ScenarioRow
  <2>3. Shown(c)' = s
    BY <2>2, NoneAssumption DEF Shown, ScenarioRow
  <2>4. QED
    BY <1>1, <1>3, <2>3 DEF Save, RunInvariant, TypeOK
<1>4. CASE posted[s].scenario # c \/ ~ HasRow(s)
  <2>1. scenario'[c] = scenario[c]
    BY <1>1, <1>4 DEF Save, RunInvariant, TypeOK, PostedHasArguments, Arguments
  <2>2. Shown(c)' = Shown(c)
    BY <2>1 DEF Shown
  <2>3. posted[s].scenario = c => stored' = stored
    BY <1>4 DEF Save
  <2>4. \A x \in Simulation \ {s} : stored'[x] = stored[x]
    BY <1>1 DEF Save, RunInvariant, TypeOK
  <2>5. QED
    BY <2>2, <2>3, <2>4
<1>5. QED
  BY <1>3, <1>4

(* Only Save changes what a scenario shows, or stores results.              *)
LEMMA ShowsStep ==
  ASSUME RunInvariant, FaultlessPlaces, [Next]_vars, NEW c \in Scenario, NEW r \in Simulation
  PROVE  /\ r \in StoredRuns(c)' \ StoredRuns(c) => Shown(c)' = r
         /\ Shown(c)' = r /\ Shown(c) # r /\ r \in StoredRuns(c) => faults # 0
<1>1. ASSUME NEW w \in Worker, Save(w)
      PROVE  /\ r \in StoredRuns(c)' \ StoredRuns(c) => Shown(c)' = r
             /\ Shown(c)' = r /\ Shown(c) # r /\ r \in StoredRuns(c) => faults # 0
  <2>1. posted' = posted
    BY <1>1 DEF Save
  <2>2. r \in StoredRuns(c)' \ StoredRuns(c) => Shown(c)' = r
    <3> SUFFICES ASSUME r \in StoredRuns(c)' \ StoredRuns(c)
                 PROVE  Shown(c)' = r
      OBVIOUS
    <3>1. stored'[r] /\ ~ stored[r] /\ posted[r].scenario = c
      BY <2>1 DEF StoredRuns
    <3>2. r = worker[w].job
      BY <1>1, <3>1, SaveShows
    <3>3. QED
      BY <1>1, <3>1, <3>2, SaveShows
  <2>3. ASSUME Shown(c)' = r, Shown(c) # r, r \in StoredRuns(c), faults = 0
        PROVE  FALSE
    <3>1. r = worker[w].job
      BY <1>1, <2>3, SaveShows
    <3>2. status[r] = "completed"
      BY <2>3 DEF FaultlessPlaces, StoredRuns
    <3>3. QED
      BY <1>1, <2>3, <3>1, <3>2, SaveFindsOpen
  <2>4. QED
    BY <2>2, <2>3
<1>2. ASSUME NEW d \in Scenario, NEW f \in FailureSet, create_scenario(d, f)
      PROVE  StoredRuns(c)' = StoredRuns(c) /\ (Shown(c)' # r \/ Shown(c) = r)
  BY <1>2, NoneAssumption DEF create_scenario, Shown, StoredRuns, RunInvariant, TypeOK
<1>3. CASE Reseed
  BY <1>3 DEF Reseed, StoredRuns, Shown, RunInvariant, TypeOK
<1>4. ASSUME NEW s \in Simulation, NEW f \in FailureSet, NEW d \in Scenario \cup {None},
             create_simulation(s, f, d)
      PROVE  StoredRuns(c)' \subseteq StoredRuns(c) /\ Shown(c)' = Shown(c)
  <2>1. stored[s] = FALSE
    BY <1>4 DEF create_simulation, RunInvariant, UnpostedIsUnknown
  <2>2. QED
    BY <1>4, <2>1 DEF create_simulation, StoredRuns, Shown, RunInvariant, TypeOK
<1>5. CASE UNCHANGED <<scenario, stored, posted>>
  BY <1>5 DEF Shown, StoredRuns
<1>6. QED
  BY <1>1, <1>2, <1>3, <1>4, <1>5
  DEF Next, Api, Relay, TaskStep, Misfortune, vars, create_scenario, create_simulation,
      Dispatch, DispatchRaises, RecordDispatchFailure, RecordDispatchFailureRaises,
      ApiCrash, Connect, Subscribe, Receive, Start, Announce, MarkFailed,
      AnnounceFailure, Acknowledge, Raise, AnnounceRaises, MarkFailedRaises, Crash,
      HardTimeLimit

(* A scenario shows the run whose results were stored last; before the first*)
(* fault no run stores its results twice (runner.py:183-184,                *)
(* celery_app.py:24-25).                                                    *)
THEOREM ShowsLatest == Spec => ShowsTheLatestRun
<1>1. Init => FaultlessPlaces
  BY DEF Init, FaultlessPlaces, OneMessage, OneExecutionAtATime, Holds, IdleWorker
<1>2. RunInvariant /\ FaultlessPlaces /\ [Next]_vars => FaultlessPlaces'
  BY PlacesStep
<1>3. RunInvariant /\ FaultlessPlaces /\ [Next]_vars =>
        [\A c \in Scenario, s \in Simulation :
           /\ s \in StoredRuns(c)' \ StoredRuns(c) => Shown(c)' = s
           /\ Shown(c)' = s /\ Shown(c) # s /\ s \in StoredRuns(c) => faults > 0]_vars
  BY ShowsStep, FaultsAssumption DEF RunInvariant, TypeOK
<1>4. QED
  BY <1>1, <1>2, <1>3, RunInvariantHolds, PTL DEF Spec, ShowsTheLatestRun

================================================================================
