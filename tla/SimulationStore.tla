---------------------------- MODULE SimulationStore ----------------------------
(***************************************************************************)
(* The actions of the front end's simulation store                         *)
(* (frontend/src/stores/simulationStore.ts), each as a function from the   *)
(* store's state to its next state, so that a handler that calls several   *)
(* of them is their composition.  Names are the source's; waves count from *)
(* 0 and -1 is "before the cascade", as there.                             *)
(*                                                                         *)
(* Two fields are the browser's: intervals, the setInterval timers that    *)
(* are still ticking, and autoplays, the pending setTimeout calls of       *)
(* play(), which nothing cancels.  A result is [id, waves]; every caller   *)
(* of setSimulationResult passes a completed one.                          *)
(*                                                                         *)
(* A definition marked "Faulty" is no part of the specification: it is the *)
(* definition after it with a plausible bug.                               *)
(***************************************************************************)
EXTENDS Integers, Sequences, RecoveryPlan

CONSTANTS
  None,        \* null
  MaxHistory   \* how many runs the history keeps (50 in the code)

ASSUME MaxHistoryAssumption == MaxHistory \in Nat \ {0}

Timer == 1 .. 3   \* names for timers: one ticking, one stale, one new

LastWave(r) == Len(r.waves) - 1

FailedUpTo(r, wave) == FailedNodeIdsForResult(SubSeq(r.waves, 1, wave + 1))

HistoryIds(s) == {s.simulations[i].id : i \in DOMAIN s.simulations}

\* What a page load finds in localStorage decides the baseline.
InitialBaseline(simulations) ==
  LET flagged == {i \in DOMAIN simulations : simulations[i].is_baseline}
  IN  IF flagged # {} THEN simulations[Min(flagged)].id
      ELSE IF simulations # <<>> THEN simulations[1].id ELSE None

InitialStore(simulations) ==
  [result |-> None, currentWave |-> -1, failedNodeIds |-> {},
   restoredNodeIds |-> {}, recoveryStageIndex |-> -1, savedNodeIds |-> {},
   isPlaying |-> FALSE, animationTimer |-> None, intervals |-> {}, autoplays |-> 0,
   isRunning |-> FALSE, runError |-> FALSE, simulations |-> simulations,
   baselineSimulationId |-> InitialBaseline(simulations)]

ClearInterval(s) == [s EXCEPT !.intervals = @ \ {s.animationTimer}]

NoRecovery(s) == [s EXCEPT !.restoredNodeIds = {}, !.recoveryStageIndex = -1]

SetRunning(s, running) ==
  [s EXCEPT !.isRunning = running, !.runError = IF running THEN FALSE ELSE @]

SetRunError(s) == [s EXCEPT !.isRunning = FALSE, !.runError = TRUE]

\* Faulty: the history grows without its cap.
NewestUncapped(simulations) == simulations

\* The newest MaxHistory runs.
Newest(simulations) == SubSeq(simulations, 1, Min({Len(simulations), MaxHistory}))

\* Every entry but that of the run: no run has two.
Others(s, id) ==
  IF id \notin HistoryIds(s) THEN s.simulations
  ELSE RemoveAt(s.simulations, CHOOSE i \in DOMAIN s.simulations : s.simulations[i].id = id)

AddSimulation(s, id) ==
  [s EXCEPT
     !.simulations = Newest(<<[id |-> id, is_baseline |-> FALSE]>> \o Others(s, id))]

SetBaselineSimulationId(s, id) == [s EXCEPT !.baselineSimulationId = id]

SetSavedNodes(s, saved) == [s EXCEPT !.savedNodeIds = saved]

\* Faulty: the ring of an intervention outlives a reset.
ResetKeepsRing(s) ==
  [InitialStore(s.simulations) EXCEPT
     !.baselineSimulationId = s.baselineSimulationId, !.savedNodeIds = s.savedNodeIds,
     !.intervals = s.intervals \ {s.animationTimer}, !.autoplays = s.autoplays]

\* The history, the baseline and the delayed play() calls outlive a reset.
Reset(s) ==
  [InitialStore(s.simulations) EXCEPT
     !.baselineSimulationId = s.baselineSimulationId,
     !.intervals = s.intervals \ {s.animationTimer}, !.autoplays = s.autoplays]

\* Faulty: the newest run takes the baseline over.
RecordAsBaseline(s, r) ==
  [s EXCEPT !.simulations = Newest(<<[id |-> r.id, is_baseline |-> TRUE]>> \o @),
            !.baselineSimulationId = r.id]

\* Recording a run in the history; the first one is the baseline.
Record(s, r) ==
  LET isBaseline == s.baselineSimulationId = None \/ s.simulations = <<>>
      entry == [id |-> r.id, is_baseline |-> isBaseline]
  IN  [s EXCEPT
         !.simulations = IF r.id \in HistoryIds(s) THEN @ ELSE Newest(<<entry>> \o @),
         !.baselineSimulationId = IF isBaseline /\ @ = None THEN r.id ELSE @]

SetSimulationResult(s, r, autoplay) ==
  [Reset(Record(s, r)) EXCEPT
     !.result = r,
     !.autoplays = IF autoplay /\ r.waves # <<>> THEN @ + 1 ELSE @]

AdvanceWave(s) ==
  LET next == s.currentWave + 1
  IN  CASE s.result = None -> s
        [] s.result # None /\ next > LastWave(s.result) ->
             [ClearInterval(s) EXCEPT !.isPlaying = FALSE, !.animationTimer = None]
        [] s.result # None /\ next <= LastWave(s.result) ->
             [NoRecovery(s) EXCEPT
                !.currentWave = next,
                !.failedNodeIds = @ \cup ToSet(s.result.waves[next + 1])]

\* Faulty: play() starts a timer without clearing the one that ticks.
PlayOverTimer(s) ==
  IF s.result = None \/ s.currentWave >= LastWave(s.result) THEN s
  ELSE LET timer == CHOOSE t \in Timer : t \notin s.intervals
       IN  [AdvanceWave(s) EXCEPT !.isPlaying = TRUE, !.animationTimer = timer,
                                  !.intervals = @ \cup {timer}]

\* With no wave left play() returns after clearing the timer, and leaves
\* isPlaying and animationTimer as they were.
Play(s) ==
  LET timer == CHOOSE t \in Timer : t \notin s.intervals \cup {s.animationTimer}
  IN  CASE s.result = None -> s
        [] s.result # None /\ s.currentWave >= LastWave(s.result) -> ClearInterval(s)
        [] s.result # None /\ s.currentWave < LastWave(s.result) ->
             [AdvanceWave(ClearInterval(s)) EXCEPT
                !.isPlaying = TRUE, !.animationTimer = timer,
                !.intervals = @ \cup {timer}]

\* Faulty: the timer goes, the button still says that it plays.
PauseTimerOnly(s) == [ClearInterval(s) EXCEPT !.animationTimer = None]

Pause(s) == [ClearInterval(s) EXCEPT !.isPlaying = FALSE, !.animationTimer = None]

\* Faulty: scrubbing back keeps the assets that were shown as restored.
SetWaveKeepRecovery(s, index) ==
  IF s.result = None \/ index < 0 \/ index > LastWave(s.result) THEN s
  ELSE [s EXCEPT !.currentWave = index,
                 !.failedNodeIds = FailedUpTo(s.result, index) \ s.restoredNodeIds]

\* Scrubbing drops the recovery and lets a running timer run on.
SetWave(s, index) ==
  IF s.result = None \/ index < 0 \/ index > LastWave(s.result) THEN s
  ELSE [NoRecovery(s) EXCEPT !.currentWave = index,
                             !.failedNodeIds = FailedUpTo(s.result, index)]

RewindToStart(s) ==
  [NoRecovery(Pause(s)) EXCEPT !.currentWave = -1, !.failedNodeIds = {}]

ApplyRecovery(s, restored, stageIndex) ==
  IF s.result = None THEN s
  ELSE [Pause(s) EXCEPT
          !.currentWave = LastWave(s.result),
          !.failedNodeIds = FailedUpTo(s.result, LastWave(s.result)) \ restored,
          !.restoredNodeIds = restored,
          !.recoveryStageIndex = stageIndex]
===============================================================================
