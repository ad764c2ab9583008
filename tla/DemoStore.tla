------------------------------- MODULE DemoStore -------------------------------
(***************************************************************************)
(* The state machine of the one-click demos (frontend/src/demo/            *)
(* demoStore.ts) and the timeline it walks (buildBeats in DemoRunner.tsx), *)
(* as functions on the demo's state d and, where the source reaches into   *)
(* it, on the simulation store's state s.                                  *)
(*                                                                         *)
(* runToken is left out: it only tells one press of a demo button from the *)
(* next, and each press is one step of Board.  beatsOf, the run the beats  *)
(* were built from, is added; no guard reads it.                           *)
(***************************************************************************)
EXTENDS SimulationStore

Idle ==
  [activePresetId |-> None, phase |-> "idle", beats |-> <<>>, beatIndex |-> -1,
   isAutoPlaying |-> FALSE, hasRunRecovery |-> FALSE, beatsOf |-> None]

Arm(preset) ==
  [Idle EXCEPT !.activePresetId = preset, !.phase = "arming", !.isAutoPlaying = TRUE]

\* One beat per wave, the held peak, one per restoration stage.
BuildBeats(r) ==
  LET plan == BuildRecoveryPlan(r.waves)
  IN  [i \in DOMAIN r.waves |-> [kind |-> "collapse", waveIndex |-> i - 1]]
      \o <<[kind |-> "peak"]>>
      \o [i \in DOMAIN plan |->
            [kind |-> "recovery", stageIndex |-> i - 1,
             restoredNodeIds |-> plan[i].restoredNodeIds, milestone |-> plan[i].milestone]]

LoadBeats(d, r) == [d EXCEPT !.beats = BuildBeats(r), !.beatsOf = r.id]

\* Beats count from 0, as in the source.
Beat(d, index) == d.beats[index + 1]
LastBeat(d)    == Len(d.beats) - 1

\* recoveryStartIndex: the first recovery beat, -1 if there is none.
RecoveryStartIndex(d) ==
  SelectInSeq(d.beats, LAMBDA b : b.kind = "recovery") - 1

PauseForRecovery(d) == [d EXCEPT !.phase = "awaiting-recovery", !.isAutoPlaying = FALSE]

Finish(d) == [d EXCEPT !.phase = "complete", !.isAutoPlaying = FALSE]

Fail(d) == [d EXCEPT !.phase = "error", !.isAutoPlaying = FALSE]

\* Faulty: a stopped demo leaves the board loading.
StopQuietly(s) == s

\* stop() in the demo store is Idle; this is what it does to the board.
StopOnBoard(s) == IF s.isRunning THEN SetRunning(s, FALSE) ELSE s

\* The beat is applied to whatever result the board shows.
ApplyBeat(s, b) ==
  CASE b.kind = "recovery" -> ApplyRecovery(s, b.restoredNodeIds, b.stageIndex)
    [] b.kind = "collapse" -> SetWave(s, b.waveIndex)
    [] b.kind = "peak"     -> IF s.result = None THEN s
                              ELSE SetWave(s, LastWave(s.result))

GoToBeat(d, index, auto) ==
  [d EXCEPT !.beatIndex = index, !.isAutoPlaying = auto,
            !.phase = IF auto THEN Beat(d, index).kind ELSE "complete"]
===============================================================================
