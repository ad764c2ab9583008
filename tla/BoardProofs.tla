------------------------------ MODULE BoardProofs ------------------------------
(***************************************************************************)
(* The board's invariants and action properties, and what the panels make  *)
(* of it, for any number of demos, recommendations, assets, clicks and     *)
(* history entries.                                                        *)
(*                                                                         *)
(* The properties follow from one inductive invariant, IInv.  It says of   *)
(* the store what its picture, timer and history are (BoardOK, HistoryOK), *)
(* of the demo that its acts are in order (DemoOK), and of the three       *)
(* clients, which share the board, that the run each of them still waits   *)
(* for is its own and has not been on the board (PanelOK, RunnerOK,        *)
(* CardOK): that is why a late answer can neither bring a run back nor be  *)
(* narrated as another demo's.  The proof is per action; what most actions *)
(* leave alone is shown once, in the lemmas named ...Stays, from what a    *)
(* step brings to the board (Brings) and from the runs only ever growing   *)
(* (RunsGrow).  What no step does (Moved, Backed) is proved per action as  *)
(* well; with it the ring of an intervention and the newest run of the     *)
(* history follow a result from step to step (RingIsKept).                 *)
(***************************************************************************)
EXTENDS Views, RecoveryProofs

-------------------------------------------------------------------------------
(* The inductive invariant. *)

\* A store that says it plays has a timer (PlayingHasTimer, of any store).
Timed(s) == s.isPlaying => s.intervals # {}

\* What the board shows.
BoardOK(s) ==
  /\ s \in StoreType
  /\ s.result = None =>
       /\ s.failedNodeIds = {} /\ s.savedNodeIds = {} /\ s.currentWave = -1
       /\ s.intervals = {}
  /\ s.result # None =>
       /\ s.currentWave \in -1 .. LastWave(s.result)
       /\ s.savedNodeIds \cap FailedIn(s.result) = {}
       /\ s.simulations # <<>>
       /\ s.recoveryStageIndex < 0 =>
            s.failedNodeIds = FailedUpTo(s.result, s.currentWave) /\ s.restoredNodeIds = {}
       /\ s.recoveryStageIndex >= 0 =>
            /\ s.failedNodeIds = FailedIn(s.result) \ s.restoredNodeIds
            /\ s.currentWave = LastWave(s.result)
  /\ s.intervals \subseteq {s.animationTimer}
  /\ s.intervals # {} => s.isPlaying

\* The history and the baseline.
HistoryOK(s) ==
  /\ Len(s.simulations) <= MaxHistory
  /\ s.simulations = <<>> => s.baselineSimulationId = None
  /\ \A i \in DOMAIN s.simulations :
       s.simulations[i].is_baseline => s.simulations[i].id = s.baselineSimulationId

\* Act 2 follows act 1.
RecoveryIsLast(beats) ==
  \A i, j \in DOMAIN beats :
    i <= j /\ beats[i].kind = "recovery" => beats[j].kind = "recovery"

\* A demo that arms has no beats yet, and no restoration beat is shown before act 2.
DemoOK(d) ==
  /\ d \in DemoType
  /\ d.beatIndex \in -1 .. LastBeat(d)
  /\ d.phase = "arming" => d.beats = <<>> /\ d.activePresetId # None
  /\ d.beats # <<>> => d.beatsOf # None
  /\ d.beatIndex >= 0 /\ Beat(d, d.beatIndex).kind = "recovery" => d.hasRunRecovery
  /\ RecoveryIsLast(d.beats)

\* A poller's state hangs together.
ClientOK(c) ==
  /\ c.mutation = "success" <=> c.simId # None
  /\ c.seen # None => c.simId # None
  /\ c.seen \in Settled => runs[c.simId].status = c.seen

\* The runs the history or the board shows.
OnBoard == HistoryIds(store) \cup (IF store.result = None THEN {} ELSE {store.result.id})

\* A result the API serves.
Served(r) == r \in ResultType /\ r.id \in DOMAIN runs /\ runs[r.id].status = "completed"
               /\ r.waves = runs[r.id].waves

\* Completed runs have waves, and the board shows what the API serves.
RunsOK ==
  /\ \A id \in DOMAIN runs : runs[id].status = "completed" => runs[id].waves \in Shapes
  /\ OnBoard \subseteq DOMAIN runs
  /\ store.result # None => Served(store.result)

\* The panel's run is its own, and it remembers what it has handled: a run of
\* its that is on the board, or was dismissed, is not adopted again.
PanelOK ==
  /\ ClientOK(panel)
  /\ panel.simId # None =>
       /\ runs[panel.simId].by = "panel"
       /\ panel.simId \in OnBoard \cup panel.dismissedSimulationIds
            => panel.simId \in panel.handledPolledIds
       /\ panel.simId \in panel.handledPolledIds <=> panel.seen = "completed"

\* The demo that is active, if it has seeds, tells of, awaits and has asked for
\* its own runs only; an awaited run is not on the board yet.
RunnerOK ==
  /\ ClientOK(runner)
  /\ runner.mutation = "pending" => runner.preset # None
  /\ runner.mutation = "pending" \/ runner.pendingSimId # None => demo.beats = <<>>
  /\ runner.simId # None => runs[runner.simId].by \in Preset
  /\ runner.pendingSimId # None =>
       runner.pendingSimId = runner.simId /\ runner.pendingSimId \notin OnBoard
  /\ demo.activePresetId \in Seeded =>
       /\ demo.beats # <<>> => runs[demo.beatsOf].by = demo.activePresetId
       /\ runner.pendingSimId # None => runs[runner.pendingSimId].by = demo.activePresetId
       /\ runner.mutation = "pending" => runner.preset = demo.activePresetId
       /\ Waiting(runner) /\ runner.mutation = "success" => runner.simId = runner.pendingSimId

\* A card's run is its own and is not on the board before the card settles; once
\* it is there, the saved set is what the card claims.
CardOK(c) ==
  LET k == card[c]
  IN  /\ k.at \in {"poll", "applied"} <=> k.simId # None
      /\ k.at # "idle" => k.baseline # None
      /\ k.baseline # None => Served(k.baseline)
      /\ k.simId # None => runs[k.simId].by = "card"
      /\ k.at = "poll" => k.simId \notin OnBoard
      /\ k.at = "applied" =>
           /\ runs[k.simId].status = "completed"
           /\ store.result # None /\ store.result.id = k.simId =>
                store.savedNodeIds = Saved(k.baseline, store.result)

\* No two cards have one run.
CardsOK ==
  /\ \A c \in Card : CardOK(c)
  /\ \A c, d \in Card : c # d /\ card[c].simId # None => card[c].simId # card[d].simId

\* With no demo active, a loading board is not backed by the demo's poller alone:
\* an answer to that one would not be adopted, and the board would load for ever.
LoadingOK ==
  store.isRunning /\ demo.activePresetId = None => Waiting(panel) \/ ~Waiting(runner)

\* The cards whose request is open.
CardsPosting == {c \in Card : card[c].at = "post"}

\* The clicks that may still bring a run: the open requests, and a board that is
\* not mounted, whose demo may be dispatched again.
Asked ==
  (IF panel.mutation = "pending" THEN 1 ELSE 0) + (IF runner.mutation = "pending" THEN 1 ELSE 0)
    + (IF mounted THEN 0 ELSE 1) + Cardinality(CardsPosting)

\* Every run, and every run to come, was clicked for.
ClicksOK == Len(runs) + Asked <= clicks

\* The types of what is not the stores', and whose ids they hold.
TypesOK ==
  /\ panel \in PanelType /\ runner \in RunnerType /\ card \in [Card -> CardType]
  /\ runs \in Seq(RunType)
  /\ mounted \in BOOLEAN /\ clicks \in 0 .. MaxClicks

\* Whatever names a run names an accepted one.
IdsOK ==
  /\ HistoryIds(store) \subseteq DOMAIN runs
  /\ store.baselineSimulationId \in DOMAIN runs \cup {None}
  /\ demo.beatsOf \in DOMAIN runs \cup {None}
  /\ panel.handledPolledIds \cup panel.dismissedSimulationIds \subseteq DOMAIN runs
  /\ panel.simId \in DOMAIN runs \cup {None}
  /\ runner.simId \in DOMAIN runs \cup {None}
  /\ runner.pendingSimId \in DOMAIN runs \cup {None}
  /\ \A c \in Card : card[c].simId \in DOMAIN runs \cup {None}

\* The two stores.
StoresOK == BoardOK(store) /\ HistoryOK(store) /\ DemoOK(demo)

\* The inductive invariant.
IInv ==
  /\ TypesOK /\ IdsOK /\ StoresOK
  /\ RunsOK /\ PanelOK /\ RunnerOK /\ CardsOK /\ LoadingOK /\ ClicksOK

-------------------------------------------------------------------------------
(* Results and their waves. *)

\* A result has a first and a last wave, of assets.
LEMMA ResultHasWaves ==
  ASSUME NEW r \in ResultType
  PROVE  /\ r.id \in Nat /\ r.waves \in Shapes /\ r.waves \in Seq(Seq(Asset)) /\ r.waves # <<>>
         /\ LastWave(r) \in Nat /\ Len(r.waves) = LastWave(r) + 1
         /\ DOMAIN r.waves = 1 .. Len(r.waves)
         /\ r # None
         /\ FailedIn(r) \subseteq Asset
<1>1. r.id \in Nat /\ r.waves \in Shapes /\ r.waves \in Seq(Seq(Asset)) /\ r.waves # <<>>
  BY ShapesAssumption DEF ResultType
<1>2. Len(r.waves) \in Nat \ {0} /\ DOMAIN r.waves = 1 .. Len(r.waves)
  BY <1>1, LenProperties, EmptySeq
<1>3. FailedIn(r) \subseteq Asset
  BY <1>1, AssetAssumption, FailedAreAssets DEF FailedIn
<1>4. r # None
  BY NoneAssumption DEF ResultType
<1> QED
  BY <1>1, <1>2, <1>3, <1>4 DEF LastWave

\* What has failed up to a wave.
LEMMA FailedUpToIs ==
  ASSUME NEW r \in ResultType, NEW w \in -1 .. LastWave(r)
  PROVE  FailedUpTo(r, w) = UNION {ToSet(r.waves[i]) : i \in 1 .. w + 1}
<1> DEFINE first == SubSeq(r.waves, 1, w + 1)
<1>1. /\ LastWave(r) \in Nat /\ Len(r.waves) = LastWave(r) + 1
      /\ DOMAIN r.waves = 1 .. Len(r.waves) /\ r.waves \in Seq(Seq(Asset))
  BY ResultHasWaves
<1>2. w + 1 \in 0 .. Len(r.waves)
  BY <1>1
<1>3. \A i \in 1 .. w + 1 : r.waves[i] \in Seq(Asset)
  BY <1>1, <1>2, LenProperties
<1>4. /\ first \in Seq(Seq(Asset))
      /\ Len(first) = w + 1
      /\ \A i \in 1 .. w + 1 : first[i] = r.waves[i]
  <2>1. /\ 1 \in Int /\ w + 1 \in Int
        /\ (w + 1) - 1 + 1 = w + 1
        /\ (1 <= w + 1 \/ w + 1 = 0)
        /\ \A i \in 1 .. w + 1 : 1 + i - 1 = i
    BY <1>2
  <2> QED
    BY <1>3, <2>1, SubSeqProperties
<1> HIDE DEF first
<1>5. DOMAIN first = 1 .. w + 1
  BY <1>4, LenProperties
<1> QED
  BY <1>4, <1>5 DEF FailedUpTo, FailedNodeIdsForResult, first

\* Before the cascade nothing has failed, at its end all has, and each wave adds
\* its own assets.
LEMMA FailedUpToSteps ==
  ASSUME NEW r \in ResultType
  PROVE  /\ FailedUpTo(r, -1) = {}
         /\ FailedUpTo(r, LastWave(r)) = FailedIn(r)
         /\ \A w \in -1 .. LastWave(r) :
              FailedUpTo(r, w) \subseteq FailedIn(r) /\ FailedUpTo(r, w) \subseteq Asset
         /\ \A w \in 0 .. LastWave(r) :
              FailedUpTo(r, w) = FailedUpTo(r, w - 1) \cup ToSet(r.waves[w + 1])
<1>1. /\ LastWave(r) \in Nat /\ Len(r.waves) = LastWave(r) + 1
      /\ DOMAIN r.waves = 1 .. Len(r.waves) /\ FailedIn(r) \subseteq Asset
  BY ResultHasWaves
<1>2. FailedIn(r) = UNION {ToSet(r.waves[i]) : i \in 1 .. LastWave(r) + 1}
  BY <1>1 DEF FailedIn, FailedNodeIdsForResult
<1>3. FailedUpTo(r, -1) = {}
  <2>1. FailedUpTo(r, -1) = UNION {ToSet(r.waves[i]) : i \in 1 .. (-1) + 1}
    BY <1>1, FailedUpToIs
  <2>2. 1 .. (-1) + 1 = {}
    OBVIOUS
  <2> QED
    BY <2>1, <2>2
<1>4. FailedUpTo(r, LastWave(r)) = FailedIn(r)
  BY <1>1, <1>2, FailedUpToIs
<1>5. ASSUME NEW w \in -1 .. LastWave(r) PROVE FailedUpTo(r, w) \subseteq FailedIn(r)
  <2>1. 1 .. w + 1 \subseteq 1 .. LastWave(r) + 1
    BY <1>1
  <2> QED
    BY <1>2, <2>1, FailedUpToIs
<1>6. ASSUME NEW w \in 0 .. LastWave(r)
      PROVE  FailedUpTo(r, w) = FailedUpTo(r, w - 1) \cup ToSet(r.waves[w + 1])
  <2>1. /\ w \in -1 .. LastWave(r) /\ w - 1 \in -1 .. LastWave(r)
        /\ (w - 1) + 1 = w /\ 1 .. w + 1 = (1 .. w) \cup {w + 1}
    BY <1>1
  <2>2. FailedUpTo(r, w) = UNION {ToSet(r.waves[i]) : i \in 1 .. w + 1}
    BY <2>1, FailedUpToIs
  <2>3. FailedUpTo(r, w - 1) = UNION {ToSet(r.waves[i]) : i \in 1 .. w}
    BY <2>1, FailedUpToIs
  <2> QED
    BY <2>1, <2>2, <2>3
<1> QED
  BY <1>1, <1>3, <1>4, <1>5, <1>6

-------------------------------------------------------------------------------
(* What moves the picture of a result: none of these touches the result, the *)
(* history or the loading state.                                             *)

\* The history and the baseline are the same.
SameHistory(s, t) ==
  t.simulations = s.simulations /\ t.baselineSimulationId = s.baselineSimulationId

\* So are the result and what an intervention saved of it.
SameResult(s, t) ==
  t.result = s.result /\ t.savedNodeIds = s.savedNodeIds /\ SameHistory(s, t)

\* So is the loading state.
Kept(s, t) == SameResult(s, t) /\ t.isRunning = s.isRunning

\* pause() stops every timer.
LEMMA PauseOK ==
  ASSUME NEW s, BoardOK(s)
  PROVE  /\ BoardOK(Pause(s)) /\ Kept(s, Pause(s)) /\ Timed(Pause(s))
         /\ Pause(s).intervals = {} /\ Pause(s).currentWave = s.currentWave
<1>1. Pause(s) \in StoreType
  BY DEF BoardOK, StoreType, Pause, ClearInterval
<1>2. /\ Pause(s).intervals = {} /\ Pause(s).isPlaying = FALSE
      /\ Pause(s).animationTimer = None /\ Kept(s, Pause(s))
      /\ Pause(s).currentWave = s.currentWave
      /\ Pause(s).failedNodeIds = s.failedNodeIds
      /\ Pause(s).restoredNodeIds = s.restoredNodeIds
      /\ Pause(s).recoveryStageIndex = s.recoveryStageIndex
  BY DEF BoardOK, StoreType, Pause, ClearInterval, Kept, SameResult, SameHistory
<1> QED
  BY <1>1, <1>2 DEF BoardOK, Kept, SameResult, SameHistory, Timed

\* Clearing the timer leaves the picture alone.
LEMMA ClearIntervalOK ==
  ASSUME NEW s, BoardOK(s)
  PROVE  LET t == ClearInterval(s)
         IN  /\ BoardOK(t) /\ Kept(s, t) /\ t.intervals = {}
             /\ t.currentWave = s.currentWave /\ t.isPlaying = s.isPlaying
<1> DEFINE t == ClearInterval(s)
<1>1. t \in StoreType
  BY DEF BoardOK, StoreType, ClearInterval
<1>2. /\ t.intervals = {} /\ Kept(s, t) /\ t.isPlaying = s.isPlaying
      /\ t.currentWave = s.currentWave /\ t.failedNodeIds = s.failedNodeIds
      /\ t.restoredNodeIds = s.restoredNodeIds
      /\ t.recoveryStageIndex = s.recoveryStageIndex
  BY DEF BoardOK, StoreType, ClearInterval, Kept, SameResult, SameHistory
<1> HIDE DEF t
<1>3. BoardOK(t)
  BY <1>1, <1>2 DEF BoardOK, Kept, SameResult, SameHistory
<1> QED
  BY <1>2, <1>3 DEF t

\* Dropping a recovery keeps the types.
LEMMA NoRecoveryTyped ==
  ASSUME NEW s \in StoreType
  PROVE  NoRecovery(s) \in StoreType
  BY -1 \in Int DEF StoreType, NoRecovery

\* setWave paints the wave it is given, or does nothing.
LEMMA SetWaveOK ==
  ASSUME NEW s, BoardOK(s), NEW index \in Int
  PROVE  LET t == SetWave(s, index)
         IN  BoardOK(t) /\ Kept(s, t) /\ (Timed(s) => Timed(t))
<1> DEFINE t == SetWave(s, index)
<1>1. CASE s.result = None \/ index < 0 \/ index > LastWave(s.result)
  BY <1>1 DEF SetWave, Kept, SameResult, SameHistory
<1>2. CASE s.result # None /\ index >= 0 /\ index <= LastWave(s.result)
  <2>1. s.result \in ResultType /\ LastWave(s.result) \in Nat
    BY <1>2, ResultHasWaves DEF BoardOK, StoreType
  <2>2. FailedUpTo(s.result, index) \subseteq Asset /\ index \in -1 .. LastWave(s.result)
    BY <1>2, <2>1, FailedUpToSteps
  <2>3. t = [NoRecovery(s) EXCEPT !.currentWave = index,
                                  !.failedNodeIds = FailedUpTo(s.result, index)]
    BY <1>2, <2>1 DEF SetWave
  <2>4. t \in StoreType
    <3>1. NoRecovery(s) \in StoreType
      BY NoRecoveryTyped DEF BoardOK
    <3> HIDE DEF t
    <3> QED
      BY <2>2, <2>3, <3>1 DEF StoreType
  <2>5. /\ Kept(s, t) /\ t.currentWave = index /\ t.failedNodeIds = FailedUpTo(s.result, index)
        /\ t.restoredNodeIds = {} /\ t.recoveryStageIndex = -1
        /\ t.isPlaying = s.isPlaying /\ t.intervals = s.intervals
        /\ t.animationTimer = s.animationTimer
    BY <2>3 DEF BoardOK, StoreType, NoRecovery, Kept, SameResult, SameHistory
  <2> HIDE DEF t
  <2>6. -1 < 0 /\ ~(-1 >= 0)
    OBVIOUS
  <2>7. BoardOK(t)
    BY <1>2, <2>2, <2>4, <2>5, <2>6 DEF BoardOK, Kept, SameResult, SameHistory
  <2> QED
    BY <2>5, <2>7 DEF Timed, t
<1>3. index > LastWave(s.result) \/ index <= LastWave(s.result) \/ s.result = None
  BY ResultHasWaves DEF BoardOK, StoreType
<1> QED
  BY <1>1, <1>2, <1>3

\* rewindToStart paints the state before the cascade.
LEMMA RewindOK ==
  ASSUME NEW s, BoardOK(s)
  PROVE  LET t == RewindToStart(s)
         IN  BoardOK(t) /\ Kept(s, t) /\ Timed(t)
<1> DEFINE p == Pause(s)
           t == RewindToStart(s)
<1>1. BoardOK(p) /\ Kept(s, p) /\ Timed(p) /\ p.intervals = {}
  BY PauseOK
<1>2. t = [NoRecovery(p) EXCEPT !.currentWave = -1, !.failedNodeIds = {}]
  BY DEF RewindToStart
<1> HIDE DEF p, t
<1>3. t \in StoreType
  <2>1. NoRecovery(p) \in StoreType
    BY <1>1, NoRecoveryTyped DEF BoardOK
  <2> QED
    BY <1>2, <2>1, -1 \in Int DEF StoreType
<1>4. /\ Kept(s, t) /\ t.currentWave = -1 /\ t.failedNodeIds = {}
      /\ t.restoredNodeIds = {} /\ t.recoveryStageIndex = -1
      /\ t.isPlaying = p.isPlaying /\ t.intervals = {}
  BY <1>1, <1>2 DEF BoardOK, StoreType, NoRecovery, Kept, SameResult, SameHistory
<1>5. t.result # None => /\ FailedUpTo(t.result, -1) = {}
                         /\ -1 \in -1 .. LastWave(t.result)
  BY <1>3, ResultHasWaves, FailedUpToSteps DEF StoreType
<1>6. BoardOK(t)
  BY <1>1, <1>3, <1>4, <1>5 DEF BoardOK, Kept, SameResult, SameHistory
<1>7. Kept(s, t) /\ Timed(t)
  BY <1>1, <1>4 DEF Kept, SameResult, SameHistory, Timed
<1> QED
  BY <1>6, <1>7 DEF t

\* applyRecovery paints all that failed but what is restored.
LEMMA ApplyRecoveryOK ==
  ASSUME NEW s, BoardOK(s), NEW restored \in SUBSET Asset, NEW stageIndex \in Nat
  PROVE  LET t == ApplyRecovery(s, restored, stageIndex)
         IN  BoardOK(t) /\ Kept(s, t) /\ (Timed(s) => Timed(t))
<1> DEFINE p == Pause(s)
           t == ApplyRecovery(s, restored, stageIndex)
<1>1. CASE s.result = None
  BY <1>1 DEF ApplyRecovery, Kept, SameResult, SameHistory
<1>2. CASE s.result # None
  <2>1. BoardOK(p) /\ Kept(s, p) /\ Timed(p) /\ p.intervals = {}
    BY PauseOK
  <2>2. s.result \in ResultType
    BY <1>2 DEF BoardOK, StoreType
  <2>3. /\ FailedUpTo(s.result, LastWave(s.result)) = FailedIn(s.result)
        /\ FailedIn(s.result) \subseteq Asset /\ LastWave(s.result) \in Nat
    BY <2>2, FailedUpToSteps, ResultHasWaves
  <2>4. t = [p EXCEPT !.currentWave = LastWave(s.result),
                      !.failedNodeIds = FailedIn(s.result) \ restored,
                      !.restoredNodeIds = restored, !.recoveryStageIndex = stageIndex]
    BY <1>2, <2>3 DEF ApplyRecovery
  <2> HIDE DEF p, t
  <2>5. t \in StoreType
    <3>1. /\ p \in StoreType /\ LastWave(s.result) \in Int /\ stageIndex \in Int
          /\ FailedIn(s.result) \ restored \in SUBSET Asset
      BY <2>1, <2>3 DEF BoardOK
    <3> QED
      BY <2>4, <3>1 DEF StoreType
  <2>6. /\ Kept(s, t) /\ t.currentWave = LastWave(s.result)
        /\ t.failedNodeIds = FailedIn(s.result) \ restored
        /\ t.restoredNodeIds = restored /\ t.recoveryStageIndex = stageIndex
        /\ t.isPlaying = p.isPlaying /\ t.intervals = {}
    BY <2>1, <2>4 DEF BoardOK, StoreType, Kept, SameResult, SameHistory
  <2>7. LastWave(s.result) \in -1 .. LastWave(s.result)
    BY <2>3
  <2>8. BoardOK(t)
    BY <1>2, <2>1, <2>5, <2>6, <2>7 DEF BoardOK, Kept, SameResult, SameHistory
  <2>9. Timed(t)
    BY <2>1, <2>6 DEF Timed
  <2> QED
    BY <2>6, <2>8, <2>9 DEF t
<1> QED
  BY <1>1, <1>2

\* advanceWave paints the next wave, or stops at the last.
LEMMA AdvanceWaveOK ==
  ASSUME NEW s, BoardOK(s)
  PROVE  LET t == AdvanceWave(s)
         IN  /\ BoardOK(t) /\ Kept(s, t)
             /\ Timed(s) => Timed(t)
             /\ s.result # None /\ s.currentWave < LastWave(s.result) =>
                  t.isPlaying = s.isPlaying /\ t.intervals = s.intervals
<1> DEFINE t == AdvanceWave(s)
           r == s.result
           next == s.currentWave + 1
<1>1. CASE r = None
  BY <1>1 DEF AdvanceWave, Kept, SameResult, SameHistory
<1>2. CASE r # None
  <2>1. r \in ResultType /\ LastWave(r) \in Nat /\ s.currentWave \in -1 .. LastWave(r)
    BY <1>2, ResultHasWaves DEF BoardOK, StoreType
  <2>2. CASE next > LastWave(r)
    <3>1. t = Pause(s)
      BY <1>2, <2>1, <2>2 DEF AdvanceWave, Pause
    <3>2. BoardOK(t) /\ Kept(s, t) /\ Timed(t)
      BY <3>1, PauseOK
    <3> QED
      BY <2>1, <2>2, <3>2
  <2>3. CASE next <= LastWave(r)
    <3>1. /\ next \in 0 .. LastWave(r) /\ next \in -1 .. LastWave(r) /\ next \in Int
          /\ next - 1 = s.currentWave
      BY <2>1, <2>3
    <3>2. s.recoveryStageIndex < 0
      BY <1>2, <2>1, <2>3 DEF BoardOK, StoreType
    <3>3. s.failedNodeIds = FailedUpTo(r, s.currentWave)
      BY <1>2, <3>2 DEF BoardOK
    <3>4. /\ FailedUpTo(r, next) = s.failedNodeIds \cup ToSet(r.waves[next + 1])
          /\ FailedUpTo(r, next) \subseteq Asset
      BY <2>1, <3>1, <3>3, FailedUpToSteps
    <3>5. t = [NoRecovery(s) EXCEPT !.currentWave = next,
                 !.failedNodeIds = NoRecovery(s).failedNodeIds \cup ToSet(r.waves[next + 1])]
      BY <1>2, <2>1, <2>3 DEF AdvanceWave
    <3>6. NoRecovery(s).failedNodeIds = s.failedNodeIds
      BY DEF NoRecovery, BoardOK, StoreType
    <3>7. t = [NoRecovery(s) EXCEPT !.currentWave = next, !.failedNodeIds = FailedUpTo(r, next)]
      BY <3>4, <3>5, <3>6
    <3> HIDE DEF t, next
    <3>8. t \in StoreType
      <4>1. NoRecovery(s) \in StoreType
        BY NoRecoveryTyped DEF BoardOK
      <4> QED
        BY <3>1, <3>4, <3>7, <4>1 DEF StoreType
    <3>9. /\ Kept(s, t) /\ t.currentWave = next /\ t.failedNodeIds = FailedUpTo(r, next)
          /\ t.restoredNodeIds = {} /\ t.recoveryStageIndex = -1
          /\ t.isPlaying = s.isPlaying /\ t.intervals = s.intervals
          /\ t.animationTimer = s.animationTimer
      BY <3>7 DEF BoardOK, StoreType, NoRecovery, Kept, SameResult, SameHistory
    <3>10. BoardOK(t)
      BY <1>2, <3>1, <3>8, <3>9 DEF BoardOK, Kept, SameResult, SameHistory
    <3> QED
      BY <3>9, <3>10 DEF Timed, t
  <2> QED
    BY <2>1, <2>2, <2>3
<1> QED
  BY <1>1, <1>2

\* One of three timers is neither ticking nor the one that the store knows.
LEMMA FreshTimer ==
  ASSUME NEW s, BoardOK(s)
  PROVE  LET timer == CHOOSE t \in Timer : t \notin s.intervals \cup {s.animationTimer}
         IN  timer \in Timer
<1>1. s.intervals \cup {s.animationTimer} \subseteq {s.animationTimer}
  BY DEF BoardOK
<1>2. \E t \in Timer : t # s.animationTimer
  BY DEF Timer
<1>3. \E t \in Timer : t \notin s.intervals \cup {s.animationTimer}
  BY <1>1, <1>2
<1> QED
  BY <1>3

\* play() starts one timer and leaves no other; only a board that says it plays
\* already may be left without one.
LEMMA PlayOK ==
  ASSUME NEW s, BoardOK(s)
  PROVE  LET t == Play(s)
         IN  /\ BoardOK(t) /\ Kept(s, t)
             /\ ~s.isPlaying => Timed(t)
<1> DEFINE t == Play(s)
           c == ClearInterval(s)
           a == AdvanceWave(c)
           timer == CHOOSE x \in Timer : x \notin s.intervals \cup {s.animationTimer}
<1>0. timer \in Timer
  BY FreshTimer
<1>1. BoardOK(c) /\ Kept(s, c) /\ c.currentWave = s.currentWave /\ c.isPlaying = s.isPlaying
  BY ClearIntervalOK
<1>2. CASE s.result = None
  BY <1>2 DEF Play, Kept, SameResult, SameHistory, Timed
<1>3. CASE s.result # None
  <2>1. s.result \in ResultType /\ LastWave(s.result) \in Nat /\ s.currentWave \in Int
    BY <1>3, ResultHasWaves DEF BoardOK, StoreType
  <2>2. CASE s.currentWave >= LastWave(s.result)
    <3>1. t = c
      BY <1>3, <2>1, <2>2 DEF Play
    <3> QED
      BY <1>1, <3>1 DEF Timed
  <2>3. CASE s.currentWave < LastWave(s.result)
    <3>1. t = [a EXCEPT !.isPlaying = TRUE, !.animationTimer = timer,
                        !.intervals = a.intervals \cup {timer}]
      BY <1>3, <2>1, <2>3 DEF Play
    <3>2. c.intervals = {} /\ c.result = s.result
      BY <1>1, ClearIntervalOK DEF Kept, SameResult, SameHistory
    <3>3. BoardOK(a) /\ Kept(c, a) /\ a.intervals = {}
      BY <1>1, <1>3, <2>3, <3>2, AdvanceWaveOK
    <3> HIDE DEF t, c, a, timer
    <3>4. t \in StoreType
      BY <1>0, <3>1, <3>3 DEF BoardOK, StoreType
    <3>5. /\ Kept(a, t) /\ t.intervals = {timer} /\ t.animationTimer = timer /\ t.isPlaying
          /\ t.currentWave = a.currentWave /\ t.failedNodeIds = a.failedNodeIds
          /\ t.restoredNodeIds = a.restoredNodeIds
          /\ t.recoveryStageIndex = a.recoveryStageIndex
      BY <3>1, <3>3 DEF BoardOK, StoreType, Kept, SameResult, SameHistory
    <3>6. Kept(s, t) /\ t.result # None
      BY <1>1, <1>3, <3>3, <3>5 DEF Kept, SameResult, SameHistory
    <3>7. BoardOK(t)
      BY <3>3, <3>4, <3>5, <3>6 DEF BoardOK, Kept, SameResult, SameHistory
    <3>8. Timed(t)
      BY <3>5 DEF Timed
    <3> QED
      BY <3>6, <3>7, <3>8 DEF t
  <2> QED
    BY <2>1, <2>2, <2>3
<1> QED
  BY <1>2, <1>3

\* The loading state alone changes.
LEMMA SetRunningOK ==
  ASSUME NEW s, BoardOK(s), NEW running \in BOOLEAN
  PROVE  LET t == SetRunning(s, running)
         IN  /\ BoardOK(t) /\ SameResult(s, t) /\ t.isRunning = running
             /\ Timed(s) => Timed(t)
<1> DEFINE t == SetRunning(s, running)
<1>1. t \in StoreType
  BY DEF BoardOK, StoreType, SetRunning
<1>2. /\ SameResult(s, t) /\ t.isRunning = running /\ t.isPlaying = s.isPlaying
      /\ t.currentWave = s.currentWave /\ t.failedNodeIds = s.failedNodeIds
      /\ t.restoredNodeIds = s.restoredNodeIds /\ t.intervals = s.intervals
      /\ t.recoveryStageIndex = s.recoveryStageIndex
      /\ t.animationTimer = s.animationTimer
  BY DEF BoardOK, StoreType, SetRunning, SameResult, SameHistory
<1> HIDE DEF t
<1>3. BoardOK(t)
  BY <1>1, <1>2 DEF BoardOK, SameResult, SameHistory
<1> QED
  BY <1>2, <1>3 DEF t, Timed

\* A run's failure keeps the result on the board.
LEMMA SetRunErrorOK ==
  ASSUME NEW s, BoardOK(s)
  PROVE  LET t == SetRunError(s)
         IN  /\ BoardOK(t) /\ SameResult(s, t) /\ ~t.isRunning
             /\ Timed(s) => Timed(t)
<1> DEFINE t == SetRunError(s)
<1>1. t \in StoreType
  BY DEF BoardOK, StoreType, SetRunError
<1>2. /\ SameResult(s, t) /\ t.isRunning = FALSE /\ t.isPlaying = s.isPlaying
      /\ t.currentWave = s.currentWave /\ t.failedNodeIds = s.failedNodeIds
      /\ t.restoredNodeIds = s.restoredNodeIds /\ t.intervals = s.intervals
      /\ t.recoveryStageIndex = s.recoveryStageIndex
      /\ t.animationTimer = s.animationTimer
  BY DEF BoardOK, StoreType, SetRunError, SameResult, SameHistory
<1> HIDE DEF t
<1>3. BoardOK(t)
  BY <1>1, <1>2 DEF BoardOK, SameResult, SameHistory
<1> QED
  BY <1>2, <1>3 DEF t, Timed

\* Stopping a demo ends the loading state.
LEMMA StopOnBoardOK ==
  ASSUME NEW s, BoardOK(s)
  PROVE  LET t == StopOnBoard(s)
         IN  /\ BoardOK(t) /\ SameResult(s, t) /\ ~t.isRunning
             /\ Timed(s) => Timed(t)
<1>1. CASE s.isRunning
  BY <1>1, SetRunningOK DEF StopOnBoard
<1>2. CASE ~s.isRunning
  BY <1>2 DEF StopOnBoard, SameResult, SameHistory
<1> QED
  BY <1>1, <1>2

\* A beat moves the picture only.
LEMMA ApplyBeatOK ==
  ASSUME NEW s, BoardOK(s), NEW b \in BeatType
  PROVE  LET t == ApplyBeat(s, b)
         IN  BoardOK(t) /\ Kept(s, t) /\ (Timed(s) => Timed(t))
<1>1. CASE b.kind = "recovery"
  <2>1. b.restoredNodeIds \in SUBSET Asset /\ b.stageIndex \in Nat
    BY <1>1 DEF BeatType
  <2> QED
    BY <1>1, <2>1, ApplyRecoveryOK DEF ApplyBeat
<1>2. CASE b.kind = "collapse"
  <2>1. b.waveIndex \in Int
    BY <1>2 DEF BeatType
  <2> QED
    BY <1>2, <2>1, SetWaveOK DEF ApplyBeat
<1>3. CASE b.kind = "peak"
  <2>1. CASE s.result = None
    BY <1>3, <2>1 DEF ApplyBeat, Kept, SameResult, SameHistory
  <2>2. CASE s.result # None
    <3>1. LastWave(s.result) \in Int
      BY <2>2, ResultHasWaves DEF BoardOK, StoreType
    <3> QED
      BY <1>3, <2>2, <3>1, SetWaveOK DEF ApplyBeat
  <2> QED
    BY <2>1, <2>2
<1>4. b.kind \in {"recovery", "collapse", "peak"}
  BY DEF BeatType
<1> QED
  BY <1>1, <1>2, <1>3, <1>4

-------------------------------------------------------------------------------
(* The history. *)

\* The baseline's entry is in the history.
Flagged(s) == [id |-> s.baselineSimulationId, is_baseline |-> TRUE] \in ToSet(s.simulations)

\* The history has grown by no other run than id, and a baseline stays.
Grown(s, t, id) ==
  /\ HistoryIds(t) \subseteq HistoryIds(s) \cup {id}
  /\ t.baselineSimulationId \in {s.baselineSimulationId, id}
  /\ s.baselineSimulationId # None => t.baselineSimulationId = s.baselineSimulationId

\* The run is the newest of the history, if it is there.
Leads(s, id) == s.simulations[1].id = id

\* What the history holds of a run.
EntryType == [id : Nat, is_baseline : BOOLEAN]

\* The least of some numbers.
LEMMA MinOfNats ==
  ASSUME NEW S \in SUBSET Nat, S # {}
  PROVE  Min(S) \in S /\ \A k \in S : Min(S) <= k
<1>1. PICK m \in S : \A k \in S : ~ (<<k, m>> \in OpToRel(<, Nat))
  BY NatLessThanWellFounded, WFMin
<1>2. \A k \in S : ~ (k < m)
  BY <1>1 DEF OpToRel
<1>3. \A k \in S : m <= k
  BY <1>2
<1> QED
  BY <1>3 DEF Min

\* The ids of the history are those of its entries.
LEMMA HistoryIdsAre ==
  ASSUME NEW s, s.simulations \in Seq(EntryType)
  PROVE  /\ HistoryIds(s) = {e.id : e \in ToSet(s.simulations)}
         /\ ToSet(s.simulations) \subseteq EntryType
<1>1. DOMAIN s.simulations = 1 .. Len(s.simulations)
  BY LenProperties
<1>2. \A i \in DOMAIN s.simulations : s.simulations[i] \in EntryType
  BY <1>1, LenProperties
<1> QED
  BY <1>2 DEF HistoryIds, ToSet

\* What is kept of the history: no more than fits, and something.
LEMMA NewestIs ==
  ASSUME NEW h \in Seq(EntryType), h # <<>>
  PROVE  /\ Newest(h) \in Seq(EntryType) /\ Newest(h) # <<>>
         /\ Len(Newest(h)) <= MaxHistory
         /\ ToSet(Newest(h)) \subseteq ToSet(h)
         /\ Newest(h)[1] = h[1]
<1> DEFINE n == Min({Len(h), MaxHistory})
<1>1. Len(h) \in Nat \ {0} /\ DOMAIN h = 1 .. Len(h) /\ MaxHistory \in Nat \ {0}
  BY EmptySeq, LenProperties, MaxHistoryAssumption
<1>2. n \in Nat \ {0} /\ n <= Len(h) /\ n <= MaxHistory
  BY <1>1, MinOfTwo
<1> HIDE DEF n
<1>3. \A i \in 1 .. n : h[i] \in EntryType /\ 1 + i - 1 = i /\ i \in DOMAIN h
  BY <1>1, <1>2, ElementOfSeq
<1>4. /\ SubSeq(h, 1, n) \in Seq(EntryType) /\ Len(SubSeq(h, 1, n)) = n
      /\ \A i \in 1 .. n : SubSeq(h, 1, n)[i] = h[i]
  <2>1. n \in Int /\ 1 \in Int /\ 1 <= n /\ n - 1 + 1 = n
    BY <1>2
  <2> QED
    BY <1>3, <2>1, SubSeqProperties
<1>5. ToSet(SubSeq(h, 1, n)) \subseteq ToSet(h)
  <2>1. DOMAIN SubSeq(h, 1, n) = 1 .. n
    BY <1>4, LenProperties
  <2> QED
    BY <1>3, <1>4, <2>1 DEF ToSet
<1>6. SubSeq(h, 1, n) # <<>>
  BY <1>2, <1>4, EmptySeq
<1>7. SubSeq(h, 1, n)[1] = h[1]
  BY <1>2, <1>4
<1> QED
  BY <1>2, <1>4, <1>5, <1>6, <1>7 DEF Newest, n

\* An entry put in front.
LEMMA WithEntry ==
  ASSUME NEW h \in Seq(EntryType), NEW e \in EntryType
  PROVE  LET all == Newest(<<e>> \o h)
         IN  /\ all \in Seq(EntryType) /\ all # <<>> /\ Len(all) <= MaxHistory
             /\ ToSet(all) \subseteq ToSet(h) \cup {e} /\ all[1] = e
<1>1. <<e>> \in Seq(EntryType) /\ Len(<<e>>) = 1
  OBVIOUS
<1>2. /\ <<e>> \o h \in Seq(EntryType) /\ Len(<<e>> \o h) = 1 + Len(h)
      /\ (<<e>> \o h)[1] = e
  <2>1. Len(h) \in Nat
    BY LenProperties
  <2> QED
    BY <1>1, <2>1, ConcatProperties
<1>3. <<e>> \o h # <<>>
  BY <1>2, EmptySeq
<1>4. ToSet(<<e>> \o h) = ToSet(<<e>>) \cup ToSet(h)
  <2>1. Range(<<e>> \o h) = Range(<<e>>) \cup Range(h)
    BY <1>1, RangeConcatenation
  <2>2. \A t : ToSet(t) = Range(t)
    BY DEF ToSet, Range
  <2> QED
    BY <2>1, <2>2
<1>5. ToSet(<<e>>) = {e}
  BY DEF ToSet
<1>6. /\ Newest(<<e>> \o h) \in Seq(EntryType) /\ Newest(<<e>> \o h) # <<>>
      /\ Len(Newest(<<e>> \o h)) <= MaxHistory
      /\ ToSet(Newest(<<e>> \o h)) \subseteq ToSet(<<e>> \o h)
      /\ Newest(<<e>> \o h)[1] = (<<e>> \o h)[1]
  BY <1>2, <1>3, NewestIs
<1> QED
  BY <1>2, <1>4, <1>5, <1>6

\* Taking a run's entry out leaves a history.
LEMMA OthersAre ==
  ASSUME NEW s, s.simulations \in Seq(EntryType), NEW id
  PROVE  Others(s, id) \in Seq(EntryType) /\ ToSet(Others(s, id)) \subseteq ToSet(s.simulations)
<1> DEFINE h == s.simulations
           at == CHOOSE i \in DOMAIN h : h[i].id = id
<1>1. CASE id \notin HistoryIds(s)
  BY <1>1 DEF Others
<1>2. CASE id \in HistoryIds(s)
  <2>1. at \in DOMAIN h
    BY <1>2 DEF HistoryIds
  <2>2. Others(s, id) = RemoveAt(h, at)
    BY <1>2 DEF Others
  <2> HIDE DEF at
  <2>3. Len(h) \in Nat /\ DOMAIN h = 1 .. Len(h) /\ \A i \in 1 .. Len(h) : h[i] \in EntryType
    BY LenProperties
  <2> HIDE DEF h
  <2> DEFINE a == SubSeq(h, 1, at - 1)
             b == SubSeq(h, at + 1, Len(h))
  <2>4. a \in Seq(EntryType) /\ ToSet(a) \subseteq ToSet(h)
    <3>1. /\ \A i \in 1 .. at - 1 : h[i] \in EntryType /\ i \in DOMAIN h /\ 1 + i - 1 = i
          /\ at - 1 \in Int /\ 1 \in Int
      BY <2>1, <2>3
    <3>2. /\ a \in Seq(EntryType) /\ Len(a) = IF 1 <= at - 1 THEN (at - 1) - 1 + 1 ELSE 0
          /\ \A i \in 1 .. (at - 1) - 1 + 1 : a[i] = h[1 + i - 1]
      BY <3>1, SubSeqProperties
    <3>3. DOMAIN a = 1 .. at - 1 /\ (at - 1) - 1 + 1 = at - 1
      BY <2>1, <2>3, <3>2, LenProperties
    <3> QED
      BY <3>1, <3>2, <3>3 DEF ToSet
  <2>5. b \in Seq(EntryType) /\ ToSet(b) \subseteq ToSet(h)
    <3>1. /\ \A i \in at + 1 .. Len(h) : h[i] \in EntryType
          /\ at + 1 \in Int /\ Len(h) \in Int
      BY <2>1, <2>3
    <3>2. /\ b \in Seq(EntryType)
          /\ Len(b) = IF at + 1 <= Len(h) THEN Len(h) - (at + 1) + 1 ELSE 0
          /\ \A i \in 1 .. Len(h) - (at + 1) + 1 : b[i] = h[(at + 1) + i - 1]
      BY <3>1, SubSeqProperties
    <3>3. DOMAIN b = 1 .. Len(h) - (at + 1) + 1
      <4>1. DOMAIN b = 1 .. Len(b)
        BY <3>2, LenProperties
      <4> QED
        BY <2>1, <2>3, <3>2, <4>1
    <3>4. \A i \in 1 .. Len(h) - (at + 1) + 1 : (at + 1) + i - 1 \in DOMAIN h
      BY <2>1, <2>3
    <3>5. \A i \in DOMAIN b : b[i] \in ToSet(h)
      BY <3>2, <3>3, <3>4 DEF ToSet
    <3> QED
      BY <3>2, <3>5 DEF ToSet
  <2>6. a \o b \in Seq(EntryType)
    BY <2>4, <2>5, ConcatProperties
  <2>7. ToSet(a \o b) = ToSet(a) \cup ToSet(b)
    <3> HIDE DEF a, b
    <3>1. Range(a \o b) = Range(a) \cup Range(b)
      BY <2>4, <2>5, RangeConcatenation
    <3>2. \A t : ToSet(t) = Range(t)
      BY DEF ToSet, Range
    <3> QED
      BY <3>1, <3>2
  <2>8. RemoveAt(h, at) = a \o b
    BY DEF RemoveAt
  <2> HIDE DEF a, b
  <2> QED
    BY <2>2, <2>4, <2>5, <2>6, <2>7, <2>8 DEF h
<1> QED
  BY <1>1, <1>2

\* A history with the baseline's entry has a baseline.
LEMMA FlaggedIsSet ==
  ASSUME NEW s, BoardOK(s), HistoryOK(s)
  PROVE  /\ Flagged(s) => s.baselineSimulationId # None /\ s.simulations # <<>>
         /\ \A e \in ToSet(s.simulations) : e.is_baseline => e.id = s.baselineSimulationId
         /\ s.simulations \in Seq(EntryType)
         /\ s.baselineSimulationId \in Nat \cup {None}
<1>1. s.simulations \in Seq(EntryType) /\ s.baselineSimulationId \in Nat \cup {None}
  BY DEF BoardOK, StoreType, EntryType
<1>2. \A e \in ToSet(s.simulations) : e.is_baseline => e.id = s.baselineSimulationId
  BY DEF HistoryOK, ToSet
<1>3. ASSUME Flagged(s) PROVE s.baselineSimulationId # None /\ s.simulations # <<>>
  <2>1. PICK i \in DOMAIN s.simulations :
          s.simulations[i] = [id |-> s.baselineSimulationId, is_baseline |-> TRUE]
    BY <1>3 DEF Flagged, ToSet
  <2>2. s.simulations # <<>>
    BY <2>1
  <2>3. s.baselineSimulationId \in Nat
    BY <1>1, <1>3, HistoryIdsAre DEF Flagged, EntryType
  <2> QED
    BY <2>2, <2>3, NoneAssumption
<1> QED
  BY <1>1, <1>2, <1>3

\* The facts of a history, from those of its entries.
LEMMA HistoryFrom ==
  ASSUME NEW s, s.simulations # <<>>, Len(s.simulations) <= MaxHistory,
         \A e \in ToSet(s.simulations) : e.is_baseline => e.id = s.baselineSimulationId
  PROVE  HistoryOK(s)
  BY DEF HistoryOK, ToSet

\* An unchanged history keeps its facts.
LEMMA SameHistoryIsOK ==
  ASSUME NEW s, NEW t, SameHistory(s, t), NEW id
  PROVE  (HistoryOK(s) => HistoryOK(t)) /\ Grown(s, t, id) /\ HistoryIds(t) = HistoryIds(s)
  BY DEF SameHistory, HistoryOK, Grown, HistoryIds

\* addSimulation puts a run into the history, and no more.
LEMMA AddSimulationOK ==
  ASSUME NEW s, BoardOK(s), HistoryOK(s), NEW id \in Nat
  PROVE  LET t == AddSimulation(s, id)
         IN  /\ BoardOK(t) /\ HistoryOK(t) /\ Grown(s, t, id) /\ Leads(t, id)
             /\ t.result = s.result /\ t.savedNodeIds = s.savedNodeIds
             /\ t.isRunning = s.isRunning /\ (Timed(s) => Timed(t))
             /\ t.baselineSimulationId = s.baselineSimulationId
<1> DEFINE e == [id |-> id, is_baseline |-> FALSE]
           h == Newest(<<e>> \o Others(s, id))
           t == AddSimulation(s, id)
<1>1. e \in EntryType
  BY DEF EntryType
<1>2. s.simulations \in Seq(EntryType) /\ ToSet(s.simulations) \subseteq EntryType
  BY FlaggedIsSet, HistoryIdsAre
<1>3. Others(s, id) \in Seq(EntryType) /\ ToSet(Others(s, id)) \subseteq ToSet(s.simulations)
  BY <1>2, OthersAre
<1>4. /\ h \in Seq(EntryType) /\ h # <<>> /\ Len(h) <= MaxHistory
      /\ ToSet(h) \subseteq ToSet(s.simulations) \cup {e} /\ h[1] = e
  BY <1>1, <1>3, WithEntry
<1>5. t = [s EXCEPT !.simulations = h]
  BY DEF AddSimulation
<1> HIDE DEF h, t
<1>6. /\ t \in StoreType /\ t.simulations = h
      /\ t.result = s.result /\ t.savedNodeIds = s.savedNodeIds
      /\ t.isRunning = s.isRunning /\ t.isPlaying = s.isPlaying
      /\ t.currentWave = s.currentWave /\ t.failedNodeIds = s.failedNodeIds
      /\ t.restoredNodeIds = s.restoredNodeIds /\ t.intervals = s.intervals
      /\ t.recoveryStageIndex = s.recoveryStageIndex
      /\ t.animationTimer = s.animationTimer
      /\ t.baselineSimulationId = s.baselineSimulationId
  BY <1>4, <1>5 DEF BoardOK, StoreType, EntryType
<1>7. BoardOK(t)
  BY <1>4, <1>6 DEF BoardOK
<1>8. \A x \in ToSet(t.simulations) : x.is_baseline => x.id = t.baselineSimulationId
  BY <1>4, <1>6, FlaggedIsSet
<1>9. HistoryOK(t)
  BY <1>4, <1>6, <1>8, HistoryFrom
<1>10. HistoryIds(t) \subseteq HistoryIds(s) \cup {id}
  <2>1. HistoryIds(t) = {x.id : x \in ToSet(h)}
    BY <1>4, <1>6, HistoryIdsAre
  <2>2. HistoryIds(s) = {x.id : x \in ToSet(s.simulations)}
    BY <1>2, HistoryIdsAre
  <2> QED
    BY <1>4, <2>1, <2>2
<1> QED
  BY <1>4, <1>6, <1>7, <1>9, <1>10 DEF Grown, Leads, Timed, t

\* A recorded run is in a history of at most MaxHistory entries, of which only
\* the baseline is flagged.  It is the newest, unless the history had it before.
LEMMA RecordOK ==
  ASSUME NEW s, BoardOK(s), HistoryOK(s), NEW r \in ResultType
  PROVE  LET t == Record(s, r)
         IN  /\ BoardOK(t) /\ HistoryOK(t) /\ Grown(s, t, r.id)
             /\ t.simulations # <<>>
             /\ (r.id \in HistoryIds(s) => Leads(s, r.id)) => Leads(t, r.id)
<1> DEFINE isBaseline == s.baselineSimulationId = None \/ s.simulations = <<>>
           e == [id |-> r.id, is_baseline |-> isBaseline]
           h == IF r.id \in HistoryIds(s) THEN s.simulations
                ELSE Newest(<<e>> \o s.simulations)
           b == IF isBaseline /\ s.baselineSimulationId = None THEN r.id
                ELSE s.baselineSimulationId
           t == Record(s, r)
<1>1. r.id \in Nat /\ isBaseline \in BOOLEAN
  BY ResultHasWaves
<1>2. e \in EntryType
  BY <1>1 DEF EntryType
<1>3. s.simulations \in Seq(EntryType) /\ ToSet(s.simulations) \subseteq EntryType
  BY FlaggedIsSet, HistoryIdsAre
<1>4. b \in Nat \cup {None}
  BY <1>1, FlaggedIsSet
<1>5. isBaseline <=> s.baselineSimulationId = None
  BY DEF HistoryOK
<1>6. t = [s EXCEPT !.simulations = h, !.baselineSimulationId = b]
  BY DEF Record
<1> HIDE DEF t
<1>7. /\ h \in Seq(EntryType) /\ h # <<>> /\ Len(h) <= MaxHistory
      /\ ToSet(h) \subseteq ToSet(s.simulations) \cup {e}
      /\ r.id \in HistoryIds(s) => h = s.simulations
      /\ r.id \notin HistoryIds(s) => h[1] = e
  <2>1. CASE r.id \in HistoryIds(s)
    <3>1. s.simulations # <<>>
      BY <2>1 DEF HistoryIds
    <3> QED
      BY <1>3, <2>1, <3>1 DEF HistoryOK
  <2>2. CASE r.id \notin HistoryIds(s)
    <3> HIDE DEF e
    <3>1. LET all == Newest(<<e>> \o s.simulations)
          IN  /\ all \in Seq(EntryType) /\ all # <<>> /\ Len(all) <= MaxHistory
              /\ ToSet(all) \subseteq ToSet(s.simulations) \cup {e} /\ all[1] = e
      BY <1>2, <1>3, WithEntry
    <3> QED
      BY <2>2, <3>1
  <2> QED
    BY <2>1, <2>2
<1>8. \A x \in ToSet(h) : x.is_baseline => x.id = b
  <2> SUFFICES ASSUME NEW x \in ToSet(h), x.is_baseline PROVE x.id = b
    OBVIOUS
  <2>1. CASE x = e
    BY <1>5, <2>1
  <2>2. CASE x \in ToSet(s.simulations)
    <3>1. x.id = s.baselineSimulationId /\ x.id \in Nat
      BY <1>3, <2>2, FlaggedIsSet DEF EntryType
    <3> QED
      BY <1>5, <3>1, NoneAssumption
  <2> HIDE DEF e, h
  <2> QED
    BY <1>7, <2>1, <2>2
<1>9. /\ b \in {s.baselineSimulationId, r.id}
      /\ s.baselineSimulationId # None => b = s.baselineSimulationId
  OBVIOUS
<1>10. /\ ToSet(h) \subseteq ToSet(s.simulations) \cup {e} /\ e.id = r.id
       /\ r.id \in HistoryIds(s) => h = s.simulations
       /\ r.id \notin HistoryIds(s) => h[1] = e
  BY <1>7
<1> HIDE DEF h, b, e, isBaseline
<1>11. /\ t \in StoreType /\ t.simulations = h /\ t.baselineSimulationId = b
       /\ t.result = s.result /\ t.savedNodeIds = s.savedNodeIds
       /\ t.isPlaying = s.isPlaying
       /\ t.currentWave = s.currentWave /\ t.failedNodeIds = s.failedNodeIds
       /\ t.restoredNodeIds = s.restoredNodeIds /\ t.intervals = s.intervals
       /\ t.recoveryStageIndex = s.recoveryStageIndex
       /\ t.animationTimer = s.animationTimer
  BY <1>4, <1>6, <1>7 DEF BoardOK, StoreType, EntryType
<1>12. BoardOK(t)
  BY <1>7, <1>11 DEF BoardOK
<1>13. HistoryOK(t)
  BY <1>7, <1>8, <1>11, HistoryFrom
<1>14. HistoryIds(t) \subseteq HistoryIds(s) \cup {r.id}
  <2>1. HistoryIds(t) = {x.id : x \in ToSet(h)}
    BY <1>7, <1>11, HistoryIdsAre
  <2>2. HistoryIds(s) = {x.id : x \in ToSet(s.simulations)}
    BY <1>3, HistoryIdsAre
  <2> QED
    BY <1>10, <2>1, <2>2
<1>15. (r.id \in HistoryIds(s) => Leads(s, r.id)) => Leads(t, r.id)
  BY <1>10, <1>11 DEF Leads
<1> QED
  BY <1>7, <1>9, <1>11, <1>12, <1>13, <1>14, <1>15 DEF Grown, t

-------------------------------------------------------------------------------
(* The board empties, and takes a result. *)

\* A page load keeps the history, and the baseline if its entry is there.
LEMMA InitialStoreOK ==
  ASSUME NEW s, s.simulations \in Seq(EntryType), HistoryOK(s)
  PROVE  LET t == InitialStore(s.simulations)
         IN  /\ BoardOK(t) /\ HistoryOK(t) /\ Timed(t)
             /\ t.simulations = s.simulations /\ t.result = None /\ ~t.isRunning
             /\ t.baselineSimulationId \in HistoryIds(s) \cup {None}
             /\ Flagged(s) => t.baselineSimulationId = s.baselineSimulationId
<1> DEFINE h == s.simulations
           b == InitialBaseline(h)
           flagged == {i \in DOMAIN h : h[i].is_baseline}
           t == InitialStore(h)
<1>1. Len(h) \in Nat /\ DOMAIN h = 1 .. Len(h) /\ \A i \in DOMAIN h : h[i] \in EntryType
  BY LenProperties
<1>2. b = IF flagged # {} THEN h[Min(flagged)].id
          ELSE IF h # <<>> THEN h[1].id ELSE None
  BY DEF InitialBaseline
<1>3. flagged # {} => Min(flagged) \in flagged
  <2>1. flagged \in SUBSET Nat
    BY <1>1
  <2> HIDE DEF flagged
  <2> QED
    BY <2>1, MinOfNats
<1>4. h # <<>> => 1 \in DOMAIN h
  BY <1>1, EmptySeq
<1>5. /\ b \in HistoryIds(s) \cup {None}
      /\ h = <<>> => b = None
      /\ \A i \in DOMAIN h : h[i].is_baseline => h[i].id = b
      /\ Flagged(s) => b = s.baselineSimulationId
  <2>1. CASE flagged # {}
    <3>1. b = h[Min(flagged)].id /\ Min(flagged) \in DOMAIN h /\ h[Min(flagged)].is_baseline
      BY <1>2, <1>3, <2>1
    <3>2. b = s.baselineSimulationId
      BY <3>1 DEF HistoryOK
    <3>3. b \in HistoryIds(s)
      BY <3>1 DEF HistoryIds
    <3>4. h # <<>>
      BY <2>1
    <3> QED
      BY <3>2, <3>3, <3>4 DEF HistoryOK
  <2>2. CASE flagged = {}
    <3>1. \A i \in DOMAIN h : ~h[i].is_baseline
      BY <2>2
    <3>2. ~Flagged(s)
      BY <3>1 DEF Flagged, ToSet
    <3>3. b \in HistoryIds(s) \cup {None} /\ (h = <<>> => b = None)
      BY <1>2, <1>4, <2>2 DEF HistoryIds
    <3> QED
      BY <3>1, <3>2, <3>3
  <2> QED
    BY <2>1, <2>2
<1>6. HistoryIds(s) \subseteq Nat
  BY <1>1 DEF HistoryIds, EntryType
<1> HIDE DEF b, flagged
<1>7. t = [result |-> None, currentWave |-> -1, failedNodeIds |-> {},
           restoredNodeIds |-> {}, recoveryStageIndex |-> -1, savedNodeIds |-> {},
           isPlaying |-> FALSE, animationTimer |-> None, intervals |-> {}, autoplays |-> 0,
           isRunning |-> FALSE, runError |-> FALSE, simulations |-> h,
           baselineSimulationId |-> b]
  BY DEF InitialStore, b
<1> HIDE DEF t
<1>8. t \in StoreType
  <2>1. h \in Seq([id : Nat, is_baseline : BOOLEAN]) /\ b \in Nat \cup {None}
    BY <1>5, <1>6 DEF EntryType
  <2> HIDE DEF h
  <2> QED
    BY <1>7, <2>1, -1 \in Int, 0 \in Nat DEF StoreType
<1>9. BoardOK(t)
  BY <1>7, <1>8 DEF BoardOK
<1>10. HistoryOK(t)
  BY <1>5, <1>7 DEF HistoryOK
<1> QED
  BY <1>5, <1>7, <1>9, <1>10 DEF Timed, t

\* reset() clears the picture, not the history.
LEMMA ResetOK ==
  ASSUME NEW s, BoardOK(s)
  PROVE  LET t == Reset(s)
         IN  /\ BoardOK(t) /\ SameHistory(s, t) /\ Timed(t)
             /\ t.result = None /\ ~t.isRunning /\ t.autoplays = s.autoplays
<1> DEFINE t == Reset(s)
           b == InitialBaseline(s.simulations)
           u == InitialStore(s.simulations)
<1>1. u = [result |-> None, currentWave |-> -1, failedNodeIds |-> {},
           restoredNodeIds |-> {}, recoveryStageIndex |-> -1, savedNodeIds |-> {},
           isPlaying |-> FALSE, animationTimer |-> None, intervals |-> {}, autoplays |-> 0,
           isRunning |-> FALSE, runError |-> FALSE, simulations |-> s.simulations,
           baselineSimulationId |-> b]
  BY DEF InitialStore
<1>2. s.intervals \ {s.animationTimer} = {}
  BY DEF BoardOK
<1>3. t = [u EXCEPT !.baselineSimulationId = s.baselineSimulationId,
                    !.intervals = {}, !.autoplays = s.autoplays]
  BY <1>2 DEF Reset
<1> HIDE DEF b, t, u
<1>4. t \in StoreType
  BY <1>1, <1>3, -1 \in Int, 0 \in Nat DEF BoardOK, StoreType
<1>5. /\ t.result = None /\ t.failedNodeIds = {} /\ t.savedNodeIds = {} /\ t.currentWave = -1
      /\ t.intervals = {} /\ t.isPlaying = FALSE /\ t.isRunning = FALSE
      /\ t.autoplays = s.autoplays /\ SameHistory(s, t)
  BY <1>1, <1>3 DEF SameHistory
<1>6. BoardOK(t)
  BY <1>4, <1>5 DEF BoardOK
<1> QED
  BY <1>5, <1>6 DEF Timed, t

\* A new result is shown before its cascade, with no timer and nothing saved.
LEMMA SetSimulationResultOK ==
  ASSUME NEW s, BoardOK(s), HistoryOK(s), NEW r \in ResultType, NEW autoplay \in BOOLEAN
  PROVE  LET t == SetSimulationResult(s, r, autoplay)
         IN  /\ BoardOK(t) /\ HistoryOK(t) /\ Grown(s, t, r.id) /\ Timed(t)
             /\ t.result = r /\ t.savedNodeIds = {} /\ ~t.isRunning
             /\ (r.id \in HistoryIds(s) => Leads(s, r.id)) => Leads(t, r.id)
<1> DEFINE t == SetSimulationResult(s, r, autoplay)
           p == Record(s, r)
           q == Reset(p)
           n == IF autoplay /\ r.waves # <<>> THEN q.autoplays + 1 ELSE q.autoplays
<1>1. /\ BoardOK(p) /\ HistoryOK(p) /\ Grown(s, p, r.id) /\ p.simulations # <<>>
      /\ (r.id \in HistoryIds(s) => Leads(s, r.id)) => Leads(p, r.id)
  BY RecordOK
<1>2. BoardOK(q) /\ SameHistory(p, q) /\ Timed(q) /\ q.result = None /\ ~q.isRunning
  BY <1>1, ResetOK
<1>3. t = [q EXCEPT !.result = r, !.autoplays = n]
  BY DEF SetSimulationResult
<1>4. n \in Nat
  BY <1>2 DEF BoardOK, StoreType
<1>5. /\ q.failedNodeIds = {} /\ q.savedNodeIds = {} /\ q.restoredNodeIds = {}
      /\ q.currentWave = -1 /\ q.intervals = {} /\ q.isPlaying = FALSE
      /\ q.recoveryStageIndex = -1
  <2>1. q.restoredNodeIds = {} /\ q.isPlaying = FALSE /\ q.recoveryStageIndex = -1
    BY DEF Reset, InitialStore
  <2> QED
    BY <1>2, <2>1 DEF BoardOK
<1>6. FailedUpTo(r, -1) = {} /\ -1 \in -1 .. LastWave(r) /\ r # None
  BY ResultHasWaves, FailedUpToSteps
<1> HIDE DEF t, p, q, n
<1>7. t \in StoreType
  BY <1>2, <1>3, <1>4 DEF BoardOK, StoreType
<1>8. /\ t.result = r /\ t.currentWave = -1 /\ t.failedNodeIds = {} /\ t.savedNodeIds = {}
      /\ t.restoredNodeIds = {} /\ t.recoveryStageIndex = -1 /\ t.intervals = {}
      /\ t.isPlaying = FALSE /\ t.isRunning = q.isRunning /\ SameHistory(p, t)
  BY <1>2, <1>3, <1>5 DEF BoardOK, StoreType, SameHistory
<1>9. BoardOK(t)
  BY <1>1, <1>6, <1>7, <1>8 DEF BoardOK, SameHistory
<1>10. HistoryOK(t) /\ HistoryIds(t) = HistoryIds(p)
  BY <1>1, <1>8, SameHistoryIsOK
<1>11. Grown(s, t, r.id)
  BY <1>1, <1>8, <1>10 DEF Grown, SameHistory
<1>12. Leads(p, r.id) => Leads(t, r.id)
  BY <1>8 DEF Leads, SameHistory
<1> QED
  BY <1>1, <1>2, <1>8, <1>9, <1>10, <1>11, <1>12 DEF Timed, t

\* What is ringed as saved must not have failed in the result on the board.
LEMMA SetSavedNodesOK ==
  ASSUME NEW s, BoardOK(s), NEW saved \in SUBSET Asset,
         s.result # None, saved \cap FailedIn(s.result) = {}
  PROVE  LET t == SetSavedNodes(s, saved)
         IN  /\ BoardOK(t) /\ SameHistory(s, t) /\ (Timed(s) => Timed(t))
             /\ t.result = s.result /\ t.savedNodeIds = saved /\ t.isRunning = s.isRunning
<1> DEFINE t == SetSavedNodes(s, saved)
<1>1. t \in StoreType
  BY DEF BoardOK, StoreType, SetSavedNodes
<1>2. /\ t.result = s.result /\ t.savedNodeIds = saved /\ t.isRunning = s.isRunning
      /\ t.isPlaying = s.isPlaying /\ SameHistory(s, t)
      /\ t.currentWave = s.currentWave /\ t.failedNodeIds = s.failedNodeIds
      /\ t.restoredNodeIds = s.restoredNodeIds /\ t.intervals = s.intervals
      /\ t.recoveryStageIndex = s.recoveryStageIndex
      /\ t.animationTimer = s.animationTimer
  BY DEF BoardOK, StoreType, SetSavedNodes, SameHistory
<1> HIDE DEF t
<1>3. BoardOK(t)
  BY <1>1, <1>2 DEF BoardOK, SameHistory
<1> QED
  BY <1>2, <1>3 DEF Timed, t

\* An intervention names a baseline where there is none; no entry is its.
LEMMA SetBaselineOK ==
  ASSUME NEW s, BoardOK(s), HistoryOK(s), s.result # None,
         s.baselineSimulationId = None, NEW id \in Nat
  PROVE  LET t == SetBaselineSimulationId(s, id)
         IN  /\ BoardOK(t) /\ HistoryOK(t) /\ (Timed(s) => Timed(t))
             /\ t.result = s.result /\ t.savedNodeIds = s.savedNodeIds
             /\ t.isRunning = s.isRunning /\ t.simulations = s.simulations
             /\ t.baselineSimulationId = id /\ ~Flagged(s)
<1> DEFINE t == SetBaselineSimulationId(s, id)
<1>1. t \in StoreType
  BY DEF BoardOK, StoreType, SetBaselineSimulationId
<1>2. /\ t.result = s.result /\ t.savedNodeIds = s.savedNodeIds /\ t.isRunning = s.isRunning
      /\ t.isPlaying = s.isPlaying /\ t.simulations = s.simulations
      /\ t.baselineSimulationId = id
      /\ t.currentWave = s.currentWave /\ t.failedNodeIds = s.failedNodeIds
      /\ t.restoredNodeIds = s.restoredNodeIds /\ t.intervals = s.intervals
      /\ t.recoveryStageIndex = s.recoveryStageIndex
      /\ t.animationTimer = s.animationTimer
  BY DEF BoardOK, StoreType, SetBaselineSimulationId
<1> HIDE DEF t
<1>3. BoardOK(t)
  BY <1>1, <1>2 DEF BoardOK
<1>4. \A e \in ToSet(s.simulations) : ~e.is_baseline
  <2>1. ToSet(s.simulations) \subseteq EntryType
    BY FlaggedIsSet, HistoryIdsAre
  <2> QED
    BY <2>1, FlaggedIsSet, NoneAssumption DEF EntryType
<1>5. HistoryOK(t)
  <2>1. s.simulations # <<>> /\ Len(s.simulations) <= MaxHistory
    BY DEF BoardOK, HistoryOK
  <2> QED
    BY <1>2, <1>4, <2>1, HistoryFrom
<1>6. ~Flagged(s)
  BY FlaggedIsSet
<1> QED
  BY <1>2, <1>3, <1>5, <1>6 DEF Timed, t

\* A delayed play() is taken off before it plays.
LEMMA AutoplayFires ==
  ASSUME NEW s, BoardOK(s), s.autoplays > 0
  PROVE  LET t == [s EXCEPT !.autoplays = @ - 1]
         IN  BoardOK(t) /\ Kept(s, t)
<1> DEFINE t == [s EXCEPT !.autoplays = @ - 1]
<1>1. t \in StoreType
  <2>1. s.autoplays - 1 \in Nat
    BY DEF BoardOK, StoreType
  <2> QED
    BY <2>1 DEF BoardOK, StoreType
<1>2. /\ Kept(s, t) /\ t.isPlaying = s.isPlaying
      /\ t.currentWave = s.currentWave /\ t.failedNodeIds = s.failedNodeIds
      /\ t.restoredNodeIds = s.restoredNodeIds /\ t.intervals = s.intervals
      /\ t.recoveryStageIndex = s.recoveryStageIndex
      /\ t.animationTimer = s.animationTimer
  BY DEF BoardOK, StoreType, Kept, SameResult, SameHistory
<1> HIDE DEF t
<1>3. BoardOK(t)
  BY <1>1, <1>2 DEF BoardOK, Kept, SameResult, SameHistory
<1> QED
  BY <1>2, <1>3 DEF t

-------------------------------------------------------------------------------
(* The demo. *)

\* The demo, its beats and where it stands are the same.
SameTimeline(d, e) ==
  /\ e.activePresetId = d.activePresetId /\ e.beats = d.beats
  /\ e.beatsOf = d.beatsOf /\ e.beatIndex = d.beatIndex

\* A stopped demo has no beats.
LEMMA IdleOK ==
  DemoOK(Idle) /\ Idle.activePresetId = None /\ Idle.beats = <<>>
<1> DEFINE d == Idle
<1>1. /\ d.activePresetId = None /\ d.phase = "idle" /\ d.beats = <<>> /\ d.beatIndex = -1
      /\ d.beatsOf = None
  BY DEF Idle
<1>2. d \in DemoType
  BY EmptySeq, -1 \in Int DEF Idle, DemoType
<1>3. LastBeat(d) = -1
  BY <1>1, EmptySeq DEF LastBeat
<1> HIDE DEF d
<1>4. DemoOK(d)
  BY <1>1, <1>2, <1>3 DEF DemoOK, RecoveryIsLast
<1> QED
  BY <1>1, <1>4 DEF d

\* An armed demo has none yet.
LEMMA ArmOK ==
  ASSUME NEW preset \in Preset
  PROVE  LET d == Arm(preset)
         IN  DemoOK(d) /\ d.activePresetId = preset /\ d.beats = <<>> /\ d.beatIndex = -1
<1> DEFINE d == Arm(preset)
<1>1. /\ d.activePresetId = preset /\ d.phase = "arming" /\ d.beats = <<>> /\ d.beatIndex = -1
      /\ d.beatsOf = None
  BY DEF Arm, Idle
<1>2. d \in DemoType
  <2>1. Idle \in DemoType
    BY IdleOK DEF DemoOK
  <2> QED
    BY <2>1 DEF Arm, DemoType
<1>3. LastBeat(d) = -1 /\ preset # None
  BY <1>1, EmptySeq, NoneAssumption DEF LastBeat
<1> HIDE DEF d
<1>4. DemoOK(d)
  BY <1>1, <1>2, <1>3 DEF DemoOK, RecoveryIsLast
<1> QED
  BY <1>1, <1>4 DEF d

\* Failing, finishing and pausing leave the demo where it is.
LEMMA PhaseOK ==
  ASSUME NEW d, DemoOK(d)
  PROVE  /\ DemoOK(Fail(d)) /\ SameTimeline(d, Fail(d))
         /\ DemoOK(Finish(d)) /\ SameTimeline(d, Finish(d))
         /\ DemoOK(PauseForRecovery(d)) /\ SameTimeline(d, PauseForRecovery(d))
<1>1. ASSUME NEW phase \in {"error", "complete", "awaiting-recovery"},
             NEW e, e = [d EXCEPT !.phase = phase, !.isAutoPlaying = FALSE]
      PROVE  DemoOK(e) /\ SameTimeline(d, e)
  <2>1. e \in DemoType
    BY <1>1 DEF DemoOK, DemoType
  <2>2. e.phase = phase /\ SameTimeline(d, e) /\ e.hasRunRecovery = d.hasRunRecovery
    BY <1>1 DEF DemoOK, DemoType, SameTimeline
  <2>3. LastBeat(e) = LastBeat(d) /\ \A i : Beat(e, i) = Beat(d, i)
    BY <2>2 DEF LastBeat, Beat, SameTimeline
  <2>4. DemoOK(e)
    BY <2>1, <2>2, <2>3 DEF DemoOK, SameTimeline
  <2> QED
    BY <2>2, <2>4
<1> QED
  BY <1>1 DEF Fail, Finish, PauseForRecovery

\* A beat may be shown if act 2 has been run or the beat is not of it.
LEMMA GoToBeatOK ==
  ASSUME NEW d \in DemoType, RecoveryIsLast(d.beats), d.beatsOf # None,
         NEW index \in 0 .. LastBeat(d), NEW auto \in BOOLEAN,
         Beat(d, index).kind = "recovery" => d.hasRunRecovery
  PROVE  LET e == GoToBeat(d, index, auto)
         IN  /\ DemoOK(e) /\ e.activePresetId = d.activePresetId
             /\ e.beats = d.beats /\ e.beatsOf = d.beatsOf
             /\ Beat(d, index) \in BeatType
<1> DEFINE e == GoToBeat(d, index, auto)
           phase == IF auto THEN Beat(d, index).kind ELSE "complete"
<1>1. Beat(d, index) \in BeatType
  <2>1. d.beats \in Seq(BeatType)
    BY DEF DemoType
  <2>2. index + 1 \in 1 .. Len(d.beats)
    BY <2>1, LenProperties DEF LastBeat
  <2> QED
    BY <2>1, <2>2, ElementOfSeq DEF Beat
<1>2. Beat(d, index).kind \in {"collapse", "peak", "recovery"}
  BY <1>1 DEF BeatType
<1>3. phase \in {"collapse", "peak", "recovery", "complete"}
  BY <1>2
<1>4. e = [d EXCEPT !.beatIndex = index, !.isAutoPlaying = auto, !.phase = phase]
  BY DEF GoToBeat
<1>5. index \in Int
  OBVIOUS
<1> HIDE DEF e, phase
<1>6. e \in DemoType
  BY <1>3, <1>4, <1>5 DEF DemoType
<1>7. /\ e.phase = phase /\ e.beats = d.beats /\ e.beatsOf = d.beatsOf
      /\ e.activePresetId = d.activePresetId
      /\ e.beatIndex = index /\ e.hasRunRecovery = d.hasRunRecovery
  BY <1>4 DEF DemoType
<1>8. LastBeat(e) = LastBeat(d) /\ Beat(e, index) = Beat(d, index) /\ LastBeat(d) \in Int
  BY <1>7, LenProperties DEF LastBeat, Beat, DemoType
<1>9. phase # "arming" /\ index \in -1 .. LastBeat(e)
  BY <1>3, <1>8
<1>10. DemoOK(e)
  BY <1>6, <1>7, <1>8, <1>9 DEF DemoOK
<1> QED
  BY <1>1, <1>7, <1>10 DEF e

\* The timeline of a run: the beats of act 1 before those of act 2.
LEMMA BuildBeatsOK ==
  ASSUME NEW r \in ResultType
  PROVE  LET beats == BuildBeats(r)
         IN  /\ beats \in Seq(BeatType) /\ Len(beats) \in Nat \ {0} /\ RecoveryIsLast(beats)
             /\ beats[1].kind # "recovery"
<1> DEFINE plan == BuildRecoveryPlan(r.waves)
           f == [i \in DOMAIN r.waves |-> [kind |-> "collapse", waveIndex |-> i - 1]]
           p == <<[kind |-> "peak"]>>
           g == [i \in DOMAIN plan |->
                  [kind |-> "recovery", stageIndex |-> i - 1,
                   restoredNodeIds |-> plan[i].restoredNodeIds,
                   milestone |-> plan[i].milestone]]
           fp == f \o p
           beats == BuildBeats(r)
<1>1. /\ Len(r.waves) \in Nat \ {0} /\ DOMAIN r.waves = 1 .. Len(r.waves)
      /\ r.waves \in Seq(Seq(Asset))
  BY ResultHasWaves
<1>2. f \in Seq(BeatType) /\ Len(f) = Len(r.waves) /\ \A i \in 1 .. Len(r.waves) : f[i].kind = "collapse"
  <2>1. \A i \in 1 .. Len(r.waves) : [kind |-> "collapse", waveIndex |-> i - 1] \in BeatType
    BY <1>1 DEF BeatType
  <2> QED
    BY <1>1, <2>1
<1>3. p \in Seq(BeatType) /\ Len(p) = 1 /\ p[1].kind = "peak"
  <2>1. [kind |-> "peak"] \in BeatType
    BY DEF BeatType
  <2> QED
    BY <2>1
<1>4. g \in Seq(BeatType) /\ Len(g) = Len(plan) /\ Len(plan) \in Nat
      /\ \A i \in 1 .. Len(plan) : g[i].kind = "recovery"
  <2>1. /\ DOMAIN plan = 1 .. Len(plan) /\ Len(plan) = Len(Batches(r.waves))
        /\ \A i \in DOMAIN plan :
             plan[i].milestone \in {0} \cup RECOVERY_MILESTONES
    BY <1>1, AssetAssumption, PlanIs
  <2>2. Len(plan) \in Nat
    BY <1>1, <2>1, AssetAssumption, BatchesHoldAll, LenProperties
  <2>3. \A i \in 1 .. Len(plan) : plan[i].restoredNodeIds \in SUBSET Asset
    <3>1. \A i \in 1 .. Len(plan) : i # 0
      BY <2>2
    <3>2. \A i \in 1 .. Len(plan) : plan[i].restoredNodeIds \subseteq FailedNodeIdsForResult(r.waves)
      BY <1>1, <3>1, AssetAssumption, RestorationIsSteadyAndWhole
    <3>3. FailedNodeIdsForResult(r.waves) \subseteq Asset
      BY <1>1, AssetAssumption, FailedAreAssets
    <3> QED
      BY <3>2, <3>3
  <2> HIDE DEF plan
  <2>4. \A i \in 1 .. Len(plan) :
          [kind |-> "recovery", stageIndex |-> i - 1,
           restoredNodeIds |-> plan[i].restoredNodeIds,
           milestone |-> plan[i].milestone] \in BeatType
    <3> SUFFICES ASSUME NEW i \in 1 .. Len(plan)
                 PROVE  [kind |-> "recovery", stageIndex |-> i - 1,
                         restoredNodeIds |-> plan[i].restoredNodeIds,
                         milestone |-> plan[i].milestone] \in BeatType
      OBVIOUS
    <3>1. i - 1 \in Nat /\ plan[i].milestone \in {0} \cup RECOVERY_MILESTONES
      BY <2>1, <2>2
    <3> QED
      BY <2>3, <3>1 DEF BeatType
  <2> QED
    BY <2>1, <2>2, <2>4
<1>5. beats = fp \o g
  BY DEF BuildBeats
<1> HIDE DEF f, p, g, beats, plan
<1>6. /\ fp \in Seq(BeatType) /\ Len(fp) = Len(r.waves) + 1
      /\ \A i \in 1 .. Len(r.waves) + 1 : fp[i].kind # "recovery"
  <2>1. /\ fp \in Seq(BeatType) /\ Len(fp) = Len(r.waves) + 1
        /\ \A i \in 1 .. Len(r.waves) + 1 :
             fp[i] = IF i <= Len(r.waves) THEN f[i] ELSE p[i - Len(r.waves)]
    <3>0. f \in Seq(BeatType) /\ p \in Seq(BeatType)
      BY <1>2, <1>3
    <3>1. /\ fp \in Seq(BeatType) /\ Len(fp) = Len(f) + Len(p)
          /\ \A i \in 1 .. Len(f) + Len(p) :
               fp[i] = IF i <= Len(f) THEN f[i] ELSE p[i - Len(f)]
      BY <3>0, ConcatProperties, Zenon
    <3> HIDE DEF fp
    <3> QED
      BY <1>2, <1>3, <3>1
  <2>2. ASSUME NEW i \in 1 .. Len(r.waves) + 1 PROVE fp[i].kind # "recovery"
    <3>1. CASE i <= Len(r.waves)
      BY <1>1, <1>2, <2>1, <3>1
    <3>2. CASE i = Len(r.waves) + 1
      <4>1. fp[i] = p[1]
        BY <1>1, <2>1, <3>2
      <4> QED
        BY <1>3, <4>1
    <3>3. i <= Len(r.waves) \/ i = Len(r.waves) + 1
      BY <1>1
    <3> QED
      BY <3>1, <3>2, <3>3
  <2> QED
    BY <2>1, <2>2
<1> HIDE DEF fp
<1>7. /\ beats \in Seq(BeatType) /\ Len(beats) = Len(r.waves) + 1 + Len(plan)
      /\ \A i \in 1 .. Len(beats) :
           beats[i] = IF i <= Len(r.waves) + 1 THEN fp[i] ELSE g[i - (Len(r.waves) + 1)]
  <2>2. /\ fp \o g \in Seq(BeatType) /\ Len(fp \o g) = Len(fp) + Len(g)
        /\ \A i \in 1 .. Len(fp) + Len(g) :
             (fp \o g)[i] = IF i <= Len(fp) THEN fp[i] ELSE g[i - Len(fp)]
    BY <1>4, <1>6, ConcatProperties, Zenon
  <2>3. /\ beats \in Seq(BeatType) /\ Len(beats) = Len(r.waves) + 1 + Len(plan)
        /\ \A i \in 1 .. Len(beats) :
             beats[i] = IF i <= Len(r.waves) + 1 THEN fp[i] ELSE g[i - (Len(r.waves) + 1)]
    BY <1>1, <1>4, <1>5, <1>6, <2>2
  <2> QED
    BY <2>3
<1>8. \A i \in 1 .. Len(beats) : beats[i].kind = "recovery" <=> i > Len(r.waves) + 1
  <2> SUFFICES ASSUME NEW i \in 1 .. Len(beats)
               PROVE  beats[i].kind = "recovery" <=> i > Len(r.waves) + 1
    OBVIOUS
  <2>1. CASE i <= Len(r.waves) + 1
    <3>1. i \in 1 .. Len(r.waves) + 1
      BY <1>1, <2>1
    <3>2. beats[i] = fp[i]
      BY <1>7, <2>1
    <3>3. fp[i].kind # "recovery"
      BY <1>6, <3>1
    <3> QED
      BY <1>1, <2>1, <3>2, <3>3
  <2>2. CASE i > Len(r.waves) + 1
    <3>1. i - (Len(r.waves) + 1) \in 1 .. Len(plan)
      BY <1>1, <1>4, <1>7, <2>2
    <3>2. beats[i] = g[i - (Len(r.waves) + 1)]
      BY <1>1, <1>7, <2>2
    <3> QED
      BY <1>4, <2>2, <3>1, <3>2
  <2> QED
    BY <1>1, <2>1, <2>2
<1>9. Len(beats) \in Nat \ {0} /\ DOMAIN beats = 1 .. Len(beats)
  BY <1>1, <1>4, <1>7, LenProperties
<1>10. RecoveryIsLast(beats)
  BY <1>1, <1>8, <1>9 DEF RecoveryIsLast
<1>11. beats[1].kind # "recovery"
  BY <1>1, <1>8, <1>9
<1> QED
  BY <1>7, <1>9, <1>10, <1>11 DEF beats

\* A result arrives at a demo that has no beats yet.
LEMMA LoadBeatsOK ==
  ASSUME NEW d, DemoOK(d), d.beats = <<>>, NEW r \in ResultType
  PROVE  LET d1 == LoadBeats(d, r)
             e  == IF Opens(d1) THEN GoToBeat(d1, 0, TRUE) ELSE d1
         IN  /\ DemoOK(e) /\ e.activePresetId = d.activePresetId
             /\ e.beats # <<>> /\ e.beatsOf = r.id
             /\ Beat(d1, 0) \in BeatType
<1> DEFINE beats == BuildBeats(r)
           d1 == LoadBeats(d, r)
           e  == IF Opens(d1) THEN GoToBeat(d1, 0, TRUE) ELSE d1
<1>1. /\ beats \in Seq(BeatType) /\ Len(beats) \in Nat \ {0} /\ RecoveryIsLast(beats)
      /\ beats[1].kind # "recovery" /\ beats # <<>>
  BY BuildBeatsOK, EmptySeq
<1>2. d1 = [d EXCEPT !.beats = beats, !.beatsOf = r.id]
  BY DEF LoadBeats
<1>3. r.id \in Nat /\ r.id # None
  BY ResultHasWaves, NoneAssumption
<1> HIDE DEF beats
<1>4. d1 \in DemoType
  BY <1>1, <1>2, <1>3 DEF DemoOK, DemoType
<1>5. /\ d1.beats = beats /\ d1.beatsOf = r.id /\ d1.activePresetId = d.activePresetId
      /\ d1.phase = d.phase /\ d1.beatIndex = d.beatIndex
  BY <1>2 DEF DemoOK, DemoType
<1> HIDE DEF d1
<1>6. d.beatIndex = -1
  <2>1. LastBeat(d) = -1
    BY EmptySeq DEF LastBeat
  <2> QED
    BY <2>1 DEF DemoOK
<1>7. 0 \in 0 .. LastBeat(d1) /\ Beat(d1, 0).kind # "recovery"
  BY <1>1, <1>5 DEF LastBeat, Beat
<1>8. LET x == GoToBeat(d1, 0, TRUE)
      IN  /\ DemoOK(x) /\ x.activePresetId = d1.activePresetId
          /\ x.beats = d1.beats /\ x.beatsOf = d1.beatsOf
          /\ Beat(d1, 0) \in BeatType
  BY <1>1, <1>3, <1>4, <1>5, <1>7, GoToBeatOK
<1>9. CASE Opens(d1)
  BY <1>1, <1>5, <1>8, <1>9 DEF d1
<1>10. CASE ~Opens(d1)
  <2>1. d1.phase # "arming"
    BY <1>5, <1>6, <1>10 DEF Opens
  <2>2. -1 \in -1 .. LastBeat(d1) /\ ~(-1 >= 0)
    <3>1. LastBeat(d1) \in Int /\ LastBeat(d1) >= 0
      BY <1>1, <1>5 DEF LastBeat
    <3> QED
      BY <3>1
  <2>3. DemoOK(d1)
    BY <1>1, <1>3, <1>4, <1>5, <1>6, <2>1, <2>2 DEF DemoOK
  <2> QED
    BY <1>1, <1>5, <1>8, <1>10, <2>3 DEF d1
<1> QED
  BY <1>9, <1>10

-------------------------------------------------------------------------------
(* The invariant, conjunct by conjunct, when nothing but the stores moves. *)

\* The invariant gives the types and the ids.
LEMMA TypesImply ==
  ASSUME IInv
  PROVE  TypeOK
<1>1. store \in StoreType /\ Len(store.simulations) <= MaxHistory
  BY DEF IInv, StoresOK, BoardOK, HistoryOK
<1>2. demo \in DemoType /\ demo.beatIndex \in -1 .. LastBeat(demo)
  BY DEF IInv, StoresOK, DemoOK
<1>3. Len(runs) <= clicks
  <2>1. Asked \in Nat
    <3>1. IsFiniteSet(CardsPosting)
      BY CardAssumption, FS_Subset DEF CardsPosting
    <3>2. Cardinality(CardsPosting) \in Nat
      BY <3>1, FS_CardinalityType
    <3> QED
      BY <3>2 DEF Asked
  <2>2. Len(runs) \in Nat /\ clicks \in Nat
    BY LenProperties, MaxClicksAssumption DEF IInv, TypesOK
  <2> QED
    BY <2>1, <2>2 DEF IInv, ClicksOK
<1> QED
  BY <1>1, <1>2, <1>3 DEF IInv, TypesOK, IdsOK, TypeOK

-------------------------------------------------------------------------------
(* What a step may do to the rest of the board, and what it keeps then. *)

\* Runs are accepted and settle; a settled one stays as it is.
RunsGrow ==
  /\ runs' \in Seq(RunType)
  /\ DOMAIN runs \subseteq DOMAIN runs'
  /\ \A id \in DOMAIN runs :
       /\ runs'[id].by = runs[id].by
       /\ runs[id].status \in Settled => runs'[id] = runs[id]
  /\ \A id \in DOMAIN runs' : runs'[id].status = "completed" => runs'[id].waves \in Shapes

\* At most the runs of ids come to the board, and its result stays, goes or
\* is one of theirs.
Brings(ids) ==
  /\ OnBoard' \subseteq OnBoard \cup ids
  /\ \/ store'.result = None
     \/ store'.result = store.result /\ store'.savedNodeIds = store.savedNodeIds
     \/ store'.result.id \in ids /\ Served(store'.result)

\* Runs that do not change have grown by nothing.
LEMMA RunsStay ==
  ASSUME IInv, UNCHANGED runs
  PROVE  RunsGrow /\ DOMAIN runs \subseteq Nat \ {0}
<1>1. DOMAIN runs = 1 .. Len(runs) /\ Len(runs) \in Nat
  BY LenProperties DEF IInv, TypesOK
<1> QED
  BY <1>1 DEF IInv, TypesOK, RunsOK, RunsGrow

\* Run ids are numbers, in order.
LEMMA RunsAre ==
  ASSUME IInv
  PROVE  /\ None \notin DOMAIN runs /\ DOMAIN runs \subseteq Nat
         /\ Len(runs) \in Nat /\ DOMAIN runs = 1 .. Len(runs)
         /\ Len(runs) + 1 \notin DOMAIN runs
         /\ \A id \in DOMAIN runs : runs[id] \in RunType
<1>1. runs \in Seq(RunType)
  BY DEF IInv, TypesOK
<1>2. DOMAIN runs = 1 .. Len(runs) /\ Len(runs) \in Nat
  BY <1>1, LenProperties
<1>3. \A id \in DOMAIN runs : runs[id] \in RunType
  BY <1>1, <1>2, ElementOfSeq
<1> QED
  BY <1>2, <1>3, NoneAssumption

\* What is served stays so.
LEMMA ServedStays ==
  ASSUME IInv, RunsGrow, NEW r, Served(r)
  PROVE  Served(r)'
<1>1. r \in ResultType /\ r.id \in DOMAIN runs /\ runs[r.id].status \in Settled
  BY DEF Served, Settled
<1>2. runs'[r.id] = runs[r.id] /\ r.id \in DOMAIN runs'
  BY <1>1 DEF RunsGrow
<1> QED
  BY <1>1, <1>2 DEF Served

\* The poller of a client that does not move.
LEMMA ClientStays ==
  ASSUME IInv, RunsGrow, NEW c, ClientOK(c), c.simId \in DOMAIN runs \cup {None}
  PROVE  ClientOK(c)'
<1>1. CASE c.seen \in Settled
  <2>1. c.seen # None
    BY <1>1, NoneAssumption DEF Settled
  <2>2. c.simId # None /\ runs[c.simId].status = c.seen
    BY <1>1, <2>1 DEF ClientOK
  <2>3. runs'[c.simId] = runs[c.simId]
    BY <1>1, <2>2 DEF RunsGrow
  <2> QED
    BY <2>2, <2>3 DEF ClientOK
<1>2. CASE c.seen \notin Settled
  BY <1>2 DEF ClientOK
<1> QED
  BY <1>1, <1>2

\* The board shows what is served, with the runs that a step brings.
LEMMA RunsOKStays ==
  ASSUME IInv, RunsGrow, NEW ids, ids \subseteq DOMAIN runs, Brings(ids)
  PROVE  RunsOK'
<1>1. OnBoard' \subseteq DOMAIN runs'
  BY DEF IInv, RunsOK, RunsGrow, Brings
<1>2. store'.result # None => Served(store'.result)
  BY DEF IInv, RunsOK, Brings
<1>3. \A r : r = store'.result /\ r # None => Served(r)'
  BY <1>2, ServedStays
<1>4. (store.result # None => Served(store.result))'
  BY <1>3 DEF Served
<1> QED
  BY <1>1, <1>4 DEF RunsOK, RunsGrow

\* A step that brings none of the panel's runs leaves the panel right.
LEMMA PanelStays ==
  ASSUME IInv, RunsGrow, NEW ids, Brings(ids),
         UNCHANGED panel, panel.simId \notin ids
  PROVE  PanelOK'
<1>1. panel.simId \in DOMAIN runs \cup {None} /\ PanelOK
  BY DEF IInv, IdsOK
<1>2. ClientOK(panel)'
  <2>1. ClientOK(panel)
    BY <1>1 DEF PanelOK
  <2>2. ClientOK(panel) => (\A c : c = panel => ClientOK(c)')
    BY <1>1, ClientStays
  <2> QED
    BY <2>1, <2>2 DEF ClientOK
<1> QED
  BY <1>1, <1>2 DEF PanelOK, Brings, RunsGrow

\* The demo's poller, when the demo goes on with its beats or is stopped.
LEMMA RunnerStays ==
  ASSUME IInv, RunsGrow, NEW ids, Brings(ids),
         UNCHANGED runner, runner.pendingSimId \notin ids,
         \/ /\ demo'.beats = demo.beats /\ demo'.beatsOf = demo.beatsOf
            /\ demo'.activePresetId = demo.activePresetId
         \/ demo'.beats = <<>> /\ demo'.activePresetId = None
  PROVE  RunnerOK'
<1>1. /\ runner.simId \in DOMAIN runs \cup {None} /\ RunnerOK
      /\ runner.pendingSimId \in DOMAIN runs \cup {None}
      /\ demo.beatsOf \in DOMAIN runs \cup {None}
      /\ demo.beats # <<>> => demo.beatsOf # None
  BY DEF IInv, IdsOK, StoresOK, DemoOK
<1>2. ClientOK(runner)'
  <2>1. ClientOK(runner)
    BY <1>1 DEF RunnerOK
  <2>2. ClientOK(runner) => (\A c : c = runner => ClientOK(c)')
    BY <1>1, ClientStays
  <2> QED
    BY <2>1, <2>2 DEF ClientOK
<1>3. None \notin Seeded
  BY SeededAssumption, NoneAssumption
<1>4. Waiting(runner)' = Waiting(runner)
  BY DEF Waiting
<1>5. \/ demo'.beats = <<>>
      \/ demo'.beats = demo.beats /\ demo'.beatsOf = demo.beatsOf
  OBVIOUS
<1>6. demo'.activePresetId = None \/ demo'.activePresetId = demo.activePresetId
  OBVIOUS
<1>7. \A id \in DOMAIN runs : runs'[id].by = runs[id].by
  BY DEF RunsGrow
<1>8. (runner.simId # None => runs[runner.simId].by \in Preset)'
  BY <1>1, <1>7 DEF RunnerOK
<1>9. (runner.pendingSimId # None =>
         runner.pendingSimId = runner.simId /\ runner.pendingSimId \notin OnBoard)'
  BY <1>1 DEF RunnerOK, Brings
<1>10. (runner.mutation = "pending" \/ runner.pendingSimId # None => demo.beats = <<>>)'
  BY <1>1, <1>5 DEF RunnerOK
<1>11. (demo.activePresetId \in Seeded =>
          /\ demo.beats # <<>> => runs[demo.beatsOf].by = demo.activePresetId
          /\ runner.pendingSimId # None => runs[runner.pendingSimId].by = demo.activePresetId
          /\ runner.mutation = "pending" => runner.preset = demo.activePresetId
          /\ Waiting(runner) /\ runner.mutation = "success" => runner.simId = runner.pendingSimId)'
  BY <1>1, <1>3, <1>4, <1>5, <1>6, <1>7 DEF RunnerOK
<1> QED
  BY <1>1, <1>2, <1>8, <1>9, <1>10, <1>11 DEF RunnerOK

\* A card that does not move.
LEMMA CardStays ==
  ASSUME IInv, RunsGrow, NEW ids, Brings(ids),
         NEW c \in Card, card'[c] = card[c], card[c].simId \notin ids
  PROVE  CardOK(c)'
<1> DEFINE k == card[c]
<1>1. CardOK(c) /\ k.simId \in DOMAIN runs \cup {None}
  BY DEF IInv, CardsOK, IdsOK
<1>2. k.baseline # None => Served(k.baseline)
  BY <1>1 DEF CardOK
<1>3. \A r : r = k.baseline /\ r # None => Served(r)'
  BY <1>2, ServedStays
<1>4. (card[c].baseline # None => Served(card[c].baseline))'
  BY <1>3 DEF Served
<1>5. k.simId # None => runs'[k.simId].by = "card"
  BY <1>1 DEF CardOK, RunsGrow
<1>6. k.at = "poll" => k.simId \notin OnBoard'
  BY <1>1 DEF CardOK, Brings
<1>7. k.at = "applied" =>
        /\ runs'[k.simId].status = "completed"
        /\ store'.result # None /\ store'.result.id = k.simId =>
             store'.savedNodeIds = Saved(k.baseline, store'.result)
  <2>1. k.at = "applied" => k.simId # None /\ k.simId \in DOMAIN runs
    BY <1>1 DEF CardOK
  <2> QED
    BY <1>1, <2>1 DEF CardOK, Brings, RunsGrow, Settled
<1> QED
  BY <1>1, <1>4, <1>5, <1>6, <1>7 DEF CardOK

\* And the cards.
LEMMA CardsStay ==
  ASSUME IInv, RunsGrow, NEW ids, Brings(ids),
         UNCHANGED card, \A c \in Card : card[c].simId \notin ids
  PROVE  CardsOK'
<1>1. \A c \in Card : CardOK(c)'
  BY CardStays
<1> QED
  BY <1>1 DEF IInv, CardsOK

\* How many runs the cards are asking for.
LEMMA CardsPostingCount ==
  /\ Cardinality(CardsPosting) \in Nat
  /\ Cardinality(CardsPosting') \in Nat
  /\ \A c \in Card :
       (\A d \in Card \ {c} : card'[d].at = card[d].at)
         => Cardinality(CardsPosting') =
              Cardinality(CardsPosting) + (IF card'[c].at = "post" THEN 1 ELSE 0)
                - (IF card[c].at = "post" THEN 1 ELSE 0)
  /\ UNCHANGED card => Cardinality(CardsPosting') = Cardinality(CardsPosting)
<1>1. IsFiniteSet(CardsPosting) /\ IsFiniteSet(CardsPosting')
  BY CardAssumption, FS_Subset DEF CardsPosting
<1>2. Cardinality(CardsPosting) \in Nat /\ Cardinality(CardsPosting') \in Nat
  BY <1>1, FS_CardinalityType
<1>3. ASSUME NEW c \in Card, \A d \in Card \ {c} : card'[d].at = card[d].at
      PROVE  Cardinality(CardsPosting') =
               Cardinality(CardsPosting) + (IF card'[c].at = "post" THEN 1 ELSE 0)
                 - (IF card[c].at = "post" THEN 1 ELSE 0)
  <2> DEFINE rest == CardsPosting \ {c}
  <2>1. rest = CardsPosting' \ {c}
    BY <1>3 DEF CardsPosting
  <2>2. IsFiniteSet(rest) /\ Cardinality(rest) \in Nat
    BY <1>1, FS_Subset, FS_CardinalityType
  <2>3. Cardinality(CardsPosting) =
          Cardinality(rest) + (IF card[c].at = "post" THEN 1 ELSE 0)
    <3>1. CASE card[c].at = "post"
      <4>1. CardsPosting = rest \cup {c} /\ c \notin rest
        BY <3>1 DEF CardsPosting
      <4> QED
        BY <2>2, <3>1, <4>1, FS_AddElement
    <3>2. CASE card[c].at # "post"
      <4>1. CardsPosting = rest
        BY <3>2 DEF CardsPosting
      <4> HIDE DEF rest
      <4>2. Cardinality(rest) \in Nat
        BY <2>2
      <4> QED
        BY <3>2, <4>1, <4>2
    <3> QED
      BY <3>1, <3>2
  <2>4. Cardinality(CardsPosting') =
          Cardinality(rest) + (IF card'[c].at = "post" THEN 1 ELSE 0)
    <3>1. CASE card'[c].at = "post"
      <4>1. CardsPosting' = rest \cup {c} /\ c \notin rest
        BY <2>1, <3>1 DEF CardsPosting
      <4> QED
        BY <2>2, <3>1, <4>1, FS_AddElement
    <3>2. CASE card'[c].at # "post"
      <4>1. CardsPosting' = rest
        BY <2>1, <3>2 DEF CardsPosting
      <4> HIDE DEF rest
      <4>2. Cardinality(rest) \in Nat
        BY <2>2
      <4> QED
        BY <3>2, <4>1, <4>2
    <3> QED
      BY <3>1, <3>2
  <2> HIDE DEF rest
  <2> QED
    BY <2>2, <2>3, <2>4
<1>4. UNCHANGED card => Cardinality(CardsPosting') = Cardinality(CardsPosting)
  BY DEF CardsPosting
<1> QED
  BY <1>2, <1>3, <1>4

\* The counts are numbers.
LEMMA ClicksAre ==
  ASSUME IInv
  PROVE  Len(runs) \in Nat /\ clicks \in Nat /\ clicks <= MaxClicks /\ MaxClicks \in Nat
           /\ Cardinality(CardsPosting) \in Nat
  BY CardsPostingCount, RunsAre, MaxClicksAssumption DEF IInv, TypesOK

-------------------------------------------------------------------------------
(* The actions that only move the picture: the timeline's, the timers' and   *)
(* the demo's beats.                                                         *)

\* A step that only moves the picture.
Scene ==
  /\ BoardOK(store') /\ Kept(store, store') /\ DemoOK(demo')
  /\ demo'.beats = demo.beats /\ demo'.beatsOf = demo.beatsOf
  /\ demo'.activePresetId = demo.activePresetId
  /\ Timed(store) /\ ~Autoplay => Timed(store')
  /\ UNCHANGED <<panel, runner, card, runs, mounted, clicks>>

\* Such a step keeps the invariant: nobody's run is touched.
LEMMA SceneStep ==
  ASSUME IInv, Scene
  PROVE  IInv'
<1> USE DEF Scene
<1>1. RunsGrow
  BY RunsStay
<1>2. HistoryOK(store') /\ HistoryIds(store') = HistoryIds(store)
  BY SameHistoryIsOK DEF IInv, StoresOK, Kept, SameResult
<1>3. Brings({})
  BY <1>2 DEF Brings, OnBoard, Kept, SameResult
<1>4. TypesOK'
  BY DEF IInv, TypesOK
<1>5. IdsOK'
  BY <1>2 DEF IInv, IdsOK, Kept, SameResult, SameHistory
<1>6. StoresOK'
  BY <1>2 DEF StoresOK
<1>7. RunsOK'
  BY <1>1, <1>3, RunsOKStays
<1>8. PanelOK'
  BY <1>1, <1>3, PanelStays
<1>9. RunnerOK'
  BY <1>1, <1>3, RunnerStays
<1>10. CardsOK'
  BY <1>1, <1>3, CardsStay
<1>11. LoadingOK'
  BY DEF IInv, LoadingOK, Waiting, Kept
<1>12. ClicksOK'
  BY DEF IInv, ClicksOK, Asked, CardsPosting
<1> QED
  BY <1>4, <1>5, <1>6, <1>7, <1>8, <1>9, <1>10, <1>11, <1>12 DEF IInv

\* So is one of the store alone.
LEMMA OnStoreStep ==
  ASSUME IInv, NEW next, BoardOK(next), Kept(store, next),
         Timed(store) /\ ~Autoplay => Timed(next), OnStore(next)
  PROVE  Scene
<1>1. DemoOK(demo')
  BY DEF OnStore, IInv, StoresOK
<1> QED
  BY <1>1 DEF OnStore, Scene

\* The store's own actions.
LEMMA TimelineSteps ==
  ASSUME IInv
  PROVE  /\ PlayPause => Scene
         /\ Rewind => Scene
         /\ Tick => Scene
         /\ Autoplay => Scene
         /\ \A i \in Int : Scrub(i) => Scene
<1> BoardOK(store)
  BY DEF IInv, StoresOK
<1>1. PlayPause => Scene
  <2>1. CASE store.isPlaying
    <3>1. BoardOK(Pause(store)) /\ Kept(store, Pause(store)) /\ Timed(Pause(store))
      BY PauseOK
    <3> QED
      BY <2>1, <3>1, OnStoreStep DEF PlayPause
  <2>2. CASE ~store.isPlaying
    <3>1. BoardOK(Play(store)) /\ Kept(store, Play(store)) /\ Timed(Play(store))
      BY <2>2, PlayOK
    <3> QED
      BY <2>2, <3>1, OnStoreStep DEF PlayPause
  <2> QED
    BY <2>1, <2>2
<1>2. Rewind => Scene
  BY RewindOK, OnStoreStep DEF Rewind
<1>3. Tick => Scene
  BY AdvanceWaveOK, OnStoreStep DEF Tick
<1>4. Autoplay => Scene
  <2> SUFFICES ASSUME Autoplay PROVE Scene
    OBVIOUS
  <2> DEFINE t == [store EXCEPT !.autoplays = @ - 1]
  <2>1. BoardOK(t) /\ Kept(store, t) /\ OnStore(Play(t))
    BY AutoplayFires DEF Autoplay
  <2> HIDE DEF t
  <2>2. BoardOK(Play(t)) /\ Kept(t, Play(t))
    BY <2>1, PlayOK
  <2>3. Kept(store, Play(t))
    BY <2>1, <2>2 DEF Kept, SameResult, SameHistory
  <2> QED
    BY <2>1, <2>2, <2>3, OnStoreStep
<1>5. \A i \in Int : Scrub(i) => Scene
  BY SetWaveOK, OnStoreStep DEF Scrub
<1> QED
  BY <1>1, <1>2, <1>3, <1>4, <1>5

\* A step of the demo to one of its beats.
LEMMA MoveToStep ==
  ASSUME IInv, NEW d \in DemoType, NEW index, NEW auto \in BOOLEAN,
         d.beats = demo.beats, d.beatsOf = demo.beatsOf,
         d.activePresetId = demo.activePresetId,
         index \in 0 .. LastBeat(d) => (Beat(d, index).kind = "recovery" => d.hasRunRecovery),
         MoveTo(d, index, auto)
  PROVE  Scene
<1>1. /\ index \in 0 .. LastBeat(d)
      /\ Beat(d, index).kind = "recovery" => d.hasRunRecovery
  BY DEF MoveTo
<1>2. RecoveryIsLast(d.beats) /\ d.beatsOf # None
  <2>1. d.beats # <<>>
    BY <1>1, EmptySeq DEF LastBeat
  <2> QED
    BY <2>1 DEF IInv, StoresOK, DemoOK
<1> DEFINE e == GoToBeat(d, index, auto)
<1>3. /\ DemoOK(e) /\ e.activePresetId = d.activePresetId
      /\ e.beats = d.beats /\ e.beatsOf = d.beatsOf
      /\ Beat(d, index) \in BeatType
  BY <1>1, <1>2, GoToBeatOK DEF MoveTo
<1>4. LET t == ApplyBeat(store, Beat(d, index))
      IN  BoardOK(t) /\ Kept(store, t) /\ (Timed(store) => Timed(t))
  BY <1>3, ApplyBeatOK DEF IInv, StoresOK
<1> QED
  BY <1>3, <1>4 DEF MoveTo, Scene

\* Act 2 starts at the recovery beat no other comes before.
LEMMA RecoveryStartIs ==
  ASSUME NEW d \in DemoType
  PROVE  /\ RecoveryStartIndex(d) \in Int
         /\ \A i \in 0 .. LastBeat(d) :
              Beat(d, i).kind = "recovery" =>
                /\ RecoveryStartIndex(d) \in 0 .. i
                /\ Beat(d, RecoveryStartIndex(d)).kind = "recovery"
<1> DEFINE I == {i \in 1 .. Len(d.beats) : d.beats[i].kind = "recovery"}
<1>1. RecoveryStartIndex(d) = (IF I # {} THEN Min(I) ELSE 0) - 1
  BY DEF RecoveryStartIndex, SelectInSeq
<1>2. I \subseteq Nat /\ I \subseteq 1 .. Len(d.beats) /\ Len(d.beats) \in Nat
  BY LenProperties DEF DemoType
<1>3. ASSUME I # {}
      PROVE  /\ Min(I) \in I /\ RecoveryStartIndex(d) = Min(I) - 1
             /\ \A k \in I : Min(I) <= k
  BY <1>1, <1>2, <1>3, MinOfNats
<1>4. RecoveryStartIndex(d) \in Int
  BY <1>1, <1>2, <1>3
<1>5. ASSUME NEW i \in 0 .. LastBeat(d), Beat(d, i).kind = "recovery"
      PROVE  /\ RecoveryStartIndex(d) \in 0 .. i
             /\ Beat(d, RecoveryStartIndex(d)).kind = "recovery"
  <2>1. i + 1 \in I
    BY <1>2, <1>5 DEF Beat, LastBeat
  <2>2. Min(I) \in 1 .. i + 1 /\ d.beats[Min(I)].kind = "recovery"
    BY <1>2, <1>3, <2>1
  <2>3. RecoveryStartIndex(d) = Min(I) - 1
    BY <1>3, <2>1
  <2> HIDE DEF I
  <2>4. RecoveryStartIndex(d) + 1 = Min(I)
    BY <2>2, <2>3
  <2> QED
    BY <2>2, <2>3, <2>4 DEF Beat
<1> QED
  BY <1>4, <1>5

\* The demo's steps move the picture only; act 2 is not entered without the
\* user's go-ahead.
LEMMA DemoSteps ==
  ASSUME IInv
  PROVE  /\ AutoAdvance => Scene
         /\ AutoPause => Scene
         /\ StartRecovery => Scene
         /\ \A i : ReplayBeat(i) => Scene
<1>0. demo \in DemoType /\ DemoOK(demo)
  BY DEF IInv, StoresOK, DemoOK
<1>1. AutoAdvance => Scene
  <2> SUFFICES ASSUME AutoAdvance PROVE Scene
    OBVIOUS
  <2> DEFINE next == demo.beatIndex + 1
  <2>1. /\ ~AtActBoundary /\ demo.beatIndex >= 0 /\ demo.beatIndex < LastBeat(demo)
        /\ MoveTo(demo, next, TRUE)
    BY DEF AutoAdvance, AutoPlaying
  <2>2. demo.beatIndex \in 0 .. LastBeat(demo) /\ next \in 0 .. LastBeat(demo)
    BY <1>0, <2>1 DEF DemoOK, LastBeat, MoveTo
  <2>3. ASSUME Beat(demo, next).kind = "recovery" PROVE demo.hasRunRecovery
    <3> DEFINE start == RecoveryStartIndex(demo)
    <3>1. start \in 0 .. next /\ Beat(demo, start).kind = "recovery"
      BY <1>0, <2>2, <2>3, RecoveryStartIs
    <3>2. CASE start = next
      BY <2>1, <3>2 DEF AtActBoundary
    <3>3. CASE start # next
      <4>1. start \in 0 .. demo.beatIndex
        BY <2>2, <3>1, <3>3
      <4>2. Beat(demo, demo.beatIndex).kind = "recovery"
        <5>1. DOMAIN demo.beats = 1 .. Len(demo.beats) /\ Len(demo.beats) \in Nat
          BY <1>0, LenProperties DEF DemoType
        <5>2. /\ start + 1 \in DOMAIN demo.beats /\ demo.beatIndex + 1 \in DOMAIN demo.beats
              /\ start + 1 <= demo.beatIndex + 1
          <6>1. demo.beatIndex \in 0 .. Len(demo.beats) - 1
            BY <2>2 DEF LastBeat
          <6> HIDE DEF start
          <6> QED
            BY <4>1, <5>1, <6>1
        <5> HIDE DEF start
        <5> QED
          BY <1>0, <3>1, <5>2 DEF DemoOK, RecoveryIsLast, Beat
      <4> QED
        BY <1>0, <2>1, <4>2 DEF DemoOK
    <3> QED
      BY <3>2, <3>3
  <2> HIDE DEF next
  <2> QED
    BY <1>0, <2>1, <2>3, MoveToStep
<1>2. AutoPause => Scene
  <2> SUFFICES ASSUME AutoPause PROVE Scene
    OBVIOUS
  <2>1. /\ UNCHANGED <<store, panel, runner, card, runs, mounted, clicks>>
        /\ demo' = Finish(demo) \/ demo' = PauseForRecovery(demo)
    BY DEF AutoPause
  <2>2. DemoOK(demo') /\ SameTimeline(demo, demo')
    <3>1. demo' = Finish(demo) => DemoOK(demo') /\ SameTimeline(demo, demo')
      BY <1>0, PhaseOK
    <3>2. demo' = PauseForRecovery(demo) => DemoOK(demo') /\ SameTimeline(demo, demo')
      BY <1>0, PhaseOK
    <3> QED
      BY <2>1, <3>1, <3>2
  <2>3. BoardOK(store') /\ Kept(store, store') /\ (Timed(store) => Timed(store'))
    BY <2>1 DEF IInv, StoresOK, Kept, SameResult, SameHistory
  <2> QED
    BY <2>1, <2>2, <2>3 DEF SameTimeline, Scene
<1>3. StartRecovery => Scene
  <2> SUFFICES ASSUME StartRecovery PROVE Scene
    OBVIOUS
  <2> DEFINE d == [demo EXCEPT !.hasRunRecovery = TRUE]
  <2>1. MoveTo(d, RecoveryStartIndex(demo), TRUE)
    BY DEF StartRecovery
  <2>2. /\ d \in DemoType /\ d.beats = demo.beats /\ d.beatsOf = demo.beatsOf
        /\ d.activePresetId = demo.activePresetId /\ d.hasRunRecovery = TRUE
    BY <1>0 DEF DemoType
  <2> HIDE DEF d
  <2> QED
    BY <2>1, <2>2, MoveToStep
<1>4. ASSUME NEW i, ReplayBeat(i) PROVE Scene
  <2>1. MoveTo(demo, i, FALSE) /\ (Beat(demo, i).kind = "recovery" => demo.hasRunRecovery)
    BY <1>4 DEF ReplayBeat
  <2> QED
    BY <1>0, <2>1, MoveToStep
<1> QED
  BY <1>1, <1>2, <1>3, <1>4

-------------------------------------------------------------------------------
(* The API's steps. *)

\* An accepted run is a new one.
LEMMA AcceptGrows ==
  ASSUME IInv, NEW client \in Preset \cup {"panel", "card"}, Accept(client)
  PROVE  /\ RunsGrow
         /\ Len(runs') = Len(runs) + 1
         /\ DOMAIN runs' = DOMAIN runs \cup {Len(runs) + 1}
         /\ Len(runs) + 1 \notin DOMAIN runs
         /\ runs'[Len(runs) + 1].by = client
<1> DEFINE run == [by |-> client, status |-> "open", waves |-> <<>>]
           new == Len(runs) + 1
<1>1. runs \in Seq(RunType) /\ Len(runs) \in Nat /\ DOMAIN runs = 1 .. Len(runs)
  BY RunsAre DEF IInv, TypesOK
<1>2. run \in RunType /\ run.by = client /\ run.status = "open"
  BY DEF RunType
<1>3. runs' = Append(runs, run)
  BY DEF Accept
<1> HIDE DEF run
<1>4. /\ runs' \in Seq(RunType) /\ Len(runs') = new
      /\ \A id \in 1 .. Len(runs) : runs'[id] = runs[id]
      /\ runs'[new] = run
  BY <1>1, <1>2, <1>3, AppendProperties
<1>5. DOMAIN runs' = 1 .. new
  BY <1>4, LenProperties
<1>6. new \notin DOMAIN runs /\ DOMAIN runs' = DOMAIN runs \cup {new}
  BY <1>1, <1>5
<1>7. \A id \in DOMAIN runs : runs'[id] = runs[id]
  BY <1>1, <1>4
<1>8. \A id \in DOMAIN runs' : runs'[id].status = "completed" => runs'[id].waves \in Shapes
  <2>1. \A id \in DOMAIN runs : runs[id].status = "completed" => runs[id].waves \in Shapes
    BY DEF IInv, RunsOK
  <2> HIDE DEF new
  <2> QED
    BY <1>2, <1>4, <1>6, <1>7, <2>1
<1>9. RunsGrow
  BY <1>4, <1>6, <1>7, <1>8 DEF RunsGrow
<1> QED
  BY <1>2, <1>4, <1>6, <1>9

\* The stores and the clients when only the API moved.
LEMMA SameBoard ==
  ASSUME UNCHANGED store
  PROVE  Brings({}) /\ OnBoard' = OnBoard
  BY DEF Brings, OnBoard

\* A run that settles changes no other.
LEMMA SettleGrows ==
  ASSUME IInv, NEW id \in DOMAIN runs, SettleRun(id)
  PROVE  RunsGrow /\ DOMAIN runs' = DOMAIN runs /\ Len(runs') = Len(runs)
<1>1. runs[id].status = "open"
  BY DEF SettleRun
<1>2. runs \in Seq(RunType) /\ runs[id] \in RunType
  BY RunsAre DEF IInv, TypesOK
<1>3. /\ runs' \in Seq(RunType) /\ DOMAIN runs' = DOMAIN runs
      /\ Len(runs') = Len(runs)
      /\ \A k \in DOMAIN runs \ {id} : runs'[k] = runs[k]
      /\ runs'[id].by = runs[id].by
      /\ runs'[id].status = "completed" => runs'[id].waves \in Shapes
  <2>1. CASE \E waves \in Shapes :
               runs' = [runs EXCEPT ![id].status = "completed", ![id].waves = waves]
    <3>1. PICK waves \in Shapes :
            runs' = [runs EXCEPT ![id].status = "completed", ![id].waves = waves]
      BY <2>1
    <3> DEFINE run == [runs[id] EXCEPT !.status = "completed", !.waves = waves]
    <3>2. run \in RunType /\ run.by = runs[id].by /\ run.waves = waves
      BY <1>2 DEF RunType, Settled
    <3>3. runs' = [runs EXCEPT ![id] = run]
      BY <1>2, <3>1
    <3> HIDE DEF run
    <3> QED
      BY <1>2, <3>2, <3>3, ExceptSeq
  <2>2. CASE runs' = [runs EXCEPT ![id].status = "failed"]
    <3> DEFINE run == [runs[id] EXCEPT !.status = "failed"]
    <3>2. run \in RunType /\ run.by = runs[id].by /\ run.status = "failed"
      BY <1>2 DEF RunType, Settled
    <3>3. runs' = [runs EXCEPT ![id] = run]
      BY <1>2, <2>2
    <3> HIDE DEF run
    <3> QED
      BY <1>2, <3>2, <3>3, ExceptSeq
  <2> QED
    BY <2>1, <2>2 DEF SettleRun
<1>4. RunsGrow
  <2>1. \A k \in DOMAIN runs : runs[k].status = "completed" => runs[k].waves \in Shapes
    BY DEF IInv, RunsOK
  <2>2. runs[id].status \notin Settled
    BY <1>1 DEF Settled
  <2> QED
    BY <1>3, <2>1, <2>2 DEF RunsGrow
<1> QED
  BY <1>3, <1>4

\* A run settles.
LEMMA SettleStep ==
  ASSUME IInv, NEW id \in DOMAIN runs, SettleRun(id)
  PROVE  IInv'
<1>1. UNCHANGED <<store, demo, panel, runner, card, mounted, clicks>>
  BY DEF SettleRun
<1>3. /\ runs' \in Seq(RunType) /\ DOMAIN runs' = DOMAIN runs /\ Len(runs') = Len(runs)
  BY SettleGrows DEF RunsGrow
<1>4. RunsGrow
  BY SettleGrows
<1>5. Brings({})
  BY <1>1, SameBoard
<1>6. TypesOK'
  BY <1>1, <1>3 DEF IInv, TypesOK
<1>7. IdsOK'
  BY <1>1, <1>3 DEF IInv, IdsOK
<1>8. StoresOK'
  BY <1>1 DEF IInv, StoresOK
<1>9. RunsOK'
  BY <1>4, <1>5, RunsOKStays
<1>10. PanelOK'
  BY <1>1, <1>4, <1>5, PanelStays
<1>11. RunnerOK'
  BY <1>1, <1>4, <1>5, RunnerStays
<1>12. CardsOK'
  BY <1>1, <1>4, <1>5, CardsStay
<1>13. LoadingOK'
  BY <1>1 DEF IInv, LoadingOK, Waiting
<1>14. ClicksOK'
  BY <1>1, <1>3 DEF IInv, ClicksOK, Asked, CardsPosting
<1> QED
  BY <1>6, <1>7, <1>8, <1>9, <1>10, <1>11, <1>12, <1>13, <1>14 DEF IInv

-------------------------------------------------------------------------------
(* ControlPanel's actions. *)

\* A board with the same result and history brings nothing.
LEMMA SameResultBrings ==
  ASSUME IInv, SameResult(store, store')
  PROVE  /\ HistoryOK(store') /\ HistoryIds(store') = HistoryIds(store)
         /\ store'.baselineSimulationId = store.baselineSimulationId
         /\ Brings({})
<1>1. HistoryOK(store') /\ HistoryIds(store') = HistoryIds(store)
  BY SameHistoryIsOK DEF IInv, StoresOK, SameResult
<1> QED
  BY <1>1 DEF Brings, OnBoard, SameResult, SameHistory

\* Nor does a cleared one.
LEMMA ClearedBrings ==
  ASSUME IInv, SameHistory(store, store'), store'.result = None
  PROVE  /\ HistoryOK(store') /\ HistoryIds(store') = HistoryIds(store)
         /\ store'.baselineSimulationId = store.baselineSimulationId
         /\ Brings({})
<1>1. HistoryOK(store') /\ HistoryIds(store') = HistoryIds(store)
  BY SameHistoryIsOK DEF IInv, StoresOK
<1> QED
  BY <1>1 DEF Brings, OnBoard, SameHistory

\* A completed run arrives on the board.
LEMMA AdoptedBrings ==
  ASSUME IInv, NEW id, Grown(store, store', id), store'.result.id = id,
         Served(store'.result), store'.result # None
  PROVE  /\ HistoryIds(store') \subseteq DOMAIN runs
         /\ store'.baselineSimulationId \in DOMAIN runs \cup {None}
         /\ {id} \subseteq DOMAIN runs
         /\ Brings({id})
<1>1. id \in DOMAIN runs
  BY DEF Served
<1>2. /\ HistoryIds(store) \subseteq DOMAIN runs
      /\ store.baselineSimulationId \in DOMAIN runs \cup {None}
  BY DEF IInv, IdsOK
<1> QED
  BY <1>1, <1>2 DEF Brings, OnBoard, Grown

\* What the API says of a completed run is served.
LEMMA ResultIsServed ==
  ASSUME IInv, NEW id \in DOMAIN runs, runs[id].status = "completed"
  PROVE  /\ Result(id) \in ResultType /\ Result(id).id = id /\ Result(id) # None
         /\ Served(Result(id))
<1>1. runs[id].waves \in Shapes /\ id \in Nat
  BY RunsAre DEF IInv, RunsOK
<1>2. Result(id) \in ResultType /\ Result(id).id = id /\ Result(id).waves = runs[id].waves
  BY <1>1 DEF Result, ResultType
<1> QED
  BY <1>2, ResultHasWaves DEF Served

\* No two clients have the same run.
LEMMA ClientsAreApart ==
  ASSUME IInv
  PROVE  /\ panel.simId # None =>
              /\ runner.simId # panel.simId /\ runner.pendingSimId # panel.simId
              /\ \A c \in Card : card[c].simId # panel.simId
         /\ runner.simId # None => \A c \in Card : card[c].simId # runner.simId
         /\ runner.pendingSimId # None =>
              /\ panel.simId # runner.pendingSimId
              /\ \A c \in Card : card[c].simId # runner.pendingSimId
<1>1. panel.simId # None => runs[panel.simId].by = "panel"
  BY DEF IInv, PanelOK
<1>2. /\ runner.simId # None => runs[runner.simId].by \in Preset
      /\ runner.pendingSimId # None => runner.pendingSimId = runner.simId
  BY DEF IInv, RunnerOK
<1>3. \A c \in Card : card[c].simId # None => runs[card[c].simId].by = "card"
  BY DEF IInv, CardsOK, CardOK
<1>4. "panel" \notin Preset /\ "card" \notin Preset
  BY ClientAssumption
<1> QED
  BY <1>1, <1>2, <1>3, <1>4

\* Simulate baseline.
LEMMA RunBaselineStep ==
  ASSUME IInv, RunBaseline
  PROVE  IInv'
<1> DEFINE s == StopOnBoard(store)
<1>1. /\ clicks < MaxClicks /\ clicks' = clicks + 1 /\ mounted
      /\ ~IsRunning
      /\ demo' = Idle
      /\ store' = SetRunning(s, TRUE)
      /\ panel' = Requested(panel)
      /\ UNCHANGED <<runner, card, runs, mounted>>
  BY DEF RunBaseline, Click
<1>2. BoardOK(store') /\ SameResult(store, store') /\ store'.isRunning = TRUE
  <2>1. BoardOK(s) /\ SameResult(store, s)
    BY StopOnBoardOK DEF IInv, StoresOK
  <2> HIDE DEF s
  <2>2. BoardOK(store') /\ SameResult(s, store') /\ store'.isRunning = TRUE
    BY <1>1, <2>1, SetRunningOK
  <2> QED
    BY <2>1, <2>2 DEF SameResult, SameHistory
<1>3. DemoOK(demo') /\ demo'.activePresetId = None /\ demo'.beats = <<>> /\ demo'.beatsOf = None
  BY <1>1, IdleOK DEF Idle
<1>4. /\ HistoryOK(store') /\ HistoryIds(store') = HistoryIds(store)
      /\ store'.baselineSimulationId = store.baselineSimulationId
      /\ Brings({})
  BY <1>2, SameResultBrings
<1>5. panel \in PanelType /\ clicks \in Nat /\ clicks + 1 \in 0 .. MaxClicks
  BY <1>1, ClicksAre DEF IInv, TypesOK
<1>6. /\ panel' \in PanelType /\ panel'.mutation = "pending" /\ panel'.simId = None
      /\ panel'.seen = None /\ panel'.handledPolledIds = panel.handledPolledIds
      /\ panel'.dismissedSimulationIds = panel.dismissedSimulationIds
  BY <1>1, <1>5 DEF PanelType, Requested, Mutation, SeenStatus
<1>7. RunsGrow
  BY <1>1, RunsStay
<1>8. TypesOK'
  BY <1>1, <1>5, <1>6 DEF IInv, TypesOK
<1>9. IdsOK'
  BY <1>1, <1>3, <1>4, <1>6 DEF IInv, IdsOK
<1>10. StoresOK'
  BY <1>2, <1>3, <1>4 DEF StoresOK
<1>11. RunsOK'
  BY <1>4, <1>7, RunsOKStays
<1>12. PanelOK'
  BY <1>6, NoneAssumption DEF PanelOK, ClientOK, Settled
<1>13. RunnerOK'
  BY <1>1, <1>3, <1>4, <1>7, RunnerStays
<1>14. CardsOK'
  BY <1>1, <1>4, <1>7, CardsStay
<1>15. LoadingOK'
  BY <1>6 DEF LoadingOK, Waiting
<1>16. ClicksOK'
  BY <1>1, <1>6, ClicksAre, CardsPostingCount DEF IInv, ClicksOK, Asked
<1> QED
  BY <1>8, <1>9, <1>10, <1>11, <1>12, <1>13, <1>14, <1>15, <1>16 DEF IInv

\* Its request is answered.
LEMMA PanelPostedStep ==
  ASSUME IInv, PanelPosted
  PROVE  IInv'
<1> DEFINE new == Len(runs) + 1
<1>1. /\ panel.mutation = "pending" /\ Accept("panel")
      /\ panel' = [panel EXCEPT !.mutation = "success", !.simId = new]
      /\ UNCHANGED <<store, demo, runner, card, mounted, clicks>>
  BY DEF PanelPosted
<1>2. /\ RunsGrow /\ Len(runs') = new /\ DOMAIN runs' = DOMAIN runs \cup {new}
      /\ new \notin DOMAIN runs /\ runs'[new].by = "panel" /\ new \in Nat
  <2>1. new \in Nat
    BY RunsAre
  <2>2. "panel" \in Preset \cup {"panel", "card"}
    OBVIOUS
  <2> QED
    BY <1>1, <2>1, <2>2, AcceptGrows
<1> HIDE DEF new
<1>3. /\ panel \in PanelType /\ ClientOK(panel)
      /\ panel.handledPolledIds \cup panel.dismissedSimulationIds \subseteq DOMAIN runs
      /\ OnBoard \subseteq DOMAIN runs
  BY DEF IInv, TypesOK, IdsOK, PanelOK, RunsOK
<1>4. panel.seen = None
  BY <1>1, <1>3 DEF ClientOK
<1>5. /\ panel' \in PanelType /\ panel'.mutation = "success" /\ panel'.simId = new
      /\ panel'.seen = None /\ panel'.handledPolledIds = panel.handledPolledIds
      /\ panel'.dismissedSimulationIds = panel.dismissedSimulationIds
  BY <1>1, <1>2, <1>3, <1>4 DEF PanelType, Mutation
<1>6. Brings({}) /\ OnBoard' = OnBoard
  BY <1>1, SameBoard
<1>7. TypesOK'
  BY <1>1, <1>2, <1>5 DEF IInv, TypesOK, RunsGrow
<1>8. IdsOK'
  BY <1>1, <1>2, <1>5 DEF IInv, IdsOK
<1>9. StoresOK'
  BY <1>1 DEF IInv, StoresOK
<1>10. RunsOK'
  BY <1>2, <1>6, RunsOKStays
<1>11. PanelOK'
  <2>1. new # None
    BY <1>2, NoneAssumption
  <2> QED
    BY <1>2, <1>3, <1>5, <1>6, <2>1, NoneAssumption DEF PanelOK, ClientOK, Settled
<1>12. RunnerOK'
  BY <1>1, <1>2, <1>6, RunnerStays
<1>13. CardsOK'
  BY <1>1, <1>2, <1>6, CardsStay
<1>14. LoadingOK'
  BY <1>5, NoneAssumption DEF LoadingOK, Waiting, Settled
<1>15. ClicksOK'
  BY <1>1, <1>2, <1>5, ClicksAre, CardsPostingCount DEF IInv, ClicksOK, Asked, new
<1> QED
  BY <1>7, <1>8, <1>9, <1>10, <1>11, <1>12, <1>13, <1>14, <1>15 DEF IInv

\* Its request fails.
LEMMA PanelPostFailsStep ==
  ASSUME IInv, PanelPostFails
  PROVE  IInv'
<1>1. /\ panel.mutation = "pending"
      /\ panel' = [panel EXCEPT !.mutation = "error"]
      /\ store' = SetRunError(store)
      /\ UNCHANGED <<demo, runner, card, runs, mounted, clicks>>
  BY DEF PanelPostFails
<1>2. BoardOK(store') /\ SameResult(store, store') /\ ~store'.isRunning
  BY <1>1, SetRunErrorOK DEF IInv, StoresOK
<1>3. /\ HistoryOK(store') /\ HistoryIds(store') = HistoryIds(store)
      /\ store'.baselineSimulationId = store.baselineSimulationId
      /\ Brings({})
  BY <1>2, SameResultBrings
<1>4. panel \in PanelType /\ ClientOK(panel)
  BY DEF IInv, TypesOK, PanelOK
<1>5. panel.simId = None /\ panel.seen = None
  BY <1>1, <1>4 DEF ClientOK
<1>6. /\ panel' \in PanelType /\ panel'.mutation = "error" /\ panel'.simId = None
      /\ panel'.seen = None /\ panel'.handledPolledIds = panel.handledPolledIds
      /\ panel'.dismissedSimulationIds = panel.dismissedSimulationIds
  BY <1>1, <1>4, <1>5 DEF PanelType, Mutation
<1>7. RunsGrow
  BY <1>1, RunsStay
<1>8. TypesOK'
  BY <1>1, <1>6 DEF IInv, TypesOK
<1>9. IdsOK'
  BY <1>1, <1>3, <1>6 DEF IInv, IdsOK
<1>10. StoresOK'
  BY <1>1, <1>2, <1>3 DEF IInv, StoresOK
<1>11. RunsOK'
  BY <1>3, <1>7, RunsOKStays
<1>12. PanelOK'
  BY <1>6, NoneAssumption DEF PanelOK, ClientOK, Settled
<1>13. RunnerOK'
  BY <1>1, <1>3, <1>7, RunnerStays
<1>14. CardsOK'
  BY <1>1, <1>3, <1>7, CardsStay
<1>15. LoadingOK'
  BY <1>2 DEF LoadingOK
<1>16. ClicksOK'
  BY <1>1, <1>6, ClicksAre, CardsPostingCount DEF IInv, ClicksOK, Asked
<1> QED
  BY <1>8, <1>9, <1>10, <1>11, <1>12, <1>13, <1>14, <1>15, <1>16 DEF IInv

\* An answer of the panel's poll: what it makes of the panel and of the store.
LEMMA PanelPollIs ==
  ASSUME IInv, PanelPoll
  PROVE  LET id == panel.simId
         IN  /\ UNCHANGED <<demo, runner, card, runs, mounted, clicks>>
             /\ panel.mutation = "success" /\ id \in DOMAIN runs /\ id # None
             /\ id \notin OnBoard
             /\ id \notin panel.handledPolledIds \cup panel.dismissedSimulationIds
             /\ panel' \in PanelType /\ panel'.mutation = "success" /\ panel'.simId = id
             /\ panel'.seen \in Settled => runs[id].status = panel'.seen
             /\ panel'.handledPolledIds = panel.handledPolledIds
                  \cup (IF panel'.seen = "completed" THEN {id} ELSE {})
             /\ panel'.dismissedSimulationIds = panel.dismissedSimulationIds
             /\ panel'.seen = "completed" =>
                  store' = SetSimulationResult(store, Result(id), TRUE)
             /\ panel'.seen = "failed" => store' = SetRunError(store)
             /\ panel'.seen \notin Settled => store' = SetRunning(store, TRUE)
<1> DEFINE id == panel.simId
<1>1. PICK status \in Answers(panel) :
        LET p == [panel EXCEPT !.seen = status]
            s == PanelAdopt(store, p)
        IN  /\ panel' = Handled(p)
            /\ store' = CASE status = "completed" -> s
                          [] status = "failed" -> SetRunError(s)
                          [] status \notin Settled -> SetRunning(s, TRUE)
  BY DEF PanelPoll
<1>2. UNCHANGED <<demo, runner, card, runs, mounted, clicks>>
  BY DEF PanelPoll
<1> DEFINE p == [panel EXCEPT !.seen = status]
<1>3. panel \in PanelType /\ PanelOK /\ ClientOK(panel) /\ id \in DOMAIN runs \cup {None}
  BY DEF IInv, TypesOK, PanelOK, IdsOK
<1>4. panel.mutation = "success" /\ panel.seen \notin Settled
  BY DEF Answers
<1>5. id # None /\ id \in DOMAIN runs /\ id \in Nat
  BY <1>3, <1>4, RunsAre DEF ClientOK
<1>6. /\ runs[id].status = "open" => status \in {"pending", "running"}
      /\ runs[id].status # "open" => status = runs[id].status
  BY <1>4 DEF Answers
<1>7. runs[id].status \in {"open"} \cup Settled
  BY <1>5, RunsAre DEF RunType
<1>8. id \notin panel.handledPolledIds /\ id \notin OnBoard \cup panel.dismissedSimulationIds
  BY <1>3, <1>4, <1>5 DEF PanelOK, Settled
<1>9. /\ p \in PanelType /\ p.mutation = "success" /\ p.simId = id /\ p.seen = status
      /\ p.handledPolledIds = panel.handledPolledIds
      /\ p.dismissedSimulationIds = panel.dismissedSimulationIds
  BY <1>3, <1>4, <1>6, <1>7 DEF PanelType, Mutation, SeenStatus, Settled
<1>10. status \in Settled => runs[id].status = status
  BY <1>6 DEF Settled
<1>11. /\ panel' = Handled(p)
       /\ store' = CASE status = "completed" -> PanelAdopt(store, p)
                     [] status = "failed" -> SetRunError(PanelAdopt(store, p))
                     [] status \notin Settled -> SetRunning(PanelAdopt(store, p), TRUE)
  BY <1>1
<1> HIDE DEF p
<1>12. CASE status = "completed"
  <2>1. PanelAdopts(p) /\ p.simId \notin p.dismissedSimulationIds
    BY <1>8, <1>9, <1>12 DEF PanelAdopts
  <2>2. store' = PanelAdopt(store, p)
    BY <1>11, <1>12 DEF Settled
  <2>3. PanelAdopt(store, p) = SetSimulationResult(store, Result(p.simId), TRUE)
    BY <2>1 DEF PanelAdopt
  <2>4. panel' = [p EXCEPT !.handledPolledIds = @ \cup {p.simId}]
    BY <1>11, <2>1 DEF Handled
  <2>5. /\ panel' \in PanelType /\ panel'.mutation = "success" /\ panel'.simId = id
        /\ panel'.seen = "completed"
        /\ panel'.handledPolledIds = panel.handledPolledIds \cup {id}
        /\ panel'.dismissedSimulationIds = panel.dismissedSimulationIds
    BY <1>5, <1>9, <1>12, <2>4 DEF PanelType
  <2> QED
    BY <1>2, <1>4, <1>5, <1>8, <1>9, <1>10, <1>12, <2>2, <2>3, <2>5 DEF Settled
<1>13. CASE status # "completed"
  <2>1. ~PanelAdopts(p)
    BY <1>9, <1>13 DEF PanelAdopts
  <2>2. panel' = p /\ PanelAdopt(store, p) = store
    BY <1>11, <2>1 DEF Handled, PanelAdopt
  <2>3. status = "failed" => store' = SetRunError(store)
    BY <1>11, <2>2 DEF Settled
  <2>4. status \notin Settled => store' = SetRunning(store, TRUE)
    BY <1>11, <2>2 DEF Settled
  <2> QED
    BY <1>2, <1>4, <1>5, <1>8, <1>9, <1>10, <1>13, <2>2, <2>3, <2>4
<1> QED
  BY <1>12, <1>13

\* An answer to the panel's poll.
LEMMA PanelPollStep ==
  ASSUME IInv, PanelPoll
  PROVE  IInv'
<1> DEFINE id == panel.simId
<1>1. /\ UNCHANGED <<demo, runner, card, runs, mounted, clicks>>
      /\ panel.mutation = "success" /\ id \in DOMAIN runs /\ id # None
      /\ id \notin OnBoard
      /\ id \notin panel.handledPolledIds \cup panel.dismissedSimulationIds
      /\ panel' \in PanelType /\ panel'.mutation = "success" /\ panel'.simId = id
      /\ panel'.seen \in Settled => runs[id].status = panel'.seen
      /\ panel'.handledPolledIds = panel.handledPolledIds
           \cup (IF panel'.seen = "completed" THEN {id} ELSE {})
      /\ panel'.dismissedSimulationIds = panel.dismissedSimulationIds
      /\ panel'.seen = "completed" => store' = SetSimulationResult(store, Result(id), TRUE)
      /\ panel'.seen = "failed" => store' = SetRunError(store)
      /\ panel'.seen \notin Settled => store' = SetRunning(store, TRUE)
  BY PanelPollIs
<1>2. /\ BoardOK(store) /\ HistoryOK(store) /\ HistoryIds(store) \subseteq DOMAIN runs
      /\ store.baselineSimulationId \in DOMAIN runs \cup {None}
      /\ panel.handledPolledIds \cup panel.dismissedSimulationIds \subseteq DOMAIN runs
      /\ runs[id].by = "panel"
  BY <1>1 DEF IInv, StoresOK, IdsOK, PanelOK
<1>3. RunsGrow
  BY <1>1, RunsStay
<1>4. /\ Brings({id}) /\ {id} \subseteq DOMAIN runs
      /\ BoardOK(store') /\ HistoryOK(store') /\ HistoryIds(store') \subseteq DOMAIN runs
      /\ store'.baselineSimulationId \in DOMAIN runs \cup {None}
      /\ store'.isRunning => panel'.seen \notin Settled
      /\ panel'.seen # "completed" => OnBoard' \subseteq OnBoard
  <2>1. CASE panel'.seen = "completed"
    <3> DEFINE r == Result(id)
    <3>1. r \in ResultType /\ r.id = id /\ r # None /\ Served(r)
      BY <1>1, <2>1, ResultIsServed DEF Settled
    <3> HIDE DEF r
    <3>2. store' = SetSimulationResult(store, r, TRUE)
      BY <1>1, <2>1 DEF r
    <3>3. /\ BoardOK(store') /\ HistoryOK(store') /\ Grown(store, store', id)
          /\ store'.result = r /\ ~store'.isRunning
      BY <1>2, <3>1, <3>2, SetSimulationResultOK
    <3> QED
      BY <2>1, <3>1, <3>3, AdoptedBrings
  <2>2. CASE panel'.seen # "completed"
    <3>1. /\ BoardOK(store') /\ SameResult(store, store')
          /\ store'.isRunning => panel'.seen \notin Settled
      <4>1. CASE panel'.seen = "failed"
        BY <1>1, <1>2, <4>1, SetRunErrorOK
      <4>2. CASE panel'.seen \notin Settled
        BY <1>1, <1>2, <4>2, SetRunningOK
      <4> QED
        BY <2>2, <4>1, <4>2 DEF Settled
    <3>2. /\ HistoryOK(store') /\ HistoryIds(store') = HistoryIds(store)
          /\ store'.baselineSimulationId = store.baselineSimulationId
          /\ Brings({})
      BY <3>1, SameResultBrings
    <3> QED
      BY <1>1, <1>2, <2>2, <3>1, <3>2 DEF Brings
  <2> QED
    BY <2>1, <2>2
<1>5. TypesOK'
  BY <1>1 DEF IInv, TypesOK
<1>6. IdsOK'
  BY <1>1, <1>2, <1>4 DEF IInv, IdsOK
<1>7. StoresOK'
  BY <1>1, <1>4 DEF IInv, StoresOK
<1>8. RunsOK'
  BY <1>3, <1>4, RunsOKStays
<1>9. PanelOK'
  <2>1. panel'.seen # "completed" => id \notin OnBoard'
    BY <1>1, <1>4
  <2> QED
    BY <1>1, <1>2, <2>1 DEF PanelOK, ClientOK
<1>10. RunnerOK'
  <2>1. runner.pendingSimId \notin {id}
    BY <1>1, ClientsAreApart
  <2> QED
    BY <1>1, <1>3, <1>4, <2>1, RunnerStays
<1>11. CardsOK'
  <2>1. \A c \in Card : card[c].simId \notin {id}
    BY <1>1, ClientsAreApart
  <2> QED
    BY <1>1, <1>3, <1>4, <2>1, CardsStay
<1>12. LoadingOK'
  BY <1>1, <1>4 DEF LoadingOK, Waiting
<1>13. ClicksOK'
  BY <1>1, CardsPostingCount DEF IInv, ClicksOK, Asked
<1> QED
  BY <1>5, <1>6, <1>7, <1>8, <1>9, <1>10, <1>11, <1>12, <1>13 DEF IInv

\* The panel has handled whatever it has seen complete: clearing brings nothing
\* back.
LEMMA ClearBoardIs ==
  ASSUME IInv, ClearBoard
  PROVE  /\ demo' = Idle /\ UNCHANGED <<runner, card, runs, mounted, clicks>>
         /\ panel' \in PanelType /\ panel'.mutation = panel.mutation
         /\ panel'.simId = panel.simId /\ panel'.seen = panel.seen
         /\ panel'.handledPolledIds = panel.handledPolledIds
         /\ panel'.dismissedSimulationIds \subseteq panel.dismissedSimulationIds \cup OnBoard
         /\ BoardOK(store') /\ SameHistory(store, store') /\ Timed(store')
         /\ store'.result = None /\ ~store'.isRunning
<1> DEFINE s == Reset(StopOnBoard(store))
           p == IF store.result = None THEN panel
                ELSE [panel EXCEPT !.dismissedSimulationIds = @ \cup {store.result.id}]
<1>1. /\ demo' = Idle
      /\ store' = PanelAdopt(s, p) /\ panel' = Handled(p)
      /\ UNCHANGED <<runner, card, runs, mounted, clicks>>
  BY DEF ClearBoard
<1>2. /\ panel \in PanelType /\ PanelOK /\ ClientOK(panel) /\ BoardOK(store)
      /\ panel.handledPolledIds \cup panel.dismissedSimulationIds \subseteq DOMAIN runs
      /\ OnBoard \subseteq DOMAIN runs /\ panel.simId \in DOMAIN runs \cup {None}
  BY DEF IInv, TypesOK, IdsOK, StoresOK, RunsOK, PanelOK
<1>3. /\ p \in PanelType /\ p.mutation = panel.mutation /\ p.simId = panel.simId
      /\ p.seen = panel.seen /\ p.handledPolledIds = panel.handledPolledIds
      /\ p.dismissedSimulationIds \subseteq panel.dismissedSimulationIds \cup OnBoard
  <2>1. CASE store.result = None
    BY <1>2, <2>1
  <2>2. CASE store.result # None
    <3>1. store.result.id \in OnBoard /\ store.result.id \in Nat
      BY <1>2, <2>2, RunsAre DEF OnBoard
    <3> QED
      BY <1>2, <2>2, <3>1 DEF PanelType
  <2> QED
    BY <2>1, <2>2
<1> HIDE DEF p
\* The panel has handled whatever it has seen complete.
<1>4. ~PanelAdopts(p)
  BY <1>2, <1>3, NoneAssumption DEF PanelAdopts, PanelOK, ClientOK
<1>5. store' = s /\ panel' = p
  BY <1>1, <1>4 DEF PanelAdopt, Handled
<1>6. /\ BoardOK(store') /\ SameHistory(store, store') /\ Timed(store')
      /\ store'.result = None /\ ~store'.isRunning
  <2>1. BoardOK(StopOnBoard(store)) /\ SameResult(store, StopOnBoard(store))
    BY <1>2, StopOnBoardOK
  <2>2. /\ BoardOK(s) /\ SameHistory(StopOnBoard(store), s) /\ Timed(s)
        /\ s.result = None /\ ~s.isRunning
    BY <2>1, ResetOK
  <2> HIDE DEF s
  <2> QED
    BY <1>5, <2>1, <2>2 DEF SameResult, SameHistory
<1> QED
  BY <1>1, <1>3, <1>5, <1>6

\* Clear.
LEMMA ClearBoardStep ==
  ASSUME IInv, ClearBoard
  PROVE  IInv'
<1>1. /\ demo' = Idle
      /\ UNCHANGED <<runner, card, runs, mounted, clicks>>
  BY ClearBoardIs
<1>2. /\ panel \in PanelType /\ PanelOK /\ ClientOK(panel) /\ BoardOK(store)
      /\ panel.handledPolledIds \cup panel.dismissedSimulationIds \subseteq DOMAIN runs
      /\ OnBoard \subseteq DOMAIN runs /\ panel.simId \in DOMAIN runs \cup {None}
  BY DEF IInv, TypesOK, IdsOK, StoresOK, RunsOK, PanelOK
<1>3. /\ panel' \in PanelType /\ panel'.mutation = panel.mutation /\ panel'.simId = panel.simId
      /\ panel'.seen = panel.seen /\ panel'.handledPolledIds = panel.handledPolledIds
      /\ panel'.dismissedSimulationIds \subseteq panel.dismissedSimulationIds \cup OnBoard
  BY ClearBoardIs
<1>4. BoardOK(store') /\ SameHistory(store, store') /\ store'.result = None /\ ~store'.isRunning
  BY ClearBoardIs
<1>5. /\ HistoryOK(store') /\ HistoryIds(store') = HistoryIds(store)
      /\ store'.baselineSimulationId = store.baselineSimulationId
      /\ Brings({})
  BY <1>4, ClearedBrings
<1>6. DemoOK(demo') /\ demo'.activePresetId = None /\ demo'.beats = <<>> /\ demo'.beatsOf = None
  BY <1>1, IdleOK DEF Idle
<1>7. RunsGrow
  BY <1>1, RunsStay
<1>8. TypesOK'
  BY <1>1, <1>3 DEF IInv, TypesOK
<1>9. IdsOK'
  BY <1>1, <1>2, <1>3, <1>5, <1>6 DEF IInv, IdsOK
<1>10. StoresOK'
  BY <1>4, <1>5, <1>6 DEF StoresOK
<1>11. RunsOK'
  BY <1>5, <1>7, RunsOKStays
<1>12. PanelOK'
  <2>1. OnBoard' \subseteq OnBoard
    BY <1>5 DEF Brings
  <2>2. ClientOK(panel)'
    BY <1>1, <1>2, <1>3 DEF ClientOK
  <2> QED
    BY <1>1, <1>2, <1>3, <2>1, <2>2 DEF PanelOK
<1>13. RunnerOK'
  BY <1>1, <1>5, <1>6, <1>7, RunnerStays
<1>14. CardsOK'
  BY <1>1, <1>5, <1>7, CardsStay
<1>15. LoadingOK'
  BY <1>4 DEF LoadingOK
<1>16. ClicksOK'
  BY <1>1, <1>3, CardsPostingCount DEF IInv, ClicksOK, Asked
<1> QED
  BY <1>8, <1>9, <1>10, <1>11, <1>12, <1>13, <1>14, <1>15, <1>16 DEF IInv

-------------------------------------------------------------------------------
(* DemoRunner's actions. *)

\* At a dispatch the poller's old run is not adopted: it is not the awaited
\* one any more.
LEMMA DispatchIs ==
  ASSUME IInv, NEW d, Dispatch(d, runner)
  PROVE  /\ d.activePresetId \in Seeded
         /\ store' = SetRunning(Reset(store), TRUE)
         /\ demo' = d
         /\ runner' \in RunnerType
         /\ runner'.mutation = "pending" /\ runner'.simId = None /\ runner'.seen = None
         /\ runner'.pendingSimId = None /\ runner'.preset = d.activePresetId
<1> DEFINE w == [runner EXCEPT !.pendingSimId = None]
           a == RunnerAdopt(SetRunning(Reset(store), TRUE), d, w)
<1>1. /\ d.activePresetId \in Seeded
      /\ store' = a.store /\ demo' = a.demo
      /\ runner' = Requested([a.runner EXCEPT !.preset = d.activePresetId])
  BY DEF Dispatch
<1>2. runner \in RunnerType /\ ClientOK(runner)
  BY DEF IInv, TypesOK, RunnerOK
<1>3. /\ w \in RunnerType /\ w.seen = runner.seen /\ w.simId = runner.simId
      /\ w.pendingSimId = None
  BY <1>2 DEF RunnerType
<1> HIDE DEF w
<1>4. ~RunnerAdopts(d, w)
  BY <1>2, <1>3, NoneAssumption DEF RunnerAdopts, ClientOK, Settled
<1>5. a = [store |-> SetRunning(Reset(store), TRUE), demo |-> d, runner |-> w]
  BY <1>4 DEF RunnerAdopt
<1> HIDE DEF a
<1>6. a.store = SetRunning(Reset(store), TRUE) /\ a.demo = d /\ a.runner = w
  BY <1>5
<1>7. d.activePresetId \in Preset
  BY <1>1, SeededAssumption
<1> QED
  BY <1>1, <1>3, <1>6, <1>7 DEF RunnerType, Requested, Mutation, SeenStatus

\* A demo is dispatched, by its button or by a new DemoRunner.
LEMMA DispatchStep ==
  ASSUME IInv, NEW d, DemoOK(d), d.beats = <<>>, d.beatsOf \in DOMAIN runs \cup {None},
         Dispatch(d, runner), UNCHANGED <<panel, card, runs>>,
         mounted' \in BOOLEAN, clicks' \in 0 .. MaxClicks, ClicksOK'
  PROVE  IInv'
<1>1. /\ d.activePresetId \in Seeded
      /\ store' = SetRunning(Reset(store), TRUE)
      /\ demo' = d
      /\ runner' \in RunnerType
      /\ runner'.mutation = "pending" /\ runner'.simId = None /\ runner'.seen = None
      /\ runner'.pendingSimId = None /\ runner'.preset = d.activePresetId
  BY DispatchIs
<1>2. BoardOK(store') /\ SameHistory(store, store') /\ store'.result = None
  <2>1. BoardOK(Reset(store)) /\ SameHistory(store, Reset(store)) /\ Reset(store).result = None
    BY ResetOK DEF IInv, StoresOK
  <2>2. BoardOK(store') /\ SameResult(Reset(store), store')
    BY <1>1, <2>1, SetRunningOK
  <2> QED
    BY <2>1, <2>2 DEF SameResult, SameHistory
<1>3. /\ HistoryOK(store') /\ HistoryIds(store') = HistoryIds(store)
      /\ store'.baselineSimulationId = store.baselineSimulationId
      /\ Brings({})
  BY <1>2, ClearedBrings
<1>4. RunsGrow
  BY RunsStay
<1>5. d.activePresetId # None
  BY <1>1, SeededAssumption, NoneAssumption
<1>6. TypesOK'
  BY <1>1 DEF IInv, TypesOK
<1>7. IdsOK'
  BY <1>1, <1>3 DEF IInv, IdsOK
<1>8. StoresOK'
  BY <1>1, <1>2, <1>3 DEF StoresOK
<1>9. RunsOK'
  BY <1>3, <1>4, RunsOKStays
<1>10. PanelOK'
  BY <1>3, <1>4, PanelStays
<1>11. RunnerOK'
  BY <1>1, <1>5, NoneAssumption DEF RunnerOK, ClientOK, Settled
<1>12. CardsOK'
  BY <1>3, <1>4, CardsStay
<1>13. LoadingOK'
  BY <1>1, <1>5 DEF LoadingOK
<1> QED
  BY <1>6, <1>7, <1>8, <1>9, <1>10, <1>11, <1>12, <1>13 DEF IInv

\* A demo button.
LEMMA PressDemoStep ==
  ASSUME IInv, NEW preset \in Preset, PressDemo(preset)
  PROVE  IInv'
<1> DEFINE d == Arm(preset)
<1>1. /\ clicks < MaxClicks /\ clicks' = clicks + 1
      /\ Dispatch(d, runner) \/ NothingToDispatch(d, runner)
      /\ UNCHANGED <<panel, card, runs, mounted>>
  BY DEF PressDemo, Click
<1>2. /\ DemoOK(d) /\ d.activePresetId = preset /\ d.beats = <<>>
      /\ d.beatsOf = None
  BY ArmOK DEF Arm, Idle
<1>3. clicks' \in 0 .. MaxClicks /\ mounted' \in BOOLEAN
  BY <1>1, ClicksAre DEF IInv, TypesOK
<1> HIDE DEF d
<1>4. CASE Dispatch(d, runner)
  <2>1. runner'.mutation = "pending"
    BY <1>4, DispatchIs
  <2>2. ClicksOK'
    BY <1>1, <2>1, ClicksAre, CardsPostingCount DEF IInv, ClicksOK, Asked
  <2> QED
    BY <1>1, <1>2, <1>3, <1>4, <2>2, DispatchStep
<1>5. CASE NothingToDispatch(d, runner)
  <2>1. /\ d.activePresetId \notin Seeded /\ demo' = Fail(d)
        /\ runner' = [runner EXCEPT !.pendingSimId = None]
        /\ UNCHANGED store
    BY <1>5 DEF NothingToDispatch
  <2>2. /\ DemoOK(demo') /\ demo'.activePresetId = preset /\ demo'.beats = <<>>
        /\ demo'.beatsOf = None
    BY <1>2, <2>1, PhaseOK DEF SameTimeline
  <2>3. runner \in RunnerType /\ RunnerOK /\ preset # None
    BY NoneAssumption DEF IInv, TypesOK
  <2>4. /\ runner' \in RunnerType /\ runner'.mutation = runner.mutation
        /\ runner'.simId = runner.simId /\ runner'.seen = runner.seen
        /\ runner'.pendingSimId = None /\ runner'.preset = runner.preset
    BY <2>1, <2>3 DEF RunnerType
  <2>5. RunsGrow /\ Brings({})
    BY <1>1, <2>1, RunsStay, SameBoard
  <2>6. TypesOK'
    BY <1>1, <1>3, <2>4 DEF IInv, TypesOK
  <2>7. IdsOK'
    BY <1>1, <2>1, <2>2, <2>4 DEF IInv, IdsOK
  <2>8. StoresOK'
    BY <2>1, <2>2 DEF IInv, StoresOK
  <2>9. RunsOK'
    BY <2>5, RunsOKStays
  <2>10. PanelOK'
    BY <1>1, <2>5, PanelStays
  <2>11. RunnerOK'
    BY <1>1, <1>2, <2>1, <2>2, <2>3, <2>4 DEF RunnerOK, ClientOK
  <2>12. CardsOK'
    BY <1>1, <2>5, CardsStay
  <2>13. LoadingOK'
    BY <2>2, <2>3 DEF LoadingOK
  <2>14. ClicksOK'
    BY <1>1, <2>4, ClicksAre, CardsPostingCount DEF IInv, ClicksOK, Asked
  <2> QED
    BY <2>6, <2>7, <2>8, <2>9, <2>10, <2>11, <2>12, <2>13, <2>14 DEF IInv
<1> QED
  BY <1>1, <1>4, <1>5

\* The demo's request is answered: the awaited run is new.
LEMMA RunnerPostedStep ==
  ASSUME IInv, RunnerPosted
  PROVE  IInv'
<1> DEFINE new == Len(runs) + 1
<1>1. /\ runner.mutation = "pending" /\ Accept(runner.preset)
      /\ runner' = [runner EXCEPT !.mutation = "success", !.simId = new, !.pendingSimId = new]
      /\ UNCHANGED <<store, demo, panel, card, mounted, clicks>>
  BY DEF RunnerPosted
<1>2. /\ runner \in RunnerType /\ ClientOK(runner) /\ RunnerOK
      /\ OnBoard \subseteq DOMAIN runs /\ LoadingOK
  BY DEF IInv, TypesOK, RunnerOK, RunsOK
<1>3. runner.preset \in Preset /\ runner.seen = None /\ demo.beats = <<>>
  BY <1>1, <1>2 DEF RunnerOK, ClientOK, RunnerType
<1>4. /\ RunsGrow /\ Len(runs') = new /\ DOMAIN runs' = DOMAIN runs \cup {new}
      /\ new \notin DOMAIN runs /\ runs'[new].by = runner.preset /\ new \in Nat
  <2>1. new \in Nat
    BY RunsAre
  <2> QED
    BY <1>1, <1>3, <2>1, AcceptGrows
<1> HIDE DEF new
<1>5. /\ runner' \in RunnerType /\ runner'.mutation = "success" /\ runner'.simId = new
      /\ runner'.seen = None /\ runner'.pendingSimId = new
      /\ runner'.preset = runner.preset
  BY <1>1, <1>2, <1>3, <1>4 DEF RunnerType, Mutation
<1>6. Brings({}) /\ OnBoard' = OnBoard
  BY <1>1, SameBoard
<1>7. TypesOK'
  BY <1>1, <1>4, <1>5 DEF IInv, TypesOK, RunsGrow
<1>8. IdsOK'
  BY <1>1, <1>4, <1>5 DEF IInv, IdsOK
<1>9. StoresOK'
  BY <1>1 DEF IInv, StoresOK
<1>10. RunsOK'
  BY <1>4, <1>6, RunsOKStays
<1>11. PanelOK'
  BY <1>1, <1>4, <1>6, PanelStays
<1>12. RunnerOK'
  <2>1. new # None
    BY <1>4, NoneAssumption
  <2>2. ClientOK(runner)'
    BY <1>5, <2>1, NoneAssumption DEF ClientOK, Settled
  <2>3. new \notin OnBoard'
    BY <1>2, <1>4, <1>6
  <2> QED
    BY <1>1, <1>2, <1>3, <1>4, <1>5, <2>2, <2>3 DEF RunnerOK
<1>13. CardsOK'
  BY <1>1, <1>4, <1>6, CardsStay
<1>14. LoadingOK'
  BY <1>1, <1>2 DEF LoadingOK, Waiting
<1>15. ClicksOK'
  BY <1>1, <1>4, <1>5, ClicksAre, CardsPostingCount DEF IInv, ClicksOK, Asked, new
<1> QED
  BY <1>7, <1>8, <1>9, <1>10, <1>11, <1>12, <1>13, <1>14, <1>15 DEF IInv

\* The demo's request fails.
LEMMA RunnerPostFailsStep ==
  ASSUME IInv, RunnerPostFails
  PROVE  IInv'
<1>1. /\ runner.mutation = "pending"
      /\ runner' = [runner EXCEPT !.mutation = "error"]
      /\ store' = SetRunError(store)
      /\ demo' = Fail(demo)
      /\ UNCHANGED <<panel, card, runs, mounted, clicks>>
  BY DEF RunnerPostFails
<1>2. BoardOK(store') /\ SameResult(store, store') /\ ~store'.isRunning
  BY <1>1, SetRunErrorOK DEF IInv, StoresOK
<1>3. /\ HistoryOK(store') /\ HistoryIds(store') = HistoryIds(store)
      /\ store'.baselineSimulationId = store.baselineSimulationId
      /\ Brings({})
  BY <1>2, SameResultBrings
<1>4. DemoOK(demo') /\ SameTimeline(demo, demo')
  BY <1>1, PhaseOK DEF IInv, StoresOK
<1>5. runner \in RunnerType /\ RunnerOK
  BY DEF IInv, TypesOK
<1>6. runner.simId = None /\ runner.seen = None /\ runner.pendingSimId = None /\ demo.beats = <<>>
  BY <1>1, <1>5 DEF RunnerOK, ClientOK
<1>7. /\ runner' \in RunnerType /\ runner'.mutation = "error" /\ runner'.simId = None
      /\ runner'.seen = None /\ runner'.pendingSimId = None
  BY <1>1, <1>5, <1>6 DEF RunnerType, Mutation
<1>8. RunsGrow
  BY <1>1, RunsStay
<1>9. TypesOK'
  BY <1>1, <1>7 DEF IInv, TypesOK
<1>10. IdsOK'
  BY <1>1, <1>3, <1>4, <1>7 DEF IInv, IdsOK, SameTimeline
<1>11. StoresOK'
  BY <1>2, <1>3, <1>4 DEF StoresOK
<1>12. RunsOK'
  BY <1>3, <1>8, RunsOKStays
<1>13. PanelOK'
  BY <1>1, <1>3, <1>8, PanelStays
<1>14. RunnerOK'
  BY <1>4, <1>6, <1>7, NoneAssumption DEF RunnerOK, ClientOK, Settled, SameTimeline
<1>15. CardsOK'
  BY <1>1, <1>3, <1>8, CardsStay
<1>16. LoadingOK'
  BY <1>2 DEF LoadingOK
<1>17. ClicksOK'
  BY <1>1, <1>7, ClicksAre, CardsPostingCount DEF IInv, ClicksOK, Asked
<1> QED
  BY <1>9, <1>10, <1>11, <1>12, <1>13, <1>14, <1>15, <1>16, <1>17 DEF IInv

\* What an answer to the demo's poll does: nothing but what the poller has seen,
\* unless it is of the run the demo waits for.
LEMMA RunnerPollIs ==
  ASSUME IInv, RunnerPoll
  PROVE  LET id == runner.simId
         IN  /\ UNCHANGED <<panel, card, runs, mounted, clicks>>
             /\ runner.mutation = "success" /\ runner.seen \notin Settled
             /\ id \in DOMAIN runs /\ id # None
             /\ runner' \in RunnerType /\ runner'.mutation = "success" /\ runner'.simId = id
             /\ runner'.preset = runner.preset
             /\ runner'.seen \in Settled /\ runs[id].status = runner'.seen
             /\ \/ /\ demo.activePresetId = None \/ id # runner.pendingSimId
                   /\ store' = store /\ demo' = demo
                   /\ runner'.pendingSimId = runner.pendingSimId
                \/ /\ store' = SetRunError(store) /\ demo' = Fail(demo)
                   /\ runner'.pendingSimId = runner.pendingSimId
                \/ /\ id = runner.pendingSimId /\ demo.beats = <<>>
                   /\ runner'.seen = "completed" /\ runner'.pendingSimId = None
                   /\ BoardOK(store') /\ HistoryOK(store') /\ Grown(store, store', id)
                   /\ store'.result = Result(id) /\ ~store'.isRunning /\ Timed(store')
                   /\ store'.savedNodeIds = {} /\ Leads(store', id)
                   /\ DemoOK(demo') /\ demo'.activePresetId = demo.activePresetId
                   /\ demo'.beats # <<>> /\ demo'.beatsOf = id
<1> DEFINE id == runner.simId
<1>1. PICK status \in Answers(runner) \cap Settled :
        LET a == RunnerAdopt(store, demo, [runner EXCEPT !.seen = status])
        IN  store' = a.store /\ demo' = a.demo /\ runner' = a.runner
  BY DEF RunnerPoll
<1>2. UNCHANGED <<panel, card, runs, mounted, clicks>>
  BY DEF RunnerPoll
<1> DEFINE w == [runner EXCEPT !.seen = status]
           a == RunnerAdopt(store, demo, w)
<1>3. store' = a.store /\ demo' = a.demo /\ runner' = a.runner
  BY <1>1
<1>4. /\ runner \in RunnerType /\ RunnerOK /\ ClientOK(runner)
      /\ BoardOK(store) /\ HistoryOK(store) /\ DemoOK(demo)
      /\ id \in DOMAIN runs \cup {None}
  BY DEF IInv, TypesOK, StoresOK, RunnerOK, IdsOK
<1>5. runner.mutation = "success" /\ runner.seen \notin Settled
  BY DEF Answers
<1>6. id # None /\ id \in DOMAIN runs
  BY <1>4, <1>5 DEF ClientOK
<1>7. status \in Settled /\ runs[id].status = status
  BY <1>5 DEF Answers, Settled
<1>8. /\ w \in RunnerType /\ w.mutation = "success" /\ w.simId = id /\ w.seen = status
      /\ w.pendingSimId = runner.pendingSimId /\ w.preset = runner.preset
  BY <1>4, <1>5, <1>7 DEF RunnerType, Mutation, SeenStatus
<1> HIDE DEF w
<1>9. CASE ~RunnerAdopts(demo, w)
  <2>1. a = [store |-> store, demo |-> demo, runner |-> w]
    BY <1>9 DEF RunnerAdopt
  <2> HIDE DEF a
  <2>2. store' = store /\ demo' = demo /\ runner' = w
    BY <1>3, <2>1
  <2>3. demo.activePresetId = None \/ id # runner.pendingSimId
    BY <1>7, <1>8, <1>9 DEF RunnerAdopts
  <2> QED
    BY <1>2, <1>5, <1>6, <1>7, <1>8, <2>2, <2>3
<1>10. CASE RunnerAdopts(demo, w) /\ status = "failed"
  <2>1. a = [store |-> SetRunError(store), demo |-> Fail(demo), runner |-> w]
    BY <1>8, <1>10 DEF RunnerAdopt
  <2> HIDE DEF a
  <2>2. store' = SetRunError(store) /\ demo' = Fail(demo) /\ runner' = w
    BY <1>3, <2>1
  <2> QED
    BY <1>2, <1>5, <1>6, <1>7, <1>8, <2>2
<1>11. CASE RunnerAdopts(demo, w) /\ status = "completed"
  <2> DEFINE r == Result(id)
             s1 == SetSimulationResult(store, r, FALSE)
             d1 == LoadBeats(demo, r)
             b == Beat(d1, 0)
             e == IF Opens(d1) THEN GoToBeat(d1, 0, TRUE) ELSE d1
  <2>1. r \in ResultType /\ r.id = id
    BY <1>6, <1>7, <1>11, ResultIsServed
  <2>2. id = runner.pendingSimId /\ demo.beats = <<>> /\ id \notin HistoryIds(store)
    BY <1>4, <1>6, <1>8, <1>11 DEF RunnerAdopts, RunnerOK, OnBoard
  <2>3. /\ store' = IF Opens(d1) THEN ApplyBeat(s1, b) ELSE s1
        /\ demo' = e
        /\ runner' = [w EXCEPT !.pendingSimId = None]
    <3>1. a = [store |-> IF Opens(d1) THEN ApplyBeat(s1, b) ELSE s1,
               demo |-> e,
               runner |-> [w EXCEPT !.pendingSimId = None]]
      BY <1>8, <1>11 DEF RunnerAdopt
    <3> HIDE DEF a, e, s1, d1, b
    <3> QED
      BY <1>3, <3>1
  <2>4. /\ DemoOK(e) /\ e.activePresetId = demo.activePresetId
        /\ e.beats # <<>> /\ e.beatsOf = r.id /\ b \in BeatType
    BY <1>4, <2>1, <2>2, LoadBeatsOK
  <2>5. /\ BoardOK(s1) /\ HistoryOK(s1) /\ Grown(store, s1, id) /\ Timed(s1)
        /\ s1.result = r /\ ~s1.isRunning /\ s1.savedNodeIds = {} /\ Leads(s1, id)
    BY <1>4, <2>1, <2>2, SetSimulationResultOK
  <2>6. /\ runner' \in RunnerType /\ runner'.mutation = "success" /\ runner'.simId = id
        /\ runner'.seen = "completed" /\ runner'.pendingSimId = None
        /\ runner'.preset = runner.preset
    BY <1>8, <1>11, <2>3 DEF RunnerType
  <2> HIDE DEF s1, d1, b, e
  <2>7. BoardOK(store') /\ Kept(s1, store') /\ Timed(store')
    <3>1. LET t == ApplyBeat(s1, b) IN BoardOK(t) /\ Kept(s1, t) /\ Timed(t)
      BY <2>4, <2>5, ApplyBeatOK
    <3>2. Kept(s1, s1)
      BY DEF Kept, SameResult, SameHistory
    <3> QED
      BY <2>3, <2>5, <3>1, <3>2
  <2>8. /\ HistoryOK(store') /\ Grown(store, store', id)
        /\ store'.result = r /\ ~store'.isRunning
        /\ store'.savedNodeIds = {} /\ Leads(store', id)
    BY <2>5, <2>7, SameHistoryIsOK DEF Kept, SameResult, SameHistory, Grown, Leads, HistoryIds
  <2> QED
    BY <1>2, <1>5, <1>6, <1>7, <1>11, <2>1, <2>2, <2>3, <2>4, <2>6, <2>7, <2>8
<1> QED
  BY <1>7, <1>9, <1>10, <1>11 DEF Settled

\* The poller's half of the invariant, whatever the answer does to the board.
LEMMA RunnerPollKeeps ==
  ASSUME IInv, RunnerPoll, NEW ids, Brings(ids), ids \subseteq DOMAIN runs,
         runner.pendingSimId # None \/ ids = {}, \A k \in ids : k = runner.pendingSimId,
         BoardOK(store'), HistoryOK(store'), HistoryIds(store') \subseteq DOMAIN runs,
         store'.baselineSimulationId \in DOMAIN runs \cup {None},
         DemoOK(demo'), demo'.beatsOf \in DOMAIN runs \cup {None},
         RunnerOK', LoadingOK', runner'.pendingSimId \in {runner.pendingSimId, None}
  PROVE  IInv'
<1>1. /\ UNCHANGED <<panel, card, runs, mounted, clicks>>
      /\ runner.mutation = "success" /\ runner' \in RunnerType
      /\ runner'.mutation = "success" /\ runner'.simId \in DOMAIN runs
  BY RunnerPollIs
<1>2. RunsGrow
  BY <1>1, RunsStay
<1>3. TypesOK'
  BY <1>1 DEF IInv, TypesOK
<1>4. IdsOK'
  BY <1>1 DEF IInv, IdsOK
<1>5. StoresOK'
  BY DEF StoresOK
<1>6. RunsOK'
  BY <1>2, RunsOKStays
<1>7. PanelOK'
  <2>1. panel.simId \notin ids
    BY ClientsAreApart
  <2> QED
    BY <1>1, <1>2, <2>1, PanelStays
<1>8. CardsOK'
  <2>1. \A c \in Card : card[c].simId \notin ids
    BY ClientsAreApart
  <2> QED
    BY <1>1, <1>2, <2>1, CardsStay
<1>9. ClicksOK'
  BY <1>1, CardsPostingCount DEF IInv, ClicksOK, Asked
<1> QED
  BY <1>3, <1>4, <1>5, <1>6, <1>7, <1>8, <1>9 DEF IInv

\* An answer to the demo's poll.
LEMMA RunnerPollStep ==
  ASSUME IInv, RunnerPoll
  PROVE  IInv'
<1> DEFINE id == runner.simId
<1>1. /\ UNCHANGED <<panel, card, runs, mounted, clicks>>
      /\ runner.mutation = "success" /\ runner.seen \notin Settled
      /\ id \in DOMAIN runs /\ id # None
      /\ runner'.mutation = "success" /\ runner'.simId = id
      /\ runner'.preset = runner.preset
      /\ runner'.seen \in Settled /\ runs[id].status = runner'.seen
  BY RunnerPollIs
<1>2. /\ RunnerOK /\ LoadingOK
      /\ BoardOK(store) /\ HistoryOK(store) /\ DemoOK(demo)
      /\ runner.pendingSimId \in DOMAIN runs \cup {None}
      /\ HistoryIds(store) \subseteq DOMAIN runs
      /\ store.baselineSimulationId \in DOMAIN runs \cup {None}
      /\ demo.beatsOf \in DOMAIN runs \cup {None}
  BY DEF IInv, StoresOK, IdsOK
<1>3. ClientOK(runner)' /\ ~Waiting(runner)'
  BY <1>1 DEF ClientOK, Waiting, Settled
<1>4. CASE /\ store' = store /\ demo' = demo
           /\ runner'.pendingSimId = runner.pendingSimId
  <2>1. Brings({}) /\ OnBoard' = OnBoard
    BY <1>4, SameBoard
  <2>2. RunnerOK'
    BY <1>1, <1>2, <1>3, <1>4, <2>1 DEF RunnerOK, ClientOK
  <2>3. LoadingOK'
    BY <1>3, <1>4 DEF LoadingOK
  <2> QED
    BY <1>2, <1>4, <2>1, <2>2, <2>3, RunnerPollKeeps
<1>5. CASE /\ store' = SetRunError(store) /\ demo' = Fail(demo)
           /\ runner'.pendingSimId = runner.pendingSimId
  <2>1. BoardOK(store') /\ SameResult(store, store') /\ ~store'.isRunning
    BY <1>2, <1>5, SetRunErrorOK
  <2>2. /\ HistoryOK(store') /\ HistoryIds(store') = HistoryIds(store)
        /\ store'.baselineSimulationId = store.baselineSimulationId
        /\ Brings({})
    BY <2>1, SameResultBrings
  <2>3. DemoOK(demo') /\ SameTimeline(demo, demo')
    BY <1>2, <1>5, PhaseOK
  <2>4. RunnerOK'
    <3>1. OnBoard' \subseteq OnBoard
      BY <2>2 DEF Brings
    <3> QED
      BY <1>1, <1>2, <1>3, <1>5, <2>3, <3>1 DEF RunnerOK, ClientOK, SameTimeline
  <2>5. LoadingOK'
    BY <2>1 DEF LoadingOK
  <2> QED
    BY <1>2, <1>5, <2>1, <2>2, <2>3, <2>4, <2>5, RunnerPollKeeps DEF SameTimeline
<1>6. CASE /\ id = runner.pendingSimId /\ demo.beats = <<>>
           /\ runner'.seen = "completed" /\ runner'.pendingSimId = None
           /\ BoardOK(store') /\ HistoryOK(store') /\ Grown(store, store', id)
           /\ store'.result = Result(id) /\ ~store'.isRunning
           /\ DemoOK(demo') /\ demo'.activePresetId = demo.activePresetId
           /\ demo'.beats # <<>> /\ demo'.beatsOf = id
  <2>1. store'.result.id = id /\ store'.result # None /\ Served(store'.result)
    <3>1. Result(id).id = id /\ Result(id) # None /\ Served(Result(id))
      BY <1>1, <1>6, ResultIsServed
    <3> QED
      BY <1>6, <3>1
  <2>2. /\ Brings({id}) /\ HistoryIds(store') \subseteq DOMAIN runs
        /\ store'.baselineSimulationId \in DOMAIN runs \cup {None}
    BY <1>6, <2>1, AdoptedBrings
  <2>3. RunnerOK'
    <3>1. runs[id].by \in Preset /\ (demo.activePresetId \in Seeded =>
                                         runs[id].by = demo.activePresetId)
      BY <1>1, <1>2, <1>6 DEF RunnerOK
    <3> QED
      BY <1>1, <1>3, <1>6, <3>1 DEF RunnerOK, Waiting, Settled
  <2>4. LoadingOK'
    BY <1>6 DEF LoadingOK
  <2> QED
    BY <1>1, <1>6, <2>2, <2>3, <2>4, RunnerPollKeeps
<1> QED
  BY <1>4, <1>5, <1>6, RunnerPollIs

\* Stop demo.
LEMMA StopDemoStep ==
  ASSUME IInv, StopDemo
  PROVE  IInv'
<1>1. /\ demo' = Idle /\ store' = StopOnBoard(store)
      /\ UNCHANGED <<panel, runner, card, runs, mounted, clicks>>
  BY DEF StopDemo
<1>2. BoardOK(store') /\ SameResult(store, store') /\ ~store'.isRunning
  BY <1>1, StopOnBoardOK DEF IInv, StoresOK
<1>3. /\ HistoryOK(store') /\ HistoryIds(store') = HistoryIds(store)
      /\ store'.baselineSimulationId = store.baselineSimulationId
      /\ Brings({})
  BY <1>2, SameResultBrings
<1>4. DemoOK(demo') /\ demo'.activePresetId = None /\ demo'.beats = <<>> /\ demo'.beatsOf = None
  BY <1>1, IdleOK DEF Idle
<1>5. RunsGrow
  BY <1>1, RunsStay
<1>6. TypesOK'
  BY <1>1 DEF IInv, TypesOK
<1>7. IdsOK'
  BY <1>1, <1>3, <1>4 DEF IInv, IdsOK
<1>8. StoresOK'
  BY <1>2, <1>3, <1>4 DEF StoresOK
<1>9. RunsOK'
  BY <1>3, <1>5, RunsOKStays
<1>10. PanelOK'
  BY <1>1, <1>3, <1>5, PanelStays
<1>11. RunnerOK'
  BY <1>1, <1>3, <1>4, <1>5, RunnerStays
<1>12. CardsOK'
  BY <1>1, <1>3, <1>5, CardsStay
<1>13. LoadingOK'
  BY <1>2 DEF LoadingOK
<1>14. ClicksOK'
  BY <1>1 DEF IInv, ClicksOK, Asked, CardsPosting
<1> QED
  BY <1>6, <1>7, <1>8, <1>9, <1>10, <1>11, <1>12, <1>13, <1>14 DEF IInv

-------------------------------------------------------------------------------
(* RecommendationPanel's actions. *)

\* Card c becomes k.
MovesCard(c, k) ==
  /\ card' \in [Card -> CardType] /\ card'[c] = k
  /\ \A d \in Card \ {c} : card'[d] = card[d]

\* One card moves, perhaps to a new run.
LEMMA CardMoves ==
  ASSUME IInv, RunsGrow, NEW ids, Brings(ids), NEW c \in Card, NEW k,
         MovesCard(c, k), CardOK(c)',
         \A d \in Card \ {c} : card[d].simId \notin ids,
         k.simId \notin DOMAIN runs \/ k.simId = card[c].simId
  PROVE  /\ card' \in [Card -> CardType] /\ CardsOK'
         /\ Cardinality(CardsPosting') =
              Cardinality(CardsPosting) + (IF k.at = "post" THEN 1 ELSE 0)
                - (IF card[c].at = "post" THEN 1 ELSE 0)
         /\ \A d \in Card \ {c} : card'[d] = card[d]
         /\ card'[c] = k
<1>1. card \in [Card -> CardType] /\ CardsOK
  BY DEF IInv, TypesOK
<1>2. card' \in [Card -> CardType] /\ card'[c] = k /\ \A d \in Card \ {c} : card'[d] = card[d]
  BY DEF MovesCard
<1>3. \A d \in Card : CardOK(d)'
  <2> SUFFICES ASSUME NEW d \in Card, d # c PROVE CardOK(d)'
    OBVIOUS
  <2> QED
    BY <1>2, CardStays
<1>4. \A d \in Card : card[d].simId \in DOMAIN runs \cup {None}
  BY DEF IInv, IdsOK
<1>5. CardsOK'
  BY <1>1, <1>2, <1>3, <1>4 DEF CardsOK
<1>6. \A d \in Card \ {c} : card'[d].at = card[d].at
  BY <1>2
<1> QED
  BY <1>2, <1>5, <1>6, CardsPostingCount

\* Runs and runs to come, when a card begins or ends a post.
LEMMA CountsStay ==
  ASSUME NEW x \in Nat, NEW a \in Nat, NEW b \in Nat, NEW n \in Nat, NEW m \in Nat,
         NEW p \in Nat, NEW q \in Nat, NEW c \in Nat, NEW d \in Nat,
         b = a + p - q, m + p - d <= n + q - c, n + (x + a) <= c
  PROVE  m + (x + b) <= d
  OBVIOUS

\* What a step of a card leaves of the invariant to show.
LEMMA CardStep ==
  ASSUME IInv, RunsGrow, NEW ids, Brings(ids), ids \subseteq DOMAIN runs,
         NEW c \in Card, NEW k,
         MovesCard(c, k), CardOK(c)',
         card[c].simId # None \/ ids = {}, \A i \in ids : i = card[c].simId,
         k.simId \notin DOMAIN runs \/ k.simId = card[c].simId,
         k.simId \in DOMAIN runs' \cup {None},
         UNCHANGED <<panel, runner, mounted>>,
         BoardOK(store'), HistoryOK(store'), HistoryIds(store') \subseteq DOMAIN runs,
         store'.baselineSimulationId \in DOMAIN runs \cup {None},
         \/ demo' = demo /\ store'.isRunning = store.isRunning
         \/ demo' = Idle /\ ~store'.isRunning,
         clicks' \in 0 .. MaxClicks,
         Len(runs') + (IF k.at = "post" THEN 1 ELSE 0) - clicks'
           <= Len(runs) + (IF card[c].at = "post" THEN 1 ELSE 0) - clicks
  PROVE  IInv'
<1>1. \A d \in Card \ {c} : card[d].simId \notin ids
  BY DEF IInv, CardsOK
<1>2. /\ card' \in [Card -> CardType] /\ CardsOK'
      /\ Cardinality(CardsPosting') =
           Cardinality(CardsPosting) + (IF k.at = "post" THEN 1 ELSE 0)
             - (IF card[c].at = "post" THEN 1 ELSE 0)
      /\ \A d \in Card \ {c} : card'[d] = card[d]
      /\ card'[c] = k
  BY <1>1, CardMoves
<1>3. /\ DemoOK(demo')
      /\ \/ /\ demo'.beats = demo.beats /\ demo'.beatsOf = demo.beatsOf
            /\ demo'.activePresetId = demo.activePresetId
         \/ demo'.beats = <<>> /\ demo'.activePresetId = None
      /\ demo'.beatsOf \in DOMAIN runs \cup {None}
  <2>1. CASE demo' = demo
    BY <2>1 DEF IInv, StoresOK, IdsOK
  <2>2. CASE demo' = Idle
    <3>1. Idle.beatsOf = None
      BY DEF Idle
    <3> QED
      BY <2>2, <3>1, IdleOK
  <2> QED
    BY <2>1, <2>2
<1>4. TypesOK'
  BY <1>2 DEF IInv, TypesOK, RunsGrow
<1>5. IdsOK'
  BY <1>2, <1>3 DEF IInv, IdsOK, RunsGrow
<1>6. StoresOK'
  BY <1>3 DEF StoresOK
<1>7. RunsOK'
  BY RunsOKStays
<1>8. PanelOK'
  <2>1. panel.simId \notin ids
    BY ClientsAreApart
  <2> QED
    BY <2>1, PanelStays
<1>9. RunnerOK'
  <2>1. runner.pendingSimId \notin ids
    BY ClientsAreApart
  <2> QED
    BY <1>3, <2>1, RunnerStays
<1>10. LoadingOK'
  BY DEF IInv, LoadingOK, Waiting
<1>11. ClicksOK'
  <2>1. Len(runs') \in Nat
    BY LenProperties DEF RunsGrow
  <2> DEFINE x == (IF panel.mutation = "pending" THEN 1 ELSE 0)
                    + (IF runner.mutation = "pending" THEN 1 ELSE 0) + (IF mounted THEN 0 ELSE 1)
             a == Cardinality(CardsPosting)
             b == Cardinality(CardsPosting')
             p == IF k.at = "post" THEN 1 ELSE 0
             q == IF card[c].at = "post" THEN 1 ELSE 0
             n == Len(runs)
             m == Len(runs')
  <2>2. a \in Nat /\ b \in Nat /\ n \in Nat /\ m \in Nat /\ clicks \in Nat /\ clicks' \in Nat
    BY <2>1, ClicksAre, CardsPostingCount
  <2>3. b = a + p - q /\ m + p - clicks' <= n + q - clicks /\ p \in Nat /\ q \in Nat
    BY <1>2
  <2>4. x \in Nat /\ Asked = x + a /\ Asked' = x + b
    BY DEF Asked
  <2>5. n + (x + a) <= clicks
    BY <2>4 DEF IInv, ClicksOK
  <2> HIDE DEF x, a, b, p, q, n, m
  <2>6. m + (x + b) <= clicks'
    BY <2>2, <2>3, <2>4, <2>5, CountsStay
  <2> QED
    BY <2>4, <2>6 DEF ClicksOK, m
<1> QED
  BY <1>2, <1>4, <1>5, <1>6, <1>7, <1>8, <1>9, <1>10, <1>11 DEF IInv

\* The facts a card's handler starts from.
LEMMA CardFacts ==
  ASSUME IInv, NEW c \in Card
  PROVE  /\ card \in [Card -> CardType] /\ card[c] \in CardType /\ CardOK(c)
         /\ card[c].simId \in DOMAIN runs \cup {None}
         /\ BoardOK(store) /\ HistoryOK(store) /\ HistoryIds(store) \subseteq DOMAIN runs
         /\ store.baselineSimulationId \in DOMAIN runs \cup {None}
         /\ store.result # None => store.result \in ResultType /\ Served(store.result)
         /\ \A r : Served(r) => r \in ResultType /\ r # None
         /\ NewCard \in CardType
         /\ clicks \in 0 .. MaxClicks
<1>1. NewCard \in CardType
  BY DEF NewCard, CardType
<1>2. \A r : Served(r) => r \in ResultType /\ r # None
  BY ResultHasWaves DEF Served
<1> QED
  BY <1>1, <1>2 DEF IInv, TypesOK, IdsOK, StoresOK, CardsOK, RunsOK

\* A card is reviewed, discarded, or fails.
LEMMA DraftSteps ==
  ASSUME IInv, NEW c \in Card
  PROVE  /\ Review(c) => IInv'
         /\ DiscardDraft(c) => IInv'
         /\ CardFails(c) => IInv'
<1>1. /\ card \in [Card -> CardType] /\ card[c] \in CardType /\ CardOK(c)
      /\ card[c].simId \in DOMAIN runs \cup {None}
      /\ BoardOK(store) /\ HistoryOK(store) /\ HistoryIds(store) \subseteq DOMAIN runs
      /\ store.baselineSimulationId \in DOMAIN runs \cup {None}
      /\ store.result # None => store.result \in ResultType /\ Served(store.result)
      /\ \A r : Served(r) => r \in ResultType /\ r # None
      /\ NewCard \in CardType
      /\ clicks \in 0 .. MaxClicks
  BY CardFacts
<1>2. ASSUME NEW k \in CardType, card' = [card EXCEPT ![c] = k],
             UNCHANGED <<store, demo, panel, runner, runs, mounted, clicks>>,
             k.at \in {"idle", "review"}, k.simId = None,
             k.at = "review" => k.baseline # None,
             k.baseline # None => Served(k.baseline)
      PROVE  IInv'
  <2>1. RunsGrow /\ Brings({})
    BY <1>2, RunsStay, SameBoard
  <2>2. card'[c] = k /\ MovesCard(c, k)
    BY <1>1, <1>2 DEF MovesCard
  <2>3. CardOK(c)'
    BY <1>2, <2>2 DEF CardOK, Served
  <2>4. k.simId \notin DOMAIN runs
    BY <1>2, RunsAre
  <2>5. Len(runs') + (IF k.at = "post" THEN 1 ELSE 0) - clicks'
          <= Len(runs) + (IF card[c].at = "post" THEN 1 ELSE 0) - clicks
    BY <1>2, ClicksAre
  <2>6. {} \subseteq DOMAIN runs /\ \A i \in {} : i = card[c].simId
    OBVIOUS
  <2>7. /\ UNCHANGED <<panel, runner, mounted>> /\ BoardOK(store') /\ HistoryOK(store')
        /\ HistoryIds(store') \subseteq DOMAIN runs
        /\ store'.baselineSimulationId \in DOMAIN runs \cup {None}
        /\ demo' = demo /\ store'.isRunning = store.isRunning
        /\ clicks' \in 0 .. MaxClicks
    BY <1>1, <1>2
  <2> QED
    BY <1>2, <2>1, <2>2, <2>3, <2>4, <2>5, <2>6, <2>7, CardStep
<1>3. Review(c) => IInv'
  <2> SUFFICES ASSUME Review(c) PROVE IInv'
    OBVIOUS
  <2> DEFINE k == [card[c] EXCEPT !.at = "review", !.baseline = store.result]
  <2>1. /\ store.result # None /\ card[c].at = "idle" /\ card' = [card EXCEPT ![c] = k]
        /\ UNCHANGED <<store, demo, panel, runner, runs, mounted, clicks>>
    BY DEF Review
  <2>2. /\ k \in CardType /\ k.at = "review" /\ k.baseline = store.result
        /\ k.simId = card[c].simId
    BY <1>1, <2>1 DEF CardType
  <2>3. card[c].simId = None
    BY <1>1, <2>1 DEF CardOK
  <2> HIDE DEF k
  <2> QED
    BY <1>1, <1>2, <2>1, <2>2, <2>3
<1>4. DiscardDraft(c) => IInv'
  BY <1>1, <1>2 DEF DiscardDraft, NewCard
<1>5. CardFails(c) => IInv'
  <2> SUFFICES ASSUME CardFails(c) PROVE IInv'
    OBVIOUS
  <2>1. CASE card[c].ui # "review"
    BY <1>1, <1>2, <2>1 DEF CardFails, NewCard
  <2>2. CASE card[c].ui = "review"
    <3> DEFINE k == [NewCard EXCEPT !.at = "review", !.baseline = card[c].baseline]
    <3>1. /\ card[c].at \in {"post", "poll"} /\ card' = [card EXCEPT ![c] = k]
          /\ UNCHANGED <<store, demo, panel, runner, runs, mounted, clicks>>
      BY <2>2 DEF CardFails
    <3>2. card[c].baseline # None /\ Served(card[c].baseline)
      BY <1>1, <3>1 DEF CardOK
    <3>3. /\ k \in CardType /\ k.at = "review" /\ k.baseline = card[c].baseline
          /\ k.simId = None
      BY <1>1, <3>2 DEF NewCard, CardType
    <3> HIDE DEF k
    <3> QED
      BY <1>2, <3>1, <3>2, <3>3
  <2> QED
    BY <2>1, <2>2
<1> QED
  BY <1>3, <1>4, <1>5

\* An intervention is applied: the baseline is set if there is none.
LEMMA ApplyStep ==
  ASSUME IInv, NEW c \in Card, Apply(c)
  PROVE  IInv'
<1> DEFINE baseline == IF card[c].at = "review" THEN card[c].baseline ELSE store.result
           k == [card[c] EXCEPT !.at = "post", !.ui = card[c].at, !.baseline = baseline]
<1>1. /\ clicks < MaxClicks /\ clicks' = clicks + 1 /\ store.result # None
      /\ card[c].at \in {"idle", "review"}
      /\ card' = [card EXCEPT ![c].at = "post", ![c].ui = card[c].at,
                              ![c].baseline = baseline]
      /\ store' = IF store.baselineSimulationId # None THEN store
                  ELSE SetBaselineSimulationId(store, baseline.id)
      /\ UNCHANGED <<demo, panel, runner, runs, mounted>>
  BY DEF Apply, Click
<1>2. /\ card \in [Card -> CardType] /\ card[c] \in CardType /\ CardOK(c)
      /\ BoardOK(store) /\ HistoryOK(store) /\ HistoryIds(store) \subseteq DOMAIN runs
      /\ store.baselineSimulationId \in DOMAIN runs \cup {None}
      /\ store.result # None => store.result \in ResultType /\ Served(store.result)
      /\ \A r : Served(r) => r \in ResultType /\ r # None
  BY CardFacts
<1>3. Served(baseline) /\ baseline \in ResultType /\ baseline # None /\ card[c].simId = None
  BY <1>1, <1>2 DEF CardOK
<1>4. baseline.id \in DOMAIN runs /\ baseline.id \in Nat
  BY <1>3, RunsAre DEF Served
<1> HIDE DEF baseline
<1>5. /\ k \in CardType /\ k.at = "post" /\ k.baseline = baseline /\ k.simId = None
  BY <1>1, <1>2, <1>3 DEF CardType
<1>6. MovesCard(c, k)
  BY <1>1, <1>2, <1>5 DEF MovesCard
<1> HIDE DEF k
<1>7. /\ BoardOK(store') /\ HistoryOK(store') /\ store'.result = store.result
      /\ store'.savedNodeIds = store.savedNodeIds /\ store'.isRunning = store.isRunning
      /\ store'.simulations = store.simulations
      /\ store'.baselineSimulationId \in DOMAIN runs
  <2>1. CASE store.baselineSimulationId # None
    BY <1>1, <1>2, <2>1
  <2>2. CASE store.baselineSimulationId = None
    <3>1. store' = SetBaselineSimulationId(store, baseline.id)
      BY <1>1, <2>2
    <3> QED
      BY <1>1, <1>2, <1>4, <2>2, <3>1, SetBaselineOK
  <2> QED
    BY <2>1, <2>2
<1>8. Brings({}) /\ HistoryIds(store') = HistoryIds(store)
  BY <1>7 DEF Brings, OnBoard, HistoryIds
<1>9. RunsGrow
  BY <1>1, RunsStay
<1>10. CardOK(c)'
  BY <1>1, <1>3, <1>5, <1>6 DEF CardOK, MovesCard, Served
<1>11. k.simId \notin DOMAIN runs
  BY <1>5, RunsAre
<1>12. /\ clicks' \in 0 .. MaxClicks
       /\ Len(runs') + (IF k.at = "post" THEN 1 ELSE 0) - clicks'
            <= Len(runs) + (IF card[c].at = "post" THEN 1 ELSE 0) - clicks
  BY <1>1, <1>5, ClicksAre
<1>13. {} \subseteq DOMAIN runs /\ \A i \in {} : i = card[c].simId
  OBVIOUS
<1> QED
  BY <1>1, <1>2, <1>5, <1>6, <1>7, <1>8, <1>9, <1>10, <1>11, <1>12, <1>13, CardStep

\* Its request is answered.
LEMMA CardPostedStep ==
  ASSUME IInv, NEW c \in Card, CardPosted(c)
  PROVE  IInv'
<1> DEFINE new == Len(runs) + 1
           k == [card[c] EXCEPT !.at = "poll", !.simId = new]
<1>1. /\ card[c].at = "post" /\ Accept("card")
      /\ card' = [card EXCEPT ![c].at = "poll", ![c].simId = new]
      /\ UNCHANGED <<store, demo, panel, runner, mounted, clicks>>
  BY DEF CardPosted
<1>2. /\ card \in [Card -> CardType] /\ card[c] \in CardType /\ CardOK(c)
      /\ BoardOK(store) /\ HistoryOK(store) /\ HistoryIds(store) \subseteq DOMAIN runs
      /\ store.baselineSimulationId \in DOMAIN runs \cup {None}
      /\ clicks \in 0 .. MaxClicks
  BY CardFacts
<1>3. /\ RunsGrow /\ Len(runs') = new /\ DOMAIN runs' = DOMAIN runs \cup {new}
      /\ new \notin DOMAIN runs /\ runs'[new].by = "card" /\ new \in Nat
  <2>1. new \in Nat
    BY RunsAre
  <2>2. "card" \in Preset \cup {"panel", "card"}
    OBVIOUS
  <2> QED
    BY <1>1, <2>1, <2>2, AcceptGrows
<1>4. Len(runs) \in Nat /\ new # None
  BY <1>3, RunsAre, NoneAssumption
<1>5. Len(runs') = Len(runs) + 1
  BY <1>3
<1> HIDE DEF new
<1>6. k \in CardType /\ k.at = "poll" /\ k.baseline = card[c].baseline /\ k.simId = new
  BY <1>2, <1>3 DEF CardType
<1>7. MovesCard(c, k)
  BY <1>1, <1>2, <1>6 DEF MovesCard
<1> HIDE DEF k
<1>8. Brings({}) /\ OnBoard' = OnBoard
  BY <1>1, SameBoard
<1>9. card[c].baseline # None /\ Served(card[c].baseline)
  BY <1>1, <1>2 DEF CardOK
<1>10. \A r : r = card[c].baseline => Served(r)'
  BY <1>3, <1>9, ServedStays
<1>11. CardOK(c)'
  <2>1. new \notin OnBoard'
    BY <1>3, <1>8 DEF IInv, RunsOK
  <2>2. Served(card[c].baseline)'
    BY <1>6, <1>7, <1>10 DEF Served, MovesCard
  <2> QED
    BY <1>3, <1>4, <1>6, <1>7, <1>9, <2>1, <2>2 DEF CardOK, MovesCard
<1>12. Len(runs') + (IF k.at = "post" THEN 1 ELSE 0) - clicks'
         <= Len(runs) + (IF card[c].at = "post" THEN 1 ELSE 0) - clicks
  BY <1>1, <1>4, <1>5, <1>6, ClicksAre
<1>13. {} \subseteq DOMAIN runs /\ \A i \in {} : i = card[c].simId
  OBVIOUS
<1>14. /\ k.simId \notin DOMAIN runs /\ k.simId \in DOMAIN runs' \cup {None}
       /\ store'.isRunning = store.isRunning /\ demo' = demo
       /\ BoardOK(store') /\ HistoryOK(store') /\ HistoryIds(store') \subseteq DOMAIN runs
       /\ store'.baselineSimulationId \in DOMAIN runs \cup {None}
       /\ clicks' \in 0 .. MaxClicks
  BY <1>1, <1>2, <1>3, <1>6
<1> QED
  BY <1>1, <1>3, <1>6, <1>7, <1>8, <1>11, <1>12, <1>13, <1>14, CardStep

\* The handler of a card that settles: what it makes of the store.
LEMMA Settles ==
  ASSUME IInv, NEW c \in Card, CardSettles(c)
  PROVE  LET r == Result(card[c].simId)
         IN  /\ card[c].at = "poll" /\ card[c].simId \in DOMAIN runs
             /\ card[c].simId # None /\ card[c].simId \notin OnBoard
             /\ runs[card[c].simId].status = "completed"
             /\ r \in ResultType /\ r # None /\ r.id = card[c].simId /\ Served(r)
             /\ BoardOK(store') /\ HistoryOK(store') /\ Grown(store, store', r.id)
             /\ store'.result = r /\ ~store'.isRunning /\ Timed(store') /\ Leads(store', r.id)
             /\ store'.savedNodeIds = Saved(card[c].baseline, r)
             /\ demo' = Idle
             /\ UNCHANGED <<panel, runner, runs, mounted, clicks>>
             /\ LET k == IF card[c].ui = "gone" THEN NewCard
                         ELSE [card[c] EXCEPT !.at = "applied"]
                IN  card' = [card EXCEPT ![c] = k]
<1> DEFINE id == card[c].simId
           r == Result(id)
           s1 == AddSimulation(store, r.id)
           s2 == StopOnBoard(s1)
           s3 == SetSimulationResult(s2, r, TRUE)
           saved == Saved(card[c].baseline, r)
<1>1. /\ card[c].at = "poll" /\ runs[id].status = "completed"
      /\ store' = SetSavedNodes(s3, saved)
      /\ demo' = Idle
      /\ card' = [card EXCEPT ![c] = IF card[c].ui = "gone" THEN NewCard
                                     ELSE [card[c] EXCEPT !.at = "applied"]]
      /\ UNCHANGED <<panel, runner, runs, mounted, clicks>>
  BY DEF CardSettles, CardEnds, Adopted
<1>2. CardOK(c) /\ id \in DOMAIN runs \cup {None} /\ BoardOK(store) /\ HistoryOK(store)
  BY CardFacts
<1>3. id # None /\ id \in DOMAIN runs /\ id \notin OnBoard
  BY <1>1, <1>2 DEF CardOK
<1>4. r.id = id
  BY DEF Result
<1>5. r \in ResultType /\ r # None /\ Served(r) /\ r.id \in Nat /\ runs[id].status = "completed"
  BY <1>1, <1>3, <1>4, ResultIsServed, RunsAre
<1> HIDE DEF r
<1>6. BoardOK(s1) /\ HistoryOK(s1) /\ Grown(store, s1, r.id) /\ Leads(s1, r.id)
  BY <1>2, <1>5, AddSimulationOK
<1> HIDE DEF s1
<1>7. BoardOK(s2) /\ HistoryOK(s2) /\ Grown(store, s2, r.id) /\ Leads(s2, r.id)
  <2>1. BoardOK(s2) /\ SameHistory(s1, s2)
    BY <1>6, StopOnBoardOK DEF SameResult
  <2> HIDE DEF s2
  <2> QED
    BY <1>6, <2>1, SameHistoryIsOK DEF Grown, Leads, SameHistory
<1> HIDE DEF s2
<1>8. /\ BoardOK(s3) /\ HistoryOK(s3) /\ Grown(store, s3, r.id) /\ Timed(s3)
      /\ s3.result = r /\ ~s3.isRunning /\ Leads(s3, r.id)
  <2>1. /\ BoardOK(s3) /\ HistoryOK(s3) /\ Grown(s2, s3, r.id) /\ Timed(s3)
        /\ s3.result = r /\ ~s3.isRunning /\ Leads(s3, r.id)
    BY <1>5, <1>7, SetSimulationResultOK
  <2> HIDE DEF s3
  <2> QED
    BY <1>7, <2>1 DEF Grown
<1> HIDE DEF s3
<1>9. saved \subseteq Asset /\ saved \cap FailedIn(r) = {}
  <2>1. card[c].baseline # None /\ Served(card[c].baseline)
    BY <1>1, <1>2 DEF CardOK
  <2>2. FailedIn(card[c].baseline) \subseteq Asset
    BY <2>1, ResultHasWaves DEF Served
  <2> QED
    BY <2>2 DEF Saved
<1> HIDE DEF saved
<1>10. /\ BoardOK(store') /\ SameHistory(s3, store') /\ (Timed(s3) => Timed(store'))
       /\ store'.result = s3.result /\ store'.savedNodeIds = saved
       /\ store'.isRunning = s3.isRunning
  BY <1>1, <1>5, <1>8, <1>9, SetSavedNodesOK
<1>11. HistoryOK(store') /\ Grown(store, store', r.id) /\ Leads(store', r.id)
  BY <1>8, <1>10, SameHistoryIsOK DEF Grown, Leads, SameHistory
<1> QED
  BY <1>1, <1>3, <1>4, <1>5, <1>8, <1>10, <1>11 DEF r, saved

\* The card's run is adopted.
LEMMA CardSettlesStep ==
  ASSUME IInv, NEW c \in Card, CardSettles(c)
  PROVE  IInv'
<1> DEFINE id == card[c].simId
           r == Result(id)
           k == IF card[c].ui = "gone" THEN NewCard ELSE [card[c] EXCEPT !.at = "applied"]
<1>1. /\ card[c].at = "poll" /\ id \in DOMAIN runs /\ id # None
      /\ runs[id].status = "completed"
      /\ r \in ResultType /\ r # None /\ r.id = id /\ Served(r)
      /\ BoardOK(store') /\ HistoryOK(store') /\ Grown(store, store', r.id)
      /\ store'.result = r /\ ~store'.isRunning
      /\ store'.savedNodeIds = Saved(card[c].baseline, r)
      /\ demo' = Idle /\ card' = [card EXCEPT ![c] = k]
      /\ UNCHANGED <<panel, runner, runs, mounted, clicks>>
  BY Settles
<1>2. /\ card \in [Card -> CardType] /\ card[c] \in CardType /\ CardOK(c)
      /\ NewCard \in CardType /\ clicks \in 0 .. MaxClicks
  BY CardFacts
<1>3. /\ k \in CardType
      /\ \/ k.at = "applied" /\ k.baseline = card[c].baseline /\ k.simId = id
         \/ k.at = "idle" /\ k.baseline = None /\ k.simId = None
  BY <1>2 DEF NewCard, CardType
<1>4. MovesCard(c, k)
  BY <1>1, <1>2, <1>3 DEF MovesCard
<1> HIDE DEF k, r
<1>5. /\ HistoryIds(store') \subseteq DOMAIN runs
      /\ store'.baselineSimulationId \in DOMAIN runs \cup {None}
      /\ {id} \subseteq DOMAIN runs /\ Brings({id})
  BY <1>1, AdoptedBrings
<1>6. RunsGrow
  BY <1>1, RunsStay
<1>7. CardOK(c)'
  <2>1. card[c].baseline # None /\ Served(card[c].baseline) /\ runs[id].by = "card"
    BY <1>1, <1>2 DEF CardOK
  <2>2. card'[c] = k
    BY <1>4 DEF MovesCard
  <2>3. CASE k.at = "applied"
    BY <1>1, <1>3, <2>1, <2>2, <2>3 DEF CardOK, Served
  <2>4. CASE k.at = "idle"
    BY <1>3, <2>2, <2>4 DEF CardOK
  <2> QED
    BY <1>3, <2>3, <2>4
<1>8. Len(runs') + (IF k.at = "post" THEN 1 ELSE 0) - clicks'
        <= Len(runs) + (IF card[c].at = "post" THEN 1 ELSE 0) - clicks
  BY <1>1, <1>3, ClicksAre
<1>9. /\ \A i \in {id} : i = card[c].simId
      /\ k.simId \notin DOMAIN runs \/ k.simId = card[c].simId
      /\ k.simId \in DOMAIN runs' \cup {None}
      /\ clicks' \in 0 .. MaxClicks
  BY <1>1, <1>2, <1>3, RunsAre
<1> QED
  BY <1>1, <1>3, <1>4, <1>5, <1>6, <1>7, <1>8, <1>9, CardStep

-------------------------------------------------------------------------------
(* App's actions. *)

\* Components as they mount.
LEMMA NewClients ==
  /\ NewPanel \in PanelType /\ NewPanel.simId = None /\ NewPanel.seen = None
  /\ NewPanel.mutation = "idle"
  /\ NewPanel.handledPolledIds = {} /\ NewPanel.dismissedSimulationIds = {}
  /\ NewRunner \in RunnerType /\ NewRunner.simId = None /\ NewRunner.seen = None
  /\ NewRunner.mutation = "idle" /\ NewRunner.pendingSimId = None
  /\ NewCard \in CardType /\ NewCard.at = "idle" /\ NewCard.simId = None
  /\ NewCard.baseline = None
  BY DEF NewPanel, NewRunner, NewCard, PanelType, RunnerType, CardType, Mutation, SeenStatus

\* Pollers that hold nothing keep their part of the invariant.
LEMMA FreshPollers ==
  ASSUME panel' = NewPanel, runner' = NewRunner,
         demo'.activePresetId \in Seeded /\ demo'.beats # <<>> =>
           runs'[demo'.beatsOf].by = demo'.activePresetId
  PROVE  PanelOK' /\ RunnerOK' /\ ~Waiting(runner)'
<1>1. PanelOK'
  BY NewClients, NoneAssumption DEF PanelOK, ClientOK, Settled
<1>2. RunnerOK' /\ ~Waiting(runner)'
  BY NewClients, NoneAssumption DEF RunnerOK, ClientOK, Settled, Waiting
<1> QED
  BY <1>1, <1>2

\* Another network is selected: the pollers are gone, a card's handler goes on.
LEMMA SwitchNetworkStep ==
  ASSUME IInv, SwitchNetwork
  PROVE  IInv'
<1>1. /\ clicks < MaxClicks /\ clicks' = clicks + 1 /\ mounted = TRUE
      /\ mounted' = FALSE /\ panel' = NewPanel /\ runner' = NewRunner
      /\ card' = [c \in Card |-> IF card[c].at \in {"post", "poll"}
                                 THEN [card[c] EXCEPT !.ui = "gone"] ELSE NewCard]
      /\ UNCHANGED <<store, demo, runs>>
  BY DEF SwitchNetwork, Click, IInv, TypesOK
<1>2. RunsGrow /\ Brings({}) /\ OnBoard' = OnBoard
  BY <1>1, RunsStay, SameBoard
<1>3. card \in [Card -> CardType]
  BY DEF IInv, TypesOK
<1>4. \A c \in Card : card'[c] \in CardType
  BY <1>1, <1>3, NewClients DEF CardType
<1>5. \A c \in Card :
        IF card[c].at \in {"post", "poll"}
        THEN /\ card'[c].at = card[c].at /\ card'[c].baseline = card[c].baseline
             /\ card'[c].simId = card[c].simId
        ELSE card'[c] = NewCard
  BY <1>1, <1>3 DEF CardType
<1>6. TypesOK'
  <2>1. card' \in [Card -> CardType]
    BY <1>1, <1>4
  <2>2. clicks' \in 0 .. MaxClicks
    BY <1>1, ClicksAre
  <2> QED
    BY <1>1, <2>1, <2>2, NewClients DEF IInv, TypesOK
<1>7. IdsOK'
  BY <1>1, <1>5, NewClients DEF IInv, IdsOK
<1>8. StoresOK'
  BY <1>1 DEF IInv, StoresOK
<1>9. RunsOK'
  BY <1>2, RunsOKStays
<1>10. PanelOK' /\ RunnerOK' /\ ~Waiting(runner)'
  <2>1. demo'.activePresetId \in Seeded /\ demo'.beats # <<>> =>
          runs'[demo'.beatsOf].by = demo'.activePresetId
    BY <1>1 DEF IInv, RunnerOK
  <2> QED
    BY <1>1, <2>1, FreshPollers
<1>11. CardsOK'
  <2>1. ASSUME NEW c \in Card PROVE CardOK(c)'
    <3>1. CASE card[c].at \in {"post", "poll"}
      <4>1. CardOK(c)
        BY DEF IInv, CardsOK
      <4> QED
        BY <1>1, <1>2, <1>5, <3>1, <4>1 DEF CardOK, Served
    <3>2. CASE card[c].at \notin {"post", "poll"}
      BY <1>5, <3>2, NewClients DEF CardOK
    <3> QED
      BY <3>1, <3>2
  <2>2. \A c, d \in Card : c # d /\ card'[c].simId # None => card'[c].simId # card'[d].simId
    BY <1>5, NewClients DEF IInv, CardsOK
  <2> QED
    BY <2>1, <2>2 DEF CardsOK
<1>12. LoadingOK'
  BY <1>10 DEF LoadingOK
<1>13. ClicksOK'
  <2>1. CardsPosting' = CardsPosting
    BY <1>5, NewClients DEF CardsPosting
  <2> QED
    BY <1>1, <2>1, NewClients, ClicksAre DEF IInv, ClicksOK, Asked
<1> QED
  BY <1>6, <1>7, <1>8, <1>9, <1>10, <1>11, <1>12, <1>13 DEF IInv

\* The topology arrives.
LEMMA TopologyLoadedStep ==
  ASSUME IInv, TopologyLoaded
  PROVE  IInv'
<1>1. /\ ~mounted /\ mounted' = TRUE
      /\ UNCHANGED <<panel, card, runs, clicks>>
  BY DEF TopologyLoaded
<1>2. mounted' \in BOOLEAN /\ clicks' \in 0 .. MaxClicks
  BY <1>1 DEF IInv, TypesOK
<1>3. CASE demo.phase = "arming" /\ Dispatch(demo, runner)
  <2>1. DemoOK(demo) /\ demo.beats = <<>> /\ demo.beatsOf \in DOMAIN runs \cup {None}
    BY <1>3 DEF IInv, StoresOK, DemoOK, IdsOK
  <2>2. runner'.mutation = "pending"
    BY <1>3, DispatchIs
  <2>3. ClicksOK'
    BY <1>1, <2>2, ClicksAre, CardsPostingCount DEF IInv, ClicksOK, Asked
  <2> QED
    BY <1>1, <1>2, <1>3, <2>1, <2>3, DispatchStep
<1>4. CASE demo' \in {demo, Fail(demo)} /\ UNCHANGED <<store, runner>>
  <2>1. DemoOK(demo') /\ SameTimeline(demo, demo')
    <3>1. DemoOK(demo)
      BY DEF IInv, StoresOK
    <3> QED
      BY <1>4, <3>1, PhaseOK DEF SameTimeline
  <2>2. RunsGrow /\ Brings({})
    BY <1>1, <1>4, RunsStay, SameBoard
  <2>3. TypesOK' /\ IdsOK' /\ StoresOK'
    BY <1>1, <1>4, <2>1 DEF IInv, TypesOK, IdsOK, StoresOK, SameTimeline
  <2>4. RunsOK'
    BY <2>2, RunsOKStays
  <2>5. PanelOK'
    BY <1>1, <2>2, PanelStays
  <2>6. RunnerOK'
    BY <1>4, <2>1, <2>2, RunnerStays DEF SameTimeline
  <2>7. CardsOK'
    BY <1>1, <2>2, CardsStay
  <2>8. LoadingOK'
    BY <1>1, <1>4, <2>1 DEF IInv, LoadingOK, Waiting, SameTimeline
  <2>9. ClicksOK'
    BY <1>1, <1>4, ClicksAre, CardsPostingCount DEF IInv, ClicksOK, Asked
  <2> QED
    BY <2>3, <2>4, <2>5, <2>6, <2>7, <2>8, <2>9 DEF IInv
<1> QED
  BY <1>3, <1>4 DEF TopologyLoaded

\* What both a page load and the start find: nothing but the history.
LEMMA FreshBoard ==
  ASSUME demo' = Idle, panel' = NewPanel, runner' = NewRunner,
         card' = [c \in Card |-> NewCard], mounted' = TRUE,
         runs' \in Seq(RunType), clicks' \in 0 .. MaxClicks, Len(runs') <= clicks',
         \A id \in DOMAIN runs' : runs'[id].status = "completed" => runs'[id].waves \in Shapes,
         BoardOK(store'), HistoryOK(store'), store'.result = None, ~store'.isRunning,
         HistoryIds(store') \subseteq DOMAIN runs',
         store'.baselineSimulationId \in DOMAIN runs' \cup {None}
  PROVE  IInv'
<1>1. /\ DemoOK(demo') /\ demo'.activePresetId = None /\ demo'.beats = <<>>
      /\ demo'.beatsOf = None
  BY IdleOK DEF Idle
<1>2. \A c \in Card : card'[c] = NewCard
  OBVIOUS
<1>3. TypesOK'
  BY NewClients DEF TypesOK
<1>4. IdsOK'
  BY <1>1, <1>2, NewClients DEF IdsOK
<1>5. StoresOK'
  BY <1>1 DEF StoresOK
<1>6. RunsOK'
  BY DEF RunsOK, OnBoard
<1>7. PanelOK' /\ RunnerOK'
  BY <1>1, FreshPollers
<1>8. CardsOK'
  BY <1>2, NewClients DEF CardsOK, CardOK
<1>9. LoadingOK'
  BY DEF LoadingOK
<1>10. ClicksOK'
  <2>1. CardsPosting' = {}
    BY <1>2, NewClients DEF CardsPosting
  <2>2. Cardinality(CardsPosting') = 0
    BY <2>1, FS_EmptySet
  <2>3. Len(runs') \in Nat /\ clicks' \in Nat
    BY LenProperties, MaxClicksAssumption
  <2> QED
    BY <2>2, <2>3, NewClients DEF ClicksOK, Asked
<1> QED
  BY <1>3, <1>4, <1>5, <1>6, <1>7, <1>8, <1>9, <1>10 DEF IInv

\* The page is loaded again.
LEMMA ReloadStep ==
  ASSUME IInv, Reload
  PROVE  IInv'
<1>1. /\ store' = InitialStore(store.simulations)
      /\ demo' = Idle /\ panel' = NewPanel /\ runner' = NewRunner
      /\ card' = [c \in Card |-> NewCard] /\ mounted' = TRUE
      /\ UNCHANGED <<runs, clicks>>
  BY DEF Reload
<1>2. store.simulations \in Seq(EntryType) /\ HistoryOK(store)
  BY FlaggedIsSet DEF IInv, StoresOK
<1>3. /\ BoardOK(store') /\ HistoryOK(store') /\ store'.simulations = store.simulations
      /\ store'.result = None /\ ~store'.isRunning
      /\ store'.baselineSimulationId \in HistoryIds(store) \cup {None}
  BY <1>1, <1>2, InitialStoreOK
<1>4. HistoryIds(store') = HistoryIds(store) /\ HistoryIds(store) \subseteq DOMAIN runs
  BY <1>3 DEF HistoryIds, IInv, IdsOK
<1>5. Len(runs) <= clicks
  <2>1. TypeOK
    BY TypesImply
  <2> QED
    BY <2>1 DEF TypeOK
<1>6. /\ runs \in Seq(RunType) /\ clicks \in 0 .. MaxClicks
      /\ \A id \in DOMAIN runs : runs[id].status = "completed" => runs[id].waves \in Shapes
  BY DEF IInv, TypesOK, RunsOK
<1> QED
  BY <1>1, <1>3, <1>4, <1>5, <1>6, FreshBoard

-------------------------------------------------------------------------------
(* The invariant. *)

\* The first state.
LEMMA InitHolds ==
  Init => IInv
<1> SUFFICES ASSUME Init PROVE IInv
  OBVIOUS
<1>1. <<>> \in Seq(EntryType) /\ <<>> \in Seq(RunType) /\ Len(<<>>) = 0
  BY EmptySeq
<1>2. DOMAIN runs = {}
  BY <1>1 DEF Init
<1> DEFINE s == InitialStore(<<>>)
<1>3. s.simulations = <<>> /\ s.result = None /\ s.isRunning = FALSE
  BY DEF InitialStore
<1>4. InitialBaseline(<<>>) = None
  BY DEF InitialBaseline
<1>5. s.baselineSimulationId = None
  BY <1>4 DEF InitialStore
<1> HIDE DEF s
<1>6. HistoryOK(s)
  BY <1>1, <1>3, <1>5, MaxHistoryAssumption DEF HistoryOK
<1>7. BoardOK(s)
  <2>1. BoardOK(InitialStore(s.simulations))
    BY <1>1, <1>3, <1>6, InitialStoreOK
  <2> QED
    BY <1>3, <2>1 DEF s
<1>8. store = s /\ HistoryIds(s) = {}
  BY <1>3 DEF Init, HistoryIds, s
<1>9. TypesOK
  BY <1>1, NewClients, MaxClicksAssumption DEF Init, TypesOK
<1>10. IdsOK
  BY <1>5, <1>8, NewClients DEF Init, IdsOK, Idle
<1>11. StoresOK
  BY <1>6, <1>7, <1>8, IdleOK DEF Init, StoresOK
<1>12. RunsOK
  BY <1>2, <1>3, <1>8 DEF RunsOK, OnBoard
<1>13. PanelOK /\ RunnerOK
  <2>1. demo.activePresetId = None /\ demo.beats = <<>>
    BY IdleOK DEF Init
  <2> QED
    BY <2>1, NewClients, NoneAssumption
    DEF Init, PanelOK, RunnerOK, ClientOK, Settled, Waiting
<1>14. CardsOK
  BY NewClients DEF Init, CardsOK, CardOK
<1>15. LoadingOK
  BY <1>3, <1>8 DEF LoadingOK
<1>16. ClicksOK
  <2>1. CardsPosting = {}
    BY NewClients DEF Init, CardsPosting
  <2>2. Cardinality(CardsPosting) = 0
    BY <2>1, FS_EmptySet
  <2> QED
    BY <1>1, <2>2, NewClients DEF Init, ClicksOK, Asked
<1> QED
  BY <1>9, <1>10, <1>11, <1>12, <1>13, <1>14, <1>15, <1>16 DEF IInv

\* Every step keeps the invariant.
LEMMA NextKeeps ==
  IInv /\ [Next]_vars => IInv'
<1> SUFFICES ASSUME IInv, [Next]_vars PROVE IInv'
  OBVIOUS
<1>1. CASE User
  <2>1. CASE RunBaseline
    BY <2>1, RunBaselineStep
  <2>2. CASE ClearBoard
    BY <2>2, ClearBoardStep
  <2>3. CASE \E p \in Preset : PressDemo(p)
    BY <2>3, PressDemoStep
  <2>4. CASE StartRecovery
    BY <2>4, DemoSteps, SceneStep
  <2>5. CASE StopDemo
    BY <2>5, StopDemoStep
  <2>6. CASE \E i \in 0 .. LastBeat(demo) : ReplayBeat(i)
    BY <2>6, DemoSteps, SceneStep
  <2>7. CASE \E c \in Card : Review(c) \/ DiscardDraft(c) \/ Apply(c)
    BY <2>7, DraftSteps, ApplyStep
  <2>8. CASE PlayPause \/ Rewind
    BY <2>8, TimelineSteps, SceneStep
  <2>9. CASE store.result # None /\ \E i \in 0 .. LastWave(store.result) : Scrub(i)
    BY <2>9, TimelineSteps, SceneStep
  <2>10. CASE SwitchNetwork
    BY <2>10, SwitchNetworkStep
  <2>11. CASE Reload
    BY <2>11, ReloadStep
  <2> QED
    BY <1>1, <2>1, <2>2, <2>3, <2>4, <2>5, <2>6, <2>7, <2>8, <2>9, <2>10, <2>11 DEF User
<1>2. CASE Posting
  BY <1>2, PanelPostedStep, PanelPostFailsStep, RunnerPostedStep, RunnerPostFailsStep DEF Posting
<1>3. CASE Runs
  BY <1>3, SettleStep DEF Runs
<1>4. CASE AutoAdvance \/ AutoPause
  BY <1>4, DemoSteps, SceneStep
<1>5. CASE PanelPoll \/ RunnerPoll
  BY <1>5, PanelPollStep, RunnerPollStep
<1>6. CASE \E c \in Card : CardPosted(c) \/ CardFails(c) \/ CardSettles(c)
  BY <1>6, CardPostedStep, DraftSteps, CardSettlesStep
<1>7. CASE Tick \/ Autoplay
  BY <1>7, TimelineSteps, SceneStep
<1>8. CASE TopologyLoaded
  BY <1>8, TopologyLoadedStep
<1>9. CASE UNCHANGED vars
  <2>1. /\ UNCHANGED <<store, demo, panel, runner, card, runs, mounted, clicks>>
    BY <1>9 DEF vars
  <2>2. BoardOK(store') /\ DemoOK(demo') /\ Kept(store, store') /\ (Timed(store) => Timed(store'))
    BY <2>1 DEF IInv, StoresOK, Kept, SameResult, SameHistory
  <2> QED
    BY <2>1, <2>2, SceneStep DEF Scene
<1> QED
  BY <1>1, <1>2, <1>3, <1>4, <1>5, <1>6, <1>7, <1>8, <1>9 DEF Next

\* The board keeps its invariant.
THEOREM Invariance == Spec => []IInv
<1>1. Init => IInv
  BY InitHolds
<1>2. IInv /\ [Next]_vars => IInv'
  BY NextKeeps
<1> QED
  BY <1>1, <1>2, PTL DEF Spec

-------------------------------------------------------------------------------
(* The invariants of the board. *)

\* Types, and the ids of the stores are of runs the API accepted.
THEOREM Types == Spec => []TypeOK
<1>1. IInv => TypeOK
  BY TypesImply
<1> QED
  BY <1>1, Invariance, PTL

\* The picture is the timeline's, whatever the timer, the user and the demo did.
THEOREM MapIsTheTimelines == Spec => []MapMatchesTimeline
<1>1. ASSUME IInv PROVE MapMatchesTimeline
  <2>1. BoardOK(store)
    BY <1>1 DEF IInv, StoresOK
  <2>2. store.recoveryStageIndex \in Int
    BY <2>1 DEF BoardOK, StoreType
  <2> QED
    BY <2>1, <2>2 DEF BoardOK, MapMatchesTimeline
<1> QED
  BY <1>1, Invariance, PTL

\* A live timer is the one that the Pause button clears.
THEOREM TimersArePaused == Spec => []PauseReachesEveryTimer
<1>1. ASSUME IInv PROVE PauseReachesEveryTimer
  <2>1. BoardOK(store)
    BY <1>1 DEF IInv, StoresOK
  <2> QED
    BY <2>1 DEF BoardOK, PauseReachesEveryTimer
<1> QED
  BY <1>1, Invariance, PTL

\* A demo tells of a run of its own preset, whatever answer comes late.
THEOREM DemosTellTheirRuns == Spec => []NarrationIsOfItsPreset
<1>1. IInv => NarrationIsOfItsPreset
  BY DEF IInv, RunnerOK, NarrationIsOfItsPreset
<1> QED
  BY <1>1, Invariance, PTL

-------------------------------------------------------------------------------
(* The panels. *)

\* The sets that the pictures are painted from, at any moment.
LEMMA PaintIs ==
  ASSUME IInv
  PROVE  /\ store.failedNodeIds \subseteq Asset
         /\ store.failedNodeIds \cap store.restoredNodeIds = {}
         /\ store.failedNodeIds \cap store.savedNodeIds = {}
<1>1. BoardOK(store)
  BY DEF IInv, StoresOK
<1>2. store.failedNodeIds \subseteq Asset /\ store.recoveryStageIndex \in Int
  BY <1>1 DEF BoardOK, StoreType
<1>3. CASE store.result = None
  BY <1>1, <1>2, <1>3 DEF BoardOK
<1>4. CASE store.result # None
  <2>1. store.result \in ResultType
    BY <1>1, <1>4 DEF BoardOK, StoreType
  <2>2. store.failedNodeIds \subseteq FailedIn(store.result)
    BY <1>1, <1>2, <1>4, <2>1, FailedUpToSteps DEF BoardOK
  <2>3. store.failedNodeIds \cap store.restoredNodeIds = {}
    BY <1>1, <1>2, <1>4 DEF BoardOK
  <2> QED
    BY <1>1, <1>2, <1>4, <2>2, <2>3 DEF BoardOK
<1> QED
  BY <1>3, <1>4

\* The classes of a node in the graph.
LEMMA ClassesAre ==
  ASSUME NEW s, NEW u, NEW v
  PROVE  LET classes == Classes(s, u, v)
         IN  /\ "failed" \in classes <=> v \in s.failedNodeIds
             /\ "restored" \in classes <=> v \in s.restoredNodeIds
             /\ "saved" \in classes <=> v \in s.savedNodeIds
             /\ "selected" \in classes <=> v \in u.selected
             /\ "hovered" \in classes <=> v = u.hovered
<1> DEFINE members == [failed |-> s.failedNodeIds, restored |-> s.restoredNodeIds,
                       saved |-> s.savedNodeIds, selected |-> u.selected,
                       hovered |-> {u.hovered}]
<1>1. DOMAIN members = {"failed", "restored", "saved", "selected", "hovered"}
  OBVIOUS
<1>2. Classes(s, u, v) = {class \in DOMAIN members : v \in members[class]}
  BY DEF Classes
<1>3. /\ members["failed"] = s.failedNodeIds /\ members["restored"] = s.restoredNodeIds
      /\ members["saved"] = s.savedNodeIds /\ members["selected"] = u.selected
      /\ members["hovered"] = {u.hovered}
  OBVIOUS
<1> HIDE DEF members
<1> QED
  BY <1>1, <1>2, <1>3

\* What the map shows as failed has failed, substations too.
LEMMA LooksFailedIs ==
  ASSUME NEW s, NEW u, NEW v
  PROVE  LooksFailed(s, u, v) <=> v \in s.failedNodeIds
  BY DEF LooksFailed, Fill, Size

\* The map and the graph paint one picture.
LEMMA PicturesAreOne ==
  ASSUME IInv, NEW u
  PROVE  PicturesAgree(store, u)
<1>1. /\ store.failedNodeIds \cap store.restoredNodeIds = {}
      /\ store.failedNodeIds \cap store.savedNodeIds = {}
  BY PaintIs
<1>2. ASSUME NEW v \in Asset, NEW classes, classes = Classes(store, u, v)
      PROVE  /\ LooksFailed(store, u, v) <=> Background(classes, v) = "failed red"
             /\ Fill(store, u, v) = "green" <=> Background(classes, v) = "green"
             /\ v \notin u.selected \cup {u.hovered} => Border(classes) = Outline(store, u, v)
             /\ Size(store, v) = "pulsing" <=> Tooltip(store, v).status = "Failed"
  <2>1. /\ "failed" \in classes <=> v \in store.failedNodeIds
        /\ "restored" \in classes <=> v \in store.restoredNodeIds
        /\ "saved" \in classes <=> v \in store.savedNodeIds
        /\ "selected" \in classes <=> v \in u.selected
        /\ "hovered" \in classes <=> v = u.hovered
    BY <1>2, ClassesAre
  <2>2. LooksFailed(store, u, v) <=> Background(classes, v) = "failed red"
    BY <1>1, <2>1, LooksFailedIs DEF Background, TypeColour
  <2>3. Fill(store, u, v) = "green" <=> Background(classes, v) = "green"
    BY <1>1, <2>1 DEF Fill, Background, TypeColour
  <2>4. v \notin u.selected \cup {u.hovered} => Border(classes) = Outline(store, u, v)
    BY <1>1, <2>1 DEF Border, Outline
  <2>5. Size(store, v) = "pulsing" <=> Tooltip(store, v).status = "Failed"
    BY DEF Size, Tooltip
  <2> QED
    BY <2>2, <2>3, <2>4, <2>5
<1>3. ASSUME NEW v \in Asset, Fill(store, u, v) = "red"
      PROVE  v \in Substation \/ LooksFailed(store, u, v)
  BY <1>3, LooksFailedIs DEF Fill, TypeColour
<1> QED
  BY <1>2, <1>3 DEF PicturesAgree

\* Nor does a link.
LEMMA LinksAreOne ==
  ASSUME NEW u, NEW failed, failed = {v \in Asset : LooksFailed(store, u, v)}
  PROVE  LinksAgree(store, failed)
<1>1. ASSUME NEW v \in Asset, NEW w \in Asset, LinkColour(store, v, w) = "red"
      PROVE  v \in failed /\ w \in failed
  BY <1>1, LooksFailedIs DEF LinkColour
<1> QED
  BY <1>1 DEF LinksAgree

\* The buttons, the badge, the overlay and the rail.
LEMMA ControlsAreOne ==
  ASSUME IInv
  PROVE  ControlsAgree(store)
<1>1. BoardOK(store) /\ DemoOK(demo)
  BY DEF IInv, StoresOK
<1>2. store.isRunning \in BOOLEAN /\ store.runError \in BOOLEAN
  BY <1>1 DEF BoardOK, StoreType
<1>3. ASSUME NEW stabilized \in BOOLEAN
      PROVE  LET badge == Badge(store, stabilized)
             IN  /\ Overlay(store) = "none" <=> badge \in {"Cascade recorded", "Truncated"}
                 /\ badge = "Truncated" => GuardrailNotice(store, stabilized)
                 /\ badge = "Cascade recorded" => ~GuardrailNotice(store, stabilized)
  <2>1. CASE store.isRunning
    BY <1>2, <2>1 DEF Overlay, Badge
  <2>2. CASE ~store.isRunning /\ store.runError
    BY <1>2, <2>2 DEF Overlay, Badge
  <2>3. CASE ~store.isRunning /\ ~store.runError /\ store.result = None
    BY <1>2, <2>3 DEF Overlay, Badge
  <2>4. CASE ~store.isRunning /\ ~store.runError /\ store.result # None
    <3>1. /\ Overlay(store) = "none"
          /\ Badge(store, stabilized) = IF stabilized THEN "Cascade recorded" ELSE "Truncated"
      BY <1>2, <2>4 DEF Overlay, Badge
    <3> QED
      BY <2>4, <3>1 DEF GuardrailNotice
  <2> QED
    BY <2>1, <2>2, <2>3, <2>4
<1>4. ASSUME Overlay(store) \in {"none", "error"}, NEW u \in UIState
      PROVE  Buttons(store, u).clear \/ Buttons(store, u).clearResult \/ IsRunning
  BY <1>2, <1>4 DEF Overlay, Buttons
<1>5. ASSUME NEW i \in DOMAIN Rail(demo), Rail(demo)[i].current
      PROVE  ~Rail(demo)[i].locked
  <2>1. i \in DOMAIN demo.beats
    BY <1>5 DEF Rail
  <2>2. demo.beats \in Seq(BeatType) /\ demo.beatIndex \in Int
    BY <1>1 DEF DemoOK, DemoType
  <2>3. DOMAIN demo.beats = 1 .. Len(demo.beats) /\ Len(demo.beats) \in Nat
    BY <2>2, LenProperties
  <2>4. i = demo.beatIndex + 1
    BY <1>5, <2>1 DEF Rail
  <2>5. demo.beatIndex >= 0 /\ Beat(demo, demo.beatIndex) = demo.beats[i]
    BY <2>1, <2>2, <2>3, <2>4 DEF Beat
  <2>6. demo.beats[i].kind = "recovery" => demo.hasRunRecovery
    BY <1>1, <2>5 DEF DemoOK
  <2> QED
    BY <2>1, <2>6 DEF Rail
<1> QED
  BY <1>3, <1>4, <1>5 DEF ControlsAgree

\* Before its first wave a result is on the board with nothing painted.
LEMMA NothingIsShownYet ==
  ASSUME IInv, Headline(store).value # None, store.currentWave < 0,
         NEW u, NEW failed, failed = {v \in Asset : LooksFailed(store, u, v)}
  PROVE  NothingYet(store, failed)
<1> DEFINE r == store.result
<1>1. BoardOK(store)
  BY DEF IInv, StoresOK
<1>2. store.isRunning \in BOOLEAN
  BY <1>1 DEF BoardOK, StoreType
<1>3. ~store.isRunning /\ r # None
  BY <1>2 DEF Headline
<1>4. r \in ResultType /\ store.currentWave \in Int /\ store.recoveryStageIndex \in Int
  BY <1>1, <1>3 DEF BoardOK, StoreType
<1>5. LastWave(r) \in Nat
  BY <1>4, ResultHasWaves
<1>6. store.currentWave = -1 /\ store.recoveryStageIndex < 0
  BY <1>1, <1>3, <1>4, <1>5 DEF BoardOK
<1>7. store.failedNodeIds = {}
  BY <1>1, <1>3, <1>4, <1>6, FailedUpToSteps DEF BoardOK
<1>8. failed = {} /\ \A v \in Asset : Tooltip(store, v).status = "Operational"
  BY <1>7, LooksFailedIs DEF Tooltip
<1>9. BlastNodes(store) = {}
  BY <1>5, <1>6 DEF BlastNodes
<1>10. ~IsRecovering(store) /\ ~IsMidCascade(store)
  BY <1>4, <1>6 DEF IsRecovering, IsMidCascade
<1>11. Timeline(store).at = "Pre-cascade"
  BY <1>6, <1>10 DEF Timeline
<1>12. ASSUME NEW i \in DOMAIN WaveRows(store) PROVE ~WaveRows(store)[i].open
  <2>1. WaveRows(store) = [k \in DOMAIN r.waves |->
          [open |-> store.currentWave = k - 1, total |-> Cardinality(FailedUpTo(r, k - 1))]]
    BY <1>3 DEF WaveRows
  <2>2. i \in DOMAIN r.waves
    BY <1>12, <2>1
  <2>3. i \in Nat \ {0}
    BY <1>4, <2>2, ResultHasWaves
  <2> DEFINE current == store.currentWave = i - 1
  <2>4. ~current
    BY <1>6, <2>3
  <2> HIDE DEF current
  <2>5. WaveRows(store)[i] = [open |-> current, total |-> Cardinality(FailedUpTo(r, i - 1))]
    BY <2>1, <2>2 DEF current
  <2> QED
    BY <2>4, <2>5
<1>13. Headline(store) = [label |-> "Assets offline", value |-> ActiveResult(store).failed]
  BY <1>3, <1>10 DEF Headline, ActiveResult
<1> QED
  BY <1>8, <1>9, <1>10, <1>11, <1>12, <1>13 DEF NothingYet

\* Sets of assets can be counted, and two of them against each other.
LEMMA Counting ==
  ASSUME NEW A \in SUBSET Asset, NEW B \in SUBSET Asset
  PROVE  /\ Cardinality(A) \in Nat /\ Cardinality(B) \in Nat
         /\ Cardinality(A \ B) \in Nat /\ Cardinality(B \ A) \in Nat
         /\ Cardinality(A) + Cardinality(B \ A) = Cardinality(B) + Cardinality(A \ B)
         /\ B \subseteq A => Cardinality(A \ B) + Cardinality(B) = Cardinality(A)
<1>1. /\ IsFiniteSet(A) /\ IsFiniteSet(B) /\ IsFiniteSet(A \ B) /\ IsFiniteSet(B \ A)
  BY AssetAssumption, FS_Subset
<1>2. /\ Cardinality(A) \in Nat /\ Cardinality(B) \in Nat
      /\ Cardinality(A \ B) \in Nat /\ Cardinality(B \ A) \in Nat
      /\ Cardinality(A \cap B) \in Nat
  BY <1>1, FS_CardinalityType, FS_Intersection
<1>3. /\ Cardinality(A \ B) = Cardinality(A) - Cardinality(A \cap B)
      /\ Cardinality(B \ A) = Cardinality(B) - Cardinality(B \cap A)
  BY <1>1, FS_Difference
<1>4. B \cap A = A \cap B
  OBVIOUS
<1>5. B \subseteq A => A \cap B = B
  OBVIOUS
<1> DEFINE a  == Cardinality(A)
           b  == Cardinality(B)
           ab == Cardinality(A \cap B)
<1>6. Cardinality(A \ B) = a - ab /\ Cardinality(B \ A) = b - ab
  BY <1>3, <1>4
<1>7. B \subseteq A => ab = b
  BY <1>5
<1>8. a \in Nat /\ b \in Nat /\ ab \in Nat
  BY <1>2
<1> HIDE DEF a, b, ab
<1>9. a + (b - ab) = b + (a - ab) /\ (ab = b => (a - ab) + b = a)
  BY <1>8
<1> QED
  BY <1>2, <1>6, <1>7, <1>9 DEF a, b

\* The headline is the total of the run: the cascade has been shown to its end.
AtEnd == Headline(store).label = "Assets offline"

\* Over a result and outside of a run, the board is at some wave.
LEMMA ShownIs ==
  ASSUME IInv, Headline(store).value # None, store.currentWave >= 0
  PROVE  /\ ~store.isRunning /\ store.result # None
         /\ store.result \in ResultType /\ Served(store.result)
         /\ store.currentWave \in 0 .. LastWave(store.result)
         /\ LastWave(store.result) \in Nat
         /\ store.recoveryStageIndex \in Int
         /\ store.failedNodeIds \subseteq FailedIn(store.result)
         /\ FailedIn(store.result) \subseteq Asset
         /\ ~AtEnd =>
              Headline(store).value = Cardinality(store.failedNodeIds)
         /\ AtEnd =>
              /\ Headline(store).value = TotalFailed(store.result)
              /\ store.failedNodeIds = FailedIn(store.result)
              /\ ~IsRecovering(store)
<1>1. BoardOK(store) /\ RunsOK
  BY DEF IInv, StoresOK
<1>2. store.isRunning \in BOOLEAN
  BY <1>1 DEF BoardOK, StoreType
<1>3. ~store.isRunning /\ store.result # None
  BY <1>2 DEF Headline
<1>4. /\ store.result \in ResultType /\ store.currentWave \in Int
      /\ store.recoveryStageIndex \in Int
  BY <1>1, <1>3 DEF BoardOK, StoreType
<1>5. LastWave(store.result) \in Nat /\ FailedIn(store.result) \subseteq Asset
  BY <1>4, ResultHasWaves
<1>6. store.currentWave \in 0 .. LastWave(store.result)
  BY <1>1, <1>3, <1>4, <1>5 DEF BoardOK
<1>7. store.failedNodeIds \subseteq FailedIn(store.result)
  BY <1>1, <1>3, <1>4, <1>6, FailedUpToSteps DEF BoardOK
<1>8. CASE IsRecovering(store)
  <2>1. Headline(store).value = Cardinality(store.failedNodeIds) /\ ~AtEnd
    BY <1>3, <1>8 DEF Headline, AtEnd
  <2> QED
    BY <1>1, <1>3, <1>4, <1>5, <1>6, <1>7, <1>8, <2>1 DEF RunsOK
<1>9. CASE IsMidCascade(store)
  <2>1. Headline(store).value = Cardinality(store.failedNodeIds) /\ ~AtEnd
    BY <1>3, <1>9 DEF Headline, AtEnd, IsMidCascade
  <2> QED
    BY <1>1, <1>3, <1>4, <1>5, <1>6, <1>7, <1>9, <2>1 DEF RunsOK, IsMidCascade
<1>10. CASE ~IsRecovering(store) /\ ~IsMidCascade(store)
  <2>1. store.currentWave = LastWave(store.result) /\ store.recoveryStageIndex < 0
    BY <1>4, <1>5, <1>6, <1>10 DEF IsMidCascade, IsRecovering
  <2>2. store.failedNodeIds = FailedIn(store.result)
    BY <1>1, <1>3, <1>4, <2>1, FailedUpToSteps DEF BoardOK
  <2>3. /\ Headline(store).value = TotalFailed(store.result)
        /\ AtEnd
    BY <1>3, <1>10 DEF Headline, AtEnd
  <2> QED
    BY <1>1, <1>3, <1>4, <1>5, <1>6, <1>7, <1>10, <2>2, <2>3 DEF RunsOK
<1> QED
  BY <1>8, <1>9, <1>10

\* The headline, the ring, the wave list and the recovery's tile count what is
\* painted.
LEMMA FiguresAreOne ==
  ASSUME IInv, Headline(store).value # None, store.currentWave >= 0,
         NEW u, NEW failed, failed = {v \in Asset : LooksFailed(store, u, v)}
  PROVE  FiguresAgree(store, failed)
<1> DEFINE r == store.result
           F == FailedIn(r)
<1>1. BoardOK(store)
  BY DEF IInv, StoresOK
<1>2. /\ ~store.isRunning /\ r # None /\ r \in ResultType
      /\ store.currentWave \in 0 .. LastWave(r) /\ LastWave(r) \in Nat
      /\ store.recoveryStageIndex \in Int /\ F \subseteq Asset
      /\ store.failedNodeIds \subseteq F
      /\ ~AtEnd =>
           Headline(store).value = Cardinality(store.failedNodeIds)
      /\ AtEnd =>
           /\ Headline(store).value = TotalFailed(r)
           /\ store.failedNodeIds = F /\ ~IsRecovering(store)
  BY ShownIs
<1>3. failed = store.failedNodeIds
  BY <1>2, LooksFailedIs
<1>4. Headline(store).value = Cardinality(failed)
  BY <1>2, <1>3 DEF TotalFailed
<1>5. ASSUME IsRecovering(store), store.restoredNodeIds \subseteq F
      PROVE  Headline(store).value + Restored(store).back = Restored(store).of
  <2>1. failed = F \ store.restoredNodeIds
    BY <1>1, <1>2, <1>3, <1>5 DEF BoardOK, IsRecovering
  <2>2. Cardinality(F \ store.restoredNodeIds) + Cardinality(store.restoredNodeIds)
          = Cardinality(F)
    BY <1>2, <1>5, Counting
  <2>3. /\ Restored(store).back = Cardinality(store.restoredNodeIds)
        /\ Restored(store).of = Cardinality(F)
    BY DEF Restored, TotalFailed
  <2> QED
    BY <1>4, <2>1, <2>2, <2>3
<1>6. ASSUME ~IsRecovering(store)
      PROVE  /\ BlastNodes(store) \subseteq failed
             /\ \A i \in DOMAIN WaveRows(store) :
                  WaveRows(store)[i].open => WaveRows(store)[i].total = Cardinality(failed)
             /\ Timeline(store).at \in DOMAIN WaveRows(store)
  <2>1. failed = FailedUpTo(r, store.currentWave)
    BY <1>1, <1>2, <1>3, <1>6 DEF BoardOK, IsRecovering
  <2>2. /\ Len(r.waves) = LastWave(r) + 1 /\ DOMAIN r.waves = 1 .. Len(r.waves)
    BY <1>2, ResultHasWaves
  <2>3. BlastNodes(store) \subseteq failed
    <3>1. BlastNodes(store) = ToSet(r.waves[store.currentWave + 1])
      BY <1>2 DEF BlastNodes
    <3> QED
      BY <1>2, <2>1, <3>1, FailedUpToSteps
  <2>4. WaveRows(store) = [i \in DOMAIN r.waves |->
          [open |-> store.currentWave = i - 1, total |-> Cardinality(FailedUpTo(r, i - 1))]]
    BY <1>2 DEF WaveRows
  <2>5. ASSUME NEW i \in DOMAIN WaveRows(store), WaveRows(store)[i].open
        PROVE  WaveRows(store)[i].total = Cardinality(failed)
    <3>1. i \in DOMAIN r.waves
      BY <2>4, <2>5
    <3> DEFINE current == store.currentWave = i - 1
    <3>2. WaveRows(store)[i] = [open |-> current,
                                total |-> Cardinality(FailedUpTo(r, i - 1))]
      BY <2>4, <3>1
    <3> HIDE DEF current
    <3>3. WaveRows(store)[i].open = current
      BY <3>2
    <3>4. current
      BY <2>5, <3>3
    <3>5. store.currentWave = i - 1
      BY <3>4 DEF current
    <3> QED
      BY <2>1, <3>2, <3>5
  <2>6. Timeline(store).at \in DOMAIN WaveRows(store)
    <3>1. Timeline(store).at = store.currentWave + 1
      BY <1>2, <1>6 DEF Timeline
    <3>2. DOMAIN WaveRows(store) = 1 .. LastWave(r) + 1
      BY <2>2, <2>4
    <3> QED
      BY <1>2, <3>1, <3>2
  <2> QED
    BY <2>3, <2>5, <2>6
<1> QED
  BY <1>4, <1>5, <1>6 DEF FiguresAgree

\* Once the cascade has been shown to its end, the words agree with the picture.
LEMMA EndsAreOne ==
  ASSUME IInv, Headline(store).value # None, store.currentWave >= 0,
         AtEnd
  PROVE  EndAgrees(store)
<1> DEFINE r == store.result
<1>1. /\ r # None /\ Served(r) /\ Headline(store).value = TotalFailed(r)
      /\ store.failedNodeIds = FailedIn(r)
  BY ShownIs
<1>2. ASSUME NEW v PROVE Tooltip(store, v).status = Inspector(store, v, {}).status
  BY <1>1 DEF Tooltip, Inspector
<1>3. Headline(store).value = ActiveResult(store).failed
  BY <1>1 DEF ActiveResult
<1>4. demo.phase = "awaiting-recovery" => Narration(store, demo) = Headline(store).value
  BY <1>1 DEF Narration
<1>5. ASSUME NEW i \in DOMAIN runs, NEW j \in DOMAIN runs
      PROVE  Explanation(store, [baseline |-> Result(i), scenario |-> Result(j)], 0).total
               = Headline(store).value
  <2> DEFINE comparison == [baseline |-> Result(i), scenario |-> Result(j)]
             verified == VerifiedComparison(store, comparison)
  <2>1. Explanation(store, comparison, 0).total
          = TotalFailed(IF verified = None THEN r ELSE verified.scenario)
    BY DEF Explanation
  <2>2. comparison.scenario = Result(j) /\ Result(j).id = j /\ Result(j).waves = runs[j].waves
    BY DEF Result
  <2>3. verified # None => verified = comparison /\ j = r.id
    BY <2>2 DEF VerifiedComparison
  <2>4. j = r.id => TotalFailed(Result(j)) = TotalFailed(r)
    BY <1>1, <2>2 DEF Served, TotalFailed, FailedIn
  <2> HIDE DEF comparison, verified
  <2> QED
    BY <1>1, <2>1, <2>2, <2>3, <2>4 DEF comparison
<1> QED
  BY <1>2, <1>3, <1>4, <1>5 DEF EndAgrees

\* A card whose rerun is on the board tells of what is painted there.
LEMMA OutcomesAreShown ==
  ASSUME IInv, Headline(store).value # None, store.currentWave >= 0,
         AtEnd,
         NEW u, NEW c \in Card, card[c].simId = store.result.id
  PROVE  OutcomeShows(store, u, c)
<1> DEFINE r == store.result
           k == card[c]
<1>1. /\ r # None /\ r \in ResultType /\ Served(r)
      /\ Headline(store).value = TotalFailed(r) /\ store.failedNodeIds = FailedIn(r)
      /\ FailedIn(r) \subseteq Asset
  BY ShownIs
<1>2. CardOK(c) /\ k.simId # None /\ k.at = "applied"
  <2>1. CardOK(c) /\ r.id \in Nat /\ r.id \in OnBoard
    BY <1>1 DEF IInv, CardsOK, ResultType, OnBoard
  <2>2. k.simId # None
    BY <2>1, NoneAssumption
  <2> QED
    BY <2>1, <2>2 DEF CardOK
<1>3. /\ k.baseline # None /\ Served(k.baseline) /\ k.baseline \in ResultType
      /\ store.savedNodeIds = FailedIn(k.baseline) \ FailedIn(r)
  BY <1>1, <1>2 DEF CardOK, Served, Saved
<1>4. Result(k.simId) = [id |-> r.id, waves |-> r.waves] /\ FailedIn(Result(k.simId)) = FailedIn(r)
  BY <1>1 DEF Served, Result, FailedIn
<1>5. FailedIn(k.baseline) \subseteq Asset
  BY <1>3, ResultHasWaves
<1>6. /\ Outcome(c).stayedOnline = FailedIn(k.baseline) \ FailedIn(r)
      /\ Outcome(c).newlyAffected = FailedIn(r) \ FailedIn(k.baseline)
  BY <1>4 DEF Outcome
<1>7. ApplyButton(c) = "Applied"
  BY <1>2 DEF ApplyButton
<1>8. CompareTable(c, 0).verified = Headline(store).value
  BY <1>1, <1>2, <1>4 DEF CompareTable, TotalFailed
<1>9. TotalFailed(k.baseline) + Cardinality(Outcome(c).newlyAffected)
        = Headline(store).value + Cardinality(Outcome(c).stayedOnline)
  BY <1>1, <1>5, <1>6, Counting DEF TotalFailed
<1>10. ASSUME NEW v \in Asset \ u.selected
       PROVE  /\ v \in Outcome(c).stayedOnline <=> Outline(store, u, v) = "saved"
              /\ v \in Outcome(c).newlyAffected => LooksFailed(store, u, v)
  BY <1>1, <1>3, <1>6, LooksFailedIs DEF Outline
<1> QED
  BY <1>7, <1>8, <1>9, <1>10 DEF OutcomeShows

\* Every panel tells of the same moment, for any network, any result and any
\* number of recommendations, whatever the user points at.
THEOREM PanelsAreOne == Spec => []PanelsTellOneMoment
<1>1. ASSUME IInv PROVE PanelsTellOneMoment
  <2>1. ControlsAgree(store) /\ \A u \in UIState : PicturesAgree(store, u)
    BY <1>1, PicturesAreOne, ControlsAreOne
  <2>2. store.currentWave \in Int \/ Headline(store).value = None
    BY <1>1 DEF IInv, StoresOK, BoardOK, StoreType
  <2>3. ASSUME NEW u \in UIState,
               NEW failed, failed = {v \in Asset : LooksFailed(store, u, v)}
        PROVE  /\ LinksAgree(store, failed)
               /\ Headline(store).value # None =>
                    IF store.currentWave < 0 THEN NothingYet(store, failed)
                    ELSE FiguresAgree(store, failed)
    <3>1. LinksAgree(store, failed)
      BY <2>3, LinksAreOne
    <3>2. ASSUME Headline(store).value # None, store.currentWave < 0
          PROVE  NothingYet(store, failed)
      BY <1>1, <2>3, <3>2, NothingIsShownYet
    <3>3. ASSUME Headline(store).value # None, ~(store.currentWave < 0)
          PROVE  FiguresAgree(store, failed)
      <4>1. store.currentWave >= 0
        BY <2>2, <3>3
      <4> QED
        BY <1>1, <2>3, <3>3, <4>1, FiguresAreOne
    <3> QED
      BY <3>1, <3>2, <3>3
  <2>4. ASSUME Headline(store).label = "Assets offline", store.currentWave >= 0
        PROVE  /\ EndAgrees(store)
               /\ \A c \in Card : card[c].simId = store.result.id =>
                    \A u \in UIState : OutcomeShows(store, u, c)
    <3>1. Headline(store).value # None
      <4>1. /\ store.result # None
            /\ Headline(store).value = TotalFailed(store.result)
        BY <1>1, <2>4 DEF Headline, IInv, StoresOK, BoardOK, StoreType
      <4>2. FailedIn(store.result) \subseteq Asset
        BY <1>1, <4>1, ResultHasWaves DEF IInv, StoresOK, BoardOK, StoreType
      <4> QED
        BY <4>1, <4>2, Counting, NoneAssumption DEF TotalFailed
    <3> QED
      BY <1>1, <2>4, <3>1, EndsAreOne, OutcomesAreShown DEF AtEnd
  <2> QED
    BY <2>1, <2>3, <2>4 DEF PanelsTellOneMoment
<1> QED
  BY <1>1, Invariance, PTL

-------------------------------------------------------------------------------
(* What no step does. *)

\* The result stays, with what is ringed and the runs recorded.
SameRing ==
  /\ store'.result = store.result /\ store'.savedNodeIds = store.savedNodeIds
  /\ store'.simulations = store.simulations

\* A result goes, stays with its ring, or is replaced by a run that the history
\* did not have and now has as its newest, ringed by nobody but a card.  A kept
\* baseline stays, and nothing but the delayed play() stops a timer under a board
\* that says it plays.
Moved ==
  /\ \/ store'.result = None
     \/ SameRing
     \/ /\ store'.result.id \notin HistoryIds(store) /\ Leads(store', store'.result.id)
        /\ store'.savedNodeIds = {} \/ \E c \in Card : CardSettles(c)
  /\ Flagged(store) => store'.baselineSimulationId = store.baselineSimulationId
  /\ Timed(store) /\ ~Autoplay => Timed(store')

\* A step leaves no loading state behind that nobody waits for.
Backed == LoadingIsBacked /\ ~SwitchNetwork => LoadingIsBacked'

\* A board whose result stays, or goes, keeps its promises.
LEMMA StaysMoved ==
  ASSUME store'.result = None \/ SameRing,
         store'.baselineSimulationId = store.baselineSimulationId,
         Timed(store) => Timed(store')
  PROVE  Moved
  BY DEF Moved

\* So does a board that takes a run it has never held.
LEMMA AdoptedMoved ==
  ASSUME IInv, NEW id, id \notin OnBoard, Grown(store, store', id),
         store'.result.id = id, Timed(store'), Leads(store', id),
         store'.savedNodeIds = {} \/ \E c \in Card : CardSettles(c)
  PROVE  Moved
<1>1. Flagged(store) => store.baselineSimulationId # None
  BY FlaggedIsSet DEF IInv, StoresOK
<1> QED
  BY <1>1 DEF Moved, Grown, OnBoard

\* What these steps move is not what the loading state depends on.
LEMMA SameBacked ==
  ASSUME store'.isRunning = store.isRunning, UNCHANGED <<panel, runner>>,
         demo'.activePresetId = demo.activePresetId
  PROVE  Backed
  BY DEF Backed, LoadingIsBacked, Waiting, SeedsAreMissing

\* The timeline, the timers and the beats.
LEMMA SceneKeeps ==
  ASSUME IInv, Scene
  PROVE  Moved /\ Backed
<1>1. Moved
  BY DEF Scene, Kept, SameResult, SameHistory, SameRing, Moved
<1>2. Backed
  BY SameBacked DEF Scene, Kept
<1> QED
  BY <1>1, <1>2

\* Nothing on the board, and nobody who waits, is moved.
LEMMA ElsewhereKeeps ==
  ASSUME UNCHANGED <<store, demo, panel, runner>>
  PROVE  Moved /\ Backed
<1>1. Moved
  BY StaysMoved DEF SameRing
<1>2. Backed
  BY SameBacked
<1> QED
  BY <1>1, <1>2

\* The panel: a loading state ends, or the panel waits.
LEMMA PanelKeeps ==
  ASSUME IInv, RunBaseline \/ PanelPosted \/ PanelPostFails \/ PanelPoll \/ ClearBoard
  PROVE  Moved /\ Backed
<1>0. BoardOK(store) /\ HistoryOK(store) /\ panel \in PanelType /\ ClientOK(panel)
  BY DEF IInv, StoresOK, TypesOK, PanelOK
<1>1. CASE RunBaseline
  <2> DEFINE s == StopOnBoard(store)
  <2>1. store' = SetRunning(s, TRUE) /\ panel'.mutation = "pending"
    BY <1>0, <1>1 DEF RunBaseline, Requested, PanelType
  <2>2. BoardOK(s) /\ SameResult(store, s) /\ (Timed(store) => Timed(s))
    BY <1>0, StopOnBoardOK
  <2> HIDE DEF s
  <2>3. SameResult(s, store') /\ (Timed(s) => Timed(store'))
    BY <2>1, <2>2, SetRunningOK
  <2>4. Moved
    BY <2>2, <2>3, StaysMoved DEF SameResult, SameHistory, SameRing
  <2>5. Backed
    BY <2>1 DEF Backed, LoadingIsBacked, Waiting
  <2> QED
    BY <2>4, <2>5
<1>2. CASE PanelPosted
  <2>1. /\ UNCHANGED <<store, demo, runner>>
        /\ panel'.mutation = "success" /\ panel'.seen = panel.seen
        /\ panel.mutation = "pending"
    BY <1>0, <1>2 DEF PanelPosted, PanelType
  <2>2. panel.seen \notin Settled
    BY <1>0, <2>1, NoneAssumption DEF ClientOK, Settled
  <2>3. Moved
    BY <2>1, StaysMoved DEF SameRing
  <2>4. Backed
    BY <2>1, <2>2 DEF Backed, LoadingIsBacked, Waiting
  <2> QED
    BY <2>3, <2>4
<1>3. CASE PanelPostFails
  <2>1. store' = SetRunError(store)
    BY <1>3 DEF PanelPostFails
  <2>2. SameResult(store, store') /\ ~store'.isRunning /\ (Timed(store) => Timed(store'))
    BY <1>0, <2>1, SetRunErrorOK
  <2>3. Moved
    BY <2>2, StaysMoved DEF SameResult, SameHistory, SameRing
  <2>4. Backed
    BY <2>2 DEF Backed, LoadingIsBacked
  <2> QED
    BY <2>3, <2>4
<1>4. CASE PanelPoll
  <2> DEFINE id == panel.simId
  <2>1. /\ id \in DOMAIN runs /\ id \notin OnBoard
        /\ panel'.mutation = "success"
        /\ panel'.seen \in Settled => runs[id].status = panel'.seen
        /\ panel'.seen = "completed" => store' = SetSimulationResult(store, Result(id), TRUE)
        /\ panel'.seen = "failed" => store' = SetRunError(store)
        /\ panel'.seen \notin Settled => store' = SetRunning(store, TRUE)
    BY <1>4, PanelPollIs
  <2>2. CASE panel'.seen = "completed"
    <3> DEFINE r == Result(id)
    <3>1. /\ r \in ResultType /\ r.id = id
          /\ store' = SetSimulationResult(store, r, TRUE)
      BY <2>1, <2>2, ResultIsServed DEF Settled
    <3> HIDE DEF r
    <3>2. /\ Grown(store, store', id) /\ Timed(store')
          /\ store'.result = r /\ ~store'.isRunning
          /\ store'.savedNodeIds = {} /\ Leads(store', id)
      BY <1>0, <2>1, <3>1, SetSimulationResultOK DEF OnBoard
    <3>3. Moved
      BY <2>1, <3>1, <3>2, AdoptedMoved
    <3>4. Backed
      BY <3>2 DEF Backed, LoadingIsBacked
    <3> QED
      BY <3>3, <3>4
  <2>3. CASE panel'.seen = "failed"
    <3>1. SameResult(store, store') /\ ~store'.isRunning /\ (Timed(store) => Timed(store'))
      BY <1>0, <2>1, <2>3, SetRunErrorOK
    <3>2. Moved
      BY <3>1, StaysMoved DEF SameResult, SameHistory, SameRing
    <3>3. Backed
      BY <3>1 DEF Backed, LoadingIsBacked
    <3> QED
      BY <3>2, <3>3
  <2>4. CASE panel'.seen \notin Settled
    <3>1. SameResult(store, store') /\ (Timed(store) => Timed(store'))
      BY <1>0, <2>1, <2>4, SetRunningOK
    <3>2. Moved
      BY <3>1, StaysMoved DEF SameResult, SameHistory, SameRing
    <3>3. Backed
      BY <2>1, <2>4 DEF Backed, LoadingIsBacked, Waiting
    <3> QED
      BY <3>2, <3>3
  <2> QED
    BY <2>2, <2>3, <2>4 DEF Settled
<1>5. CASE ClearBoard
  <2>1. SameHistory(store, store') /\ Timed(store') /\ store'.result = None /\ ~store'.isRunning
    BY <1>5, ClearBoardIs
  <2>2. Moved
    BY <2>1, StaysMoved DEF SameHistory
  <2>3. Backed
    BY <2>1 DEF Backed, LoadingIsBacked
  <2> QED
    BY <2>2, <2>3
<1> QED
  BY <1>1, <1>2, <1>3, <1>4, <1>5

\* A dispatched demo waits.
LEMMA DispatchKeeps ==
  ASSUME IInv, NEW d, Dispatch(d, runner)
  PROVE  Moved /\ Backed
<1> DEFINE s == Reset(store)
<1>1. store' = SetRunning(s, TRUE) /\ runner'.mutation = "pending"
  BY DispatchIs
<1>2. BoardOK(s) /\ SameHistory(store, s) /\ Timed(s) /\ s.result = None
  BY ResetOK DEF IInv, StoresOK
<1> HIDE DEF s
<1>3. SameResult(s, store') /\ Timed(store')
  BY <1>1, <1>2, SetRunningOK
<1>4. Moved
  BY <1>2, <1>3, StaysMoved DEF SameResult, SameHistory, SameRing
<1>5. Backed
  BY <1>1 DEF Backed, LoadingIsBacked, Waiting
<1> QED
  BY <1>4, <1>5

\* The demo: a loading state ends, or somebody waits, or the demo has no seeds.
LEMMA RunnerKeeps ==
  ASSUME IInv,
         \/ \E p \in Preset : PressDemo(p)
         \/ RunnerPosted \/ RunnerPostFails \/ RunnerPoll \/ StopDemo \/ TopologyLoaded
  PROVE  Moved /\ Backed
<1>0. /\ BoardOK(store) /\ HistoryOK(store) /\ runner \in RunnerType
      /\ ClientOK(runner) /\ RunnerOK /\ LoadingOK
  BY DEF IInv, StoresOK, TypesOK, RunnerOK
<1>1. ASSUME NEW p \in Preset, PressDemo(p) PROVE Moved /\ Backed
  <2>1. CASE Dispatch(Arm(p), runner)
    BY <2>1, DispatchKeeps
  <2>2. CASE NothingToDispatch(Arm(p), runner)
    <3>1. Arm(p).activePresetId = p /\ SameTimeline(Arm(p), Fail(Arm(p)))
      BY ArmOK, PhaseOK
    <3>2. UNCHANGED store /\ demo'.activePresetId = p /\ p \notin Seeded /\ p # None
      BY <2>2, <3>1, NoneAssumption DEF NothingToDispatch, SameTimeline
    <3>3. Moved
      BY <3>2, StaysMoved DEF SameRing
    <3>4. Backed
      BY <3>2 DEF Backed, LoadingIsBacked, SeedsAreMissing
    <3> QED
      BY <3>3, <3>4
  <2> QED
    BY <1>1, <2>1, <2>2 DEF PressDemo
<1>2. CASE RunnerPosted
  <2>1. /\ UNCHANGED <<store, demo, panel>>
        /\ runner'.mutation = "success" /\ runner'.seen = runner.seen
        /\ runner.mutation = "pending"
    BY <1>0, <1>2 DEF RunnerPosted, RunnerType
  <2>2. runner.seen \notin Settled
    BY <1>0, <2>1, NoneAssumption DEF ClientOK, Settled
  <2>3. Moved
    BY <2>1, StaysMoved DEF SameRing
  <2>4. Backed
    BY <2>1, <2>2 DEF Backed, LoadingIsBacked, Waiting
  <2> QED
    BY <2>3, <2>4
<1>3. ASSUME store' = SetRunError(store) PROVE Moved /\ Backed
  <2>1. SameResult(store, store') /\ ~store'.isRunning /\ (Timed(store) => Timed(store'))
    BY <1>0, <1>3, SetRunErrorOK
  <2>2. Moved
    BY <2>1, StaysMoved DEF SameResult, SameHistory, SameRing
  <2>3. Backed
    BY <2>1 DEF Backed, LoadingIsBacked
  <2> QED
    BY <2>2, <2>3
<1>4. CASE RunnerPostFails
  BY <1>3, <1>4 DEF RunnerPostFails
<1>5. CASE RunnerPoll
  <2> DEFINE id == runner.simId
  <2>1. CASE /\ demo.activePresetId = None \/ id # runner.pendingSimId
             /\ store' = store /\ demo' = demo
    <3>1. UNCHANGED panel /\ runner.mutation = "success" /\ runner.seen \notin Settled
      BY <1>5, RunnerPollIs
    <3>2. Waiting(runner)
      BY <3>1 DEF Waiting
    <3>3. Moved
      BY <2>1, StaysMoved DEF SameRing
    \* A run that is not the awaited one backs no loading state.
    <3>4. store.isRunning => Waiting(panel) \/ SeedsAreMissing
      BY <1>0, <2>1, <3>1, <3>2 DEF LoadingOK, RunnerOK, SeedsAreMissing
    <3>5. Backed
      BY <2>1, <3>1, <3>4 DEF Backed, LoadingIsBacked, Waiting, SeedsAreMissing
    <3> QED
      BY <3>3, <3>5
  <2>2. CASE store' = SetRunError(store)
    BY <1>3, <2>2
  <2>3. CASE /\ id = runner.pendingSimId /\ Grown(store, store', id)
             /\ store'.result = Result(id) /\ ~store'.isRunning /\ Timed(store')
             /\ store'.savedNodeIds = {} /\ Leads(store', id)
    <3>1. id \notin OnBoard
      BY <1>0, <1>5, <2>3, RunnerPollIs DEF RunnerOK
    <3>2. store'.result.id = id
      BY <2>3 DEF Result
    <3>3. Moved
      BY <2>3, <3>1, <3>2, AdoptedMoved
    <3>4. Backed
      BY <2>3 DEF Backed, LoadingIsBacked
    <3> QED
      BY <3>3, <3>4
  <2> QED
    BY <1>5, <2>1, <2>2, <2>3, RunnerPollIs
<1>6. CASE StopDemo
  <2>1. SameResult(store, store') /\ ~store'.isRunning /\ (Timed(store) => Timed(store'))
    BY <1>0, <1>6, StopOnBoardOK DEF StopDemo
  <2>2. Moved
    BY <2>1, StaysMoved DEF SameResult, SameHistory, SameRing
  <2>3. Backed
    BY <2>1 DEF Backed, LoadingIsBacked
  <2> QED
    BY <2>2, <2>3
<1>7. CASE TopologyLoaded
  <2>1. CASE Dispatch(demo, runner)
    BY <2>1, DispatchKeeps
  <2>2. CASE demo' = Fail(demo) /\ UNCHANGED <<store, panel, runner>>
    <3>1. demo'.activePresetId = demo.activePresetId
      BY <2>2, PhaseOK DEF IInv, StoresOK, SameTimeline
    <3>2. Moved
      BY <2>2, StaysMoved DEF SameRing
    <3>3. Backed
      BY <2>2, <3>1, SameBacked
    <3> QED
      BY <3>2, <3>3
  <2>3. CASE UNCHANGED <<store, demo, panel, runner>>
    BY <2>3, ElsewhereKeeps
  <2> QED
    BY <1>7, <2>1, <2>2, <2>3 DEF TopologyLoaded
<1> QED
  BY <1>1, <1>2, <1>4, <1>5, <1>6, <1>7

\* The cards.
LEMMA CardKeeps ==
  ASSUME IInv, NEW c \in Card,
         \/ Review(c) \/ DiscardDraft(c) \/ Apply(c)
         \/ CardPosted(c) \/ CardFails(c) \/ CardSettles(c)
  PROVE  Moved /\ Backed
<1>1. CASE Review(c) \/ DiscardDraft(c) \/ CardPosted(c) \/ CardFails(c)
  BY <1>1, ElsewhereKeeps DEF Review, DiscardDraft, CardPosted, CardFails
<1>2. CASE Apply(c)
  <2>1. /\ UNCHANGED <<demo, panel, runner>> /\ store.result # None
        /\ store.baselineSimulationId # None => store' = store
    BY <1>2 DEF Apply
  <2>2. CASE store.baselineSimulationId # None
    BY <2>1, <2>2, ElsewhereKeeps
  <2>3. CASE store.baselineSimulationId = None
    <3>1. PICK id : store' = SetBaselineSimulationId(store, id)
      BY <1>2, <2>3 DEF Apply
    <3>2. BoardOK(store) /\ HistoryOK(store)
      BY DEF IInv, StoresOK
    <3>3. /\ store'.result = store.result /\ store'.isRunning = store.isRunning
          /\ store'.isPlaying = store.isPlaying /\ store'.intervals = store.intervals
          /\ SameRing
      BY <3>1, <3>2 DEF BoardOK, StoreType, SetBaselineSimulationId, SameRing
    <3>4. ~Flagged(store)
      BY <2>3, <3>2, FlaggedIsSet
    <3>5. Moved
      BY <3>3, <3>4 DEF Moved, Timed
    <3>6. Backed
      BY <2>1, <3>3, SameBacked
    <3> QED
      BY <3>5, <3>6
  <2> QED
    BY <2>2, <2>3
<1>3. CASE CardSettles(c)
  <2>1. /\ card[c].simId \notin OnBoard /\ Result(card[c].simId).id = card[c].simId
        /\ Grown(store, store', Result(card[c].simId).id)
        /\ Leads(store', Result(card[c].simId).id)
        /\ store'.result = Result(card[c].simId) /\ ~store'.isRunning /\ Timed(store')
    BY <1>3, Settles
  <2>2. Moved
    BY <1>3, <2>1, AdoptedMoved
  <2>3. Backed
    BY <2>1 DEF Backed, LoadingIsBacked
  <2> QED
    BY <2>2, <2>3
<1> QED
  BY <1>1, <1>2, <1>3

\* A switch of network keeps the store as it is, a reload empties the board.
LEMMA PageKeeps ==
  ASSUME IInv, SwitchNetwork \/ Reload
  PROVE  Moved /\ Backed
<1>1. CASE SwitchNetwork
  <2>1. UNCHANGED store
    BY <1>1 DEF SwitchNetwork
  <2>2. Moved
    BY <2>1, StaysMoved DEF SameRing
  <2> QED
    BY <1>1, <2>2 DEF Backed
<1>2. CASE Reload
  <2>1. store.simulations \in Seq(EntryType) /\ HistoryOK(store)
    BY FlaggedIsSet DEF IInv, StoresOK
  <2>2. /\ Timed(store') /\ store'.result = None /\ ~store'.isRunning
        /\ Flagged(store) => store'.baselineSimulationId = store.baselineSimulationId
    BY <1>2, <2>1, InitialStoreOK DEF Reload
  <2> QED
    BY <2>2 DEF Moved, Backed, LoadingIsBacked
<1> QED
  BY <1>1, <1>2

\* Every step.
LEMMA NextMoves ==
  IInv /\ [Next]_vars => Moved /\ Backed
<1> SUFFICES ASSUME IInv, [Next]_vars PROVE Moved /\ Backed
  OBVIOUS
<1>1. CASE User
  <2>1. CASE RunBaseline \/ ClearBoard
    BY <2>1, PanelKeeps
  <2>2. CASE (\E p \in Preset : PressDemo(p)) \/ StopDemo
    BY <2>2, RunnerKeeps
  <2>3. CASE StartRecovery \/ \E i \in 0 .. LastBeat(demo) : ReplayBeat(i)
    BY <2>3, DemoSteps, SceneKeeps
  <2>4. CASE \E c \in Card : Review(c) \/ DiscardDraft(c) \/ Apply(c)
    BY <2>4, CardKeeps
  <2>5. CASE PlayPause \/ Rewind
    BY <2>5, TimelineSteps, SceneKeeps
  <2>6. CASE store.result # None /\ \E i \in 0 .. LastWave(store.result) : Scrub(i)
    BY <2>6, TimelineSteps, SceneKeeps
  <2>7. CASE SwitchNetwork \/ Reload
    BY <2>7, PageKeeps
  <2> QED
    BY <1>1, <2>1, <2>2, <2>3, <2>4, <2>5, <2>6, <2>7 DEF User
<1>2. CASE Posting
  BY <1>2, PanelKeeps, RunnerKeeps DEF Posting
<1>3. CASE Runs
  BY <1>3, ElsewhereKeeps DEF Runs, SettleRun
<1>4. CASE AutoAdvance \/ AutoPause
  BY <1>4, DemoSteps, SceneKeeps
<1>5. CASE PanelPoll \/ RunnerPoll
  BY <1>5, PanelKeeps, RunnerKeeps
<1>6. CASE \E c \in Card : CardPosted(c) \/ CardFails(c) \/ CardSettles(c)
  BY <1>6, CardKeeps
<1>7. CASE Tick \/ Autoplay
  BY <1>7, TimelineSteps, SceneKeeps
<1>8. CASE TopologyLoaded
  BY <1>8, RunnerKeeps
<1>9. CASE UNCHANGED vars
  BY <1>9, ElsewhereKeeps DEF vars
<1> QED
  BY <1>1, <1>2, <1>3, <1>4, <1>5, <1>6, <1>7, <1>8, <1>9 DEF Next

\* Runs are accepted one by one and settle one by one.
LEMMA NextGrows ==
  IInv /\ [Next]_vars => RunsGrow
<1> SUFFICES ASSUME IInv, [Next]_vars PROVE RunsGrow
  OBVIOUS
<1>1. ASSUME UNCHANGED runs PROVE RunsGrow
  BY <1>1, RunsStay
<1>2. ASSUME NEW client \in Preset \cup {"panel", "card"}, Accept(client) PROVE RunsGrow
  BY <1>2, AcceptGrows
<1>3. CASE User
  <2>1. UNCHANGED runs
    BY <1>3 DEF User, RunBaseline, ClearBoard, PressDemo, StartRecovery, StopDemo, ReplayBeat,
                MoveTo, Review, DiscardDraft, Apply, PlayPause, Rewind, Scrub, OnStore,
                SwitchNetwork, Reload
  <2> QED
    BY <1>1, <2>1
<1>4. CASE Posting
  <2>1. RunnerPosted => runner.preset \in Preset
    BY DEF RunnerPosted, IInv, TypesOK, RunnerType, RunnerOK
  <2> QED
    BY <1>1, <1>2, <1>4, <2>1
    DEF Posting, PanelPosted, PanelPostFails, RunnerPosted, RunnerPostFails
<1>5. CASE Runs
  BY <1>5, SettleGrows DEF Runs
<1>6. CASE \/ AutoAdvance \/ AutoPause \/ PanelPoll \/ RunnerPoll
           \/ Tick \/ Autoplay \/ TopologyLoaded \/ UNCHANGED vars
  <2>1. UNCHANGED runs
    BY <1>6 DEF AutoAdvance, AutoPause, MoveTo, PanelPoll, RunnerPoll, Tick, Autoplay, OnStore,
                TopologyLoaded, vars
  <2> QED
    BY <1>1, <2>1
<1>7. CASE \E c \in Card : CardPosted(c) \/ CardFails(c) \/ CardSettles(c)
  BY <1>1, <1>2, <1>7 DEF CardPosted, CardFails, CardSettles, CardEnds
<1> QED
  BY <1>3, <1>4, <1>5, <1>6, <1>7 DEF Next

\* The result on the board is the run recorded last.
NewestIsShown == store.result # None => Leads(store, store.result.id)

\* A ring that stays on the board stays the rerun's.
LEMMA RingStays ==
  ASSUME IInv, RunsGrow, SameRing, SavedIsOfTheRerun
  PROVE  SavedIsOfTheRerun'
<1> SUFFICES ASSUME store.savedNodeIds # {} PROVE SavedIsOfTheRerun'
  BY DEF SameRing, SavedIsOfTheRerun
<1>1. /\ store.result # None /\ runs[store.result.id].by = "card"
      /\ store.savedNodeIds \cap FailedIn(store.result) = {}
      /\ store.result.id \in DOMAIN runs
  BY DEF SavedIsOfTheRerun, IInv, RunsOK, Served
<1>2. ASSUME NEW v \in store.savedNodeIds
      PROVE  \E id \in DOMAIN runs' :
               runs'[id].status = "completed" /\ v \in FailedIn(Result(id)')
  <2>1. PICK id \in DOMAIN runs : runs[id].status = "completed" /\ v \in FailedIn(Result(id))
    BY <1>2 DEF SavedIsOfTheRerun
  <2>2. runs'[id] = runs[id] /\ id \in DOMAIN runs'
    BY <2>1 DEF RunsGrow, Settled
  <2> QED
    BY <2>1, <2>2 DEF Result
<1>3. runs'[store.result.id].by = "card"
  BY <1>1 DEF RunsGrow
<1> QED
  BY <1>1, <1>2, <1>3 DEF SavedIsOfTheRerun, SameRing, FailedIn

\* The handler of a card rings what its baseline lost and its rerun did not.
LEMMA CardRings ==
  ASSUME IInv, IInv', NEW c \in Card, CardSettles(c)
  PROVE  SavedIsOfTheRerun'
<1> DEFINE r == Result(card[c].simId)
<1>0. PICK b : b = card[c].baseline
  OBVIOUS
<1>1. /\ card[c].at = "poll" /\ card[c].simId # None
      /\ r # None /\ r.id = card[c].simId
      /\ store'.result = r /\ store'.savedNodeIds = Saved(b, r)
      /\ UNCHANGED runs
  BY <1>0, Settles
<1>2. runs[card[c].simId].by = "card" /\ Served(b)
  <2>1. CardOK(c)
    BY DEF IInv, CardsOK
  <2> QED
    BY <1>0, <1>1, <2>1 DEF CardOK
<1>3. b.id \in DOMAIN runs /\ runs[b.id].status = "completed"
      /\ FailedIn(Result(b.id)) = FailedIn(b)
  BY <1>2 DEF Served, Result, FailedIn
<1>4. Result(b.id)' = Result(b.id)
  BY <1>1 DEF Result
<1> HIDE DEF r
<1> QED
  BY <1>1, <1>2, <1>3, <1>4 DEF SavedIsOfTheRerun, Saved, FailedIn

\* Every step keeps the ring with its rerun, and shows the newest run or none.
LEMMA RingIsKept ==
  IInv /\ IInv' /\ [Next]_vars /\ NewestIsShown /\ SavedIsOfTheRerun
    => NewestIsShown' /\ SavedIsOfTheRerun'
<1> SUFFICES ASSUME IInv, IInv', [Next]_vars, NewestIsShown, SavedIsOfTheRerun
             PROVE  NewestIsShown' /\ SavedIsOfTheRerun'
  OBVIOUS
<1>1. Moved /\ RunsGrow
  BY NextMoves, NextGrows
<1>2. CASE store'.result = None
  <2>1. store'.savedNodeIds = {}
    BY <1>2 DEF IInv, StoresOK, BoardOK
  <2> QED
    BY <1>2, <2>1 DEF NewestIsShown, SavedIsOfTheRerun
<1>3. CASE SameRing
  <2>1. NewestIsShown'
    BY <1>3 DEF NewestIsShown, Leads, SameRing
  <2> QED
    BY <1>1, <1>3, <2>1, RingStays
<1>4. CASE Leads(store', store'.result.id) /\ store'.savedNodeIds = {}
  BY <1>4 DEF NewestIsShown, Leads, SavedIsOfTheRerun
<1>5. CASE Leads(store', store'.result.id) /\ \E c \in Card : CardSettles(c)
  BY <1>5, CardRings DEF NewestIsShown, Leads
<1> QED
  BY <1>1, <1>2, <1>3, <1>4, <1>5 DEF Moved

\* At the start nothing is ringed or shown.
LEMMA RingStarts ==
  Init => NewestIsShown /\ SavedIsOfTheRerun
  BY DEF Init, InitialStore, NewestIsShown, SavedIsOfTheRerun

\* Both of every reachable board.
LEMMA RingsAreKept ==
  Spec => [](NewestIsShown /\ SavedIsOfTheRerun)
  BY RingStarts, RingIsKept, Invariance, PTL DEF Spec

\* A ring belongs to the rerun on the board, which a card started and which fails
\* none of it, and some completed run failed each ringed asset.
THEOREM SavedStayOnline == Spec => []SavedIsOfTheRerun
  BY RingsAreKept, PTL

\* No poller and no card puts a run on the board that the history has already,
\* and what is on the board is the run recorded last.
THEOREM RunsDoNotComeBack == Spec => NoRunComesBack
<1>1. ASSUME Moved, NewestIsShown'
      PROVE  store'.result # None =>
               /\ store'.result # store.result => store'.result.id \notin HistoryIds(store)
               /\ store'.result.id = store'.simulations[1].id
  BY <1>1 DEF Moved, SameRing, NewestIsShown, Leads
<1>2. IInv /\ [Next]_vars /\ NewestIsShown'
        => [store'.result # None =>
              /\ store'.result # store.result => store'.result.id \notin HistoryIds(store)
              /\ store'.result.id = store'.simulations[1].id]_vars
  BY <1>1, NextMoves
<1> QED
  BY <1>2, Invariance, RingsAreKept, PTL DEF Spec, NoRunComesBack

\* A baseline that the history holds stays the baseline, over a reload too.
THEOREM BaselinesAreKept == Spec => BaselineIsKept
<1>1. Moved => ([id |-> store.baselineSimulationId, is_baseline |-> TRUE]
                    \in ToSet(store.simulations)
                  => store'.baselineSimulationId = store.baselineSimulationId)
  BY DEF Moved, Flagged
<1> QED
  BY <1>1, Invariance, NextMoves, PTL DEF Spec, BaselineIsKept

\* A board that plays has a timer until the delayed play() is called.
THEOREM PlayingIsTimed == Spec => PlayingKeepsTimer
<1>1. Moved => (PlayingHasTimer /\ ~Autoplay => PlayingHasTimer')
  BY DEF Moved, Timed, PlayingHasTimer
<1> QED
  BY <1>1, Invariance, NextMoves, PTL DEF Spec, PlayingKeepsTimer

\* A loading state that is backed by a run stays so, but for a switch of network.
THEOREM LoadingIsKeptBacked == Spec => LoadingStaysBacked
<1>1. Backed => (LoadingIsBacked /\ ~SwitchNetwork => LoadingIsBacked')
  BY DEF Backed
<1> QED
  BY <1>1, Invariance, NextMoves, PTL DEF Spec, LoadingStaysBacked
================================================================================
