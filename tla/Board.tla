--------------------------------- MODULE Board ---------------------------------
(***************************************************************************)
(* The front end's board: the simulation store and the demo store, the     *)
(* components that put results on them, and the timers that move them.     *)
(*                                                                         *)
(* Three clients start runs and adopt the results of their own:            *)
(*   panel    ControlPanel.tsx, "Simulate baseline"                        *)
(*   runner   DemoRunner.tsx, the demo buttons                             *)
(*   card     RecommendationPanel.tsx, one per recommendation applied      *)
(* The first two hold a mutation (the POST) and a polling query            *)
(* (api/hooks.ts) whose state is lost when the component unmounts; a card  *)
(* is an async function, which goes on whatever is mounted.                *)
(*                                                                         *)
(* A step is one browser task: a click with the effects React flushes      *)
(* after it, an answer of the API with the effects that react to it, or a  *)
(* timer.  A mutation started over one in flight replaces it: the run of   *)
(* the first is nobody's.                                                  *)
(*                                                                         *)
(* A definition marked "Faulty" is no part of the specification: it is the *)
(* definition after it with a plausible bug.                               *)
(***************************************************************************)
EXTENDS DemoStore

CONSTANTS
  Preset,      \* the demos
  Seeded,      \* those whose trigger assets the network has
  Card,        \* the recommendations on offer
  Asset,       \* the assets of the network
  Shapes,      \* the waves a completed run may have
  MaxClicks    \* how often the user starts a run or switches network

ASSUME SeededAssumption == Seeded \subseteq Preset
ASSUME CardAssumption == IsFiniteSet(Card)
ASSUME AssetAssumption == IsFiniteSet(Asset) /\ None \notin Asset
ASSUME ShapesAssumption == Shapes \subseteq Seq(Seq(Asset)) \ {<<>>}
ASSUME MaxClicksAssumption == MaxClicks \in Nat
ASSUME NoneAssumption ==
  /\ None \notin Nat /\ None \notin Preset
  /\ None \notin {"pending", "running", "completed", "failed"}
  /\ None \notin [id : Nat, waves : Shapes]
ASSUME ClientAssumption == {"panel", "card"} \cap Preset = {}

VARIABLES
  store,    \* the simulation store
  demo,     \* the demo store
  panel,    \* ControlPanel: its run, handledPolledIds, dismissedSimulationIds
  runner,   \* DemoRunner: its run and pendingSimId
  card,     \* the handler of each recommendation
  runs,     \* the runs the API accepted, in order: who posted them, their row
  mounted,  \* whether App renders the board (a topology is loaded)
  clicks    \* clicks so far, for the bound

vars == <<store, demo, panel, runner, card, runs, mounted, clicks>>

RunId == 1 .. MaxClicks

\* mutate() forgets the answer of the request before it.
Requested(c) == [c EXCEPT !.mutation = "pending", !.simId = None, !.seen = None]

Settled == {"completed", "failed"}

\* A client still waits for its run: the POST or the poll is open.
Waiting(c) ==
  \/ c.mutation = "pending"
  \/ c.mutation = "success" /\ c.seen \notin Settled

\* What the poll of client c may answer: an open run is pending or running.
Answers(c) ==
  IF c.mutation # "success" \/ c.seen \in Settled THEN {}
  ELSE IF runs[c.simId].status = "open"
       THEN (IF c.seen = "running" THEN {} ELSE {"pending", "running"} \ {c.seen})
       ELSE {runs[c.simId].status}

Result(id) == [id |-> id, waves |-> runs[id].waves]

NewPanel ==
  [mutation |-> "idle", simId |-> None, seen |-> None,
   handledPolledIds |-> {}, dismissedSimulationIds |-> {}]

NewRunner ==
  [mutation |-> "idle", simId |-> None, seen |-> None,
   pendingSimId |-> None, preset |-> None]

NewCard   == [at |-> "idle", ui |-> None, baseline |-> None, simId |-> None]

Init ==
  /\ store = InitialStore(<<>>)
  /\ demo = Idle
  /\ panel = NewPanel
  /\ runner = NewRunner
  /\ card = [c \in Card |-> NewCard]
  /\ runs = <<>>
  /\ mounted = TRUE
  /\ clicks = 0

Click == clicks < MaxClicks /\ clicks' = clicks + 1

-------------------------------------------------------------------------------
(* The API. *)

\* POST /api/simulations accepts a run; its id is the next number.
Accept(client) ==
  runs' = Append(runs, [by |-> client, status |-> "open", waves |-> <<>>])

SettleRun(id) ==
  /\ runs[id].status = "open"
  /\ \/ \E waves \in Shapes :
          runs' = [runs EXCEPT ![id].status = "completed", ![id].waves = waves]
     \/ runs' = [runs EXCEPT ![id].status = "failed"]
  /\ UNCHANGED <<store, demo, panel, runner, card, mounted, clicks>>

-------------------------------------------------------------------------------
(* ControlPanel *)

\* The panel's own isRunning, which disables its buttons.  It is false between
\* the answer of the POST and the first answer of the poll.
IsRunning ==
  \/ panel.mutation = "pending"
  \/ panel.seen \notin Settled \cup {None}

\* handleRunBaseline
RunBaseline ==
  /\ Click /\ mounted
  /\ ~IsRunning
  /\ demo' = Idle
  /\ store' = SetRunning(StopOnBoard(store), TRUE)
  /\ panel' = Requested(panel)
  /\ UNCHANGED <<runner, card, runs, mounted>>

PanelPosted ==
  /\ panel.mutation = "pending"
  /\ Accept("panel")
  /\ panel' = [panel EXCEPT !.mutation = "success", !.simId = Len(runs) + 1]
  /\ UNCHANGED <<store, demo, runner, card, mounted, clicks>>

PanelPostFails ==
  /\ panel.mutation = "pending"
  /\ panel' = [panel EXCEPT !.mutation = "error"]
  /\ store' = SetRunError(store)
  /\ UNCHANGED <<demo, runner, card, runs, mounted, clicks>>

\* The adopt effect of panel state p: a completed run is handled once, and
\* only recorded if its result had been dismissed.
PanelAdopts(p) == p.seen = "completed" /\ p.simId \notin p.handledPolledIds

PanelAdopt(s, p) ==
  CASE ~PanelAdopts(p) -> s
    [] PanelAdopts(p) /\ p.simId \in p.dismissedSimulationIds -> AddSimulation(s, p.simId)
    [] PanelAdopts(p) /\ p.simId \notin p.dismissedSimulationIds ->
         SetSimulationResult(s, Result(p.simId), TRUE)

Handled(p) ==
  IF PanelAdopts(p) THEN [p EXCEPT !.handledPolledIds = @ \cup {p.simId}] ELSE p

\* The poll changes polledResult: the adopt effect, then the status effect.
PanelPoll ==
  /\ \E status \in Answers(panel) :
       LET p == [panel EXCEPT !.seen = status]
           s == PanelAdopt(store, p)
       IN  /\ panel' = Handled(p)
           /\ store' = CASE status = "completed" -> s
                         [] status = "failed" -> SetRunError(s)
                         [] status \notin Settled -> SetRunning(s, TRUE)
  /\ UNCHANGED <<demo, runner, card, runs, mounted, clicks>>

\* handleClearBoard.  One of its buttons is disabled while the panel is busy;
\* the one beside the active result is not.  The dismissed ids are a
\* dependency of the adopt effect, so that it runs again.
ClearBoard ==
  /\ mounted
  /\ store.result # None \/ ~IsRunning
  /\ demo' = Idle
  /\ LET s == Reset(StopOnBoard(store))
         p == IF store.result = None THEN panel
              ELSE [panel EXCEPT !.dismissedSimulationIds = @ \cup {store.result.id}]
     IN  store' = PanelAdopt(s, p) /\ panel' = Handled(p)
  /\ UNCHANGED <<runner, card, runs, mounted, clicks>>

-------------------------------------------------------------------------------
(* DemoRunner *)

\* The open effect: beats are loaded and none is shown yet.
Opens(d) == d.phase = "arming" /\ d.beatIndex < 0

\* Faulty: any settled run will do for the active demo.
RunnerAdoptsAny(d, w) == w.seen \in Settled /\ d.activePresetId # None

\* The adopt effect: only the run this demo waits for, and only while a demo
\* is active; the open effect follows in the same task.  The result is what
\* the effect changes, so that it composes.
RunnerAdopts(d, w) ==
  /\ w.seen \in Settled
  /\ d.activePresetId # None
  /\ w.simId = w.pendingSimId

RunnerAdopt(s, d, w) ==
  CASE ~RunnerAdopts(d, w) -> [store |-> s, demo |-> d, runner |-> w]
    [] RunnerAdopts(d, w) /\ w.seen = "failed" ->
         [store |-> SetRunError(s), demo |-> Fail(d), runner |-> w]
    [] RunnerAdopts(d, w) /\ w.seen = "completed" ->
         LET s1 == SetSimulationResult(s, Result(w.simId), FALSE)
             d1 == LoadBeats(d, Result(w.simId))
         IN  [store  |-> IF Opens(d1) THEN ApplyBeat(s1, Beat(d1, 0)) ELSE s1,
              demo   |-> IF Opens(d1) THEN GoToBeat(d1, 0, TRUE) ELSE d1,
              runner |-> [w EXCEPT !.pendingSimId = None]]

\* The arm effect and, after it in the same flush, the adopt effect, which
\* still sees the run the poller held before mutate().
Dispatch(d, w) ==
  LET a == RunnerAdopt(SetRunning(Reset(store), TRUE), d,
                       [w EXCEPT !.pendingSimId = None])
  IN  /\ d.activePresetId \in Seeded
      /\ store' = a.store
      /\ demo' = a.demo
      /\ runner' = Requested([a.runner EXCEPT !.preset = d.activePresetId])

\* The network has none of the assets that trigger this demo.  Nothing recalls
\* the request of an earlier one.
NothingToDispatch(d, w) ==
  /\ d.activePresetId \notin Seeded
  /\ demo' = Fail(d)
  /\ runner' = [w EXCEPT !.pendingSimId = None]
  /\ UNCHANGED store

\* A demo button, never disabled.
PressDemo(preset) ==
  /\ Click /\ mounted
  /\ Dispatch(Arm(preset), runner) \/ NothingToDispatch(Arm(preset), runner)
  /\ UNCHANGED <<panel, card, runs, mounted>>

RunnerPosted ==
  /\ runner.mutation = "pending"
  /\ Accept(runner.preset)
  /\ runner' = [runner EXCEPT !.mutation = "success", !.simId = Len(runs) + 1,
                              !.pendingSimId = Len(runs) + 1]
  /\ UNCHANGED <<store, demo, panel, card, mounted, clicks>>

\* Faulty: a refused request is told to the board, not to the demo.
RunnerPostFailsQuietly ==
  /\ runner.mutation = "pending"
  /\ runner' = [runner EXCEPT !.mutation = "error"]
  /\ store' = SetRunError(store)
  /\ UNCHANGED <<demo, panel, card, runs, mounted, clicks>>

\* The error effect does not ask whether the demo was stopped.
RunnerPostFails ==
  /\ runner.mutation = "pending"
  /\ runner' = [runner EXCEPT !.mutation = "error"]
  /\ store' = SetRunError(store)
  /\ demo' = Fail(demo)
  /\ UNCHANGED <<panel, card, runs, mounted, clicks>>

\* This client reacts to a settled run only.
RunnerPoll ==
  /\ \E status \in Answers(runner) \cap Settled :
       LET a == RunnerAdopt(store, demo, [runner EXCEPT !.seen = status])
       IN  store' = a.store /\ demo' = a.demo /\ runner' = a.runner
  /\ UNCHANGED <<panel, card, runs, mounted, clicks>>

\* goToBeat(index, {auto})
MoveTo(d, index, auto) ==
  /\ index \in 0 .. LastBeat(d)
  /\ store' = ApplyBeat(store, Beat(d, index))
  /\ demo' = GoToBeat(d, index, auto)
  /\ UNCHANGED <<panel, runner, card, runs, mounted, clicks>>

AutoPlaying == mounted /\ demo.isAutoPlaying /\ demo.beatIndex >= 0 /\ demo.beats # <<>>

\* Act 1 ends at the held peak, until the restoration is asked for.
AtActBoundary ==
  demo.beatIndex + 1 = RecoveryStartIndex(demo) /\ ~demo.hasRunRecovery

AutoAdvance ==
  /\ AutoPlaying /\ demo.beatIndex < LastBeat(demo) /\ ~AtActBoundary
  /\ MoveTo(demo, demo.beatIndex + 1, TRUE)

AutoPause ==
  /\ AutoPlaying
  /\ \/ demo.beatIndex >= LastBeat(demo) /\ demo' = Finish(demo)
     \/ /\ demo.beatIndex < LastBeat(demo) /\ AtActBoundary
        /\ demo' = PauseForRecovery(demo)
  /\ UNCHANGED <<store, panel, runner, card, runs, mounted, clicks>>

\* "Run restoration"
StartRecovery ==
  /\ mounted /\ demo.phase = "awaiting-recovery" /\ RecoveryStartIndex(demo) >= 0
  /\ MoveTo([demo EXCEPT !.hasRunRecovery = TRUE], RecoveryStartIndex(demo), TRUE)

\* A click on the replay rail; restoration beats are locked until act 2 ran.
ReplayBeat(index) ==
  /\ mounted
  /\ index \in 0 .. LastBeat(demo)
  /\ Beat(demo, index).kind = "recovery" => demo.hasRunRecovery
  /\ MoveTo(demo, index, FALSE)

StopDemo ==
  /\ mounted /\ demo.phase # "idle"
  /\ demo' = Idle
  /\ store' = StopOnBoard(store)
  /\ UNCHANGED <<panel, runner, card, runs, mounted, clicks>>

-------------------------------------------------------------------------------
(* RecommendationPanel *)

\* A card is a rank, not a recommendation: what was applied at a rank stays
\* marked as applied when the board moves on to other recommendations.

\* "Review" snapshots the result on the board; handleRunVerifiedRerun compares
\* with that snapshot, however old it is by then.
Review(c) ==
  /\ mounted /\ store.result # None
  /\ card[c].at = "idle"
  /\ card' = [card EXCEPT ![c].at = "review", ![c].baseline = store.result]
  /\ UNCHANGED <<store, demo, panel, runner, runs, mounted, clicks>>

DiscardDraft(c) ==
  /\ mounted /\ store.result # None
  /\ card[c].at = "review"
  /\ card' = [card EXCEPT ![c] = NewCard]
  /\ UNCHANGED <<store, demo, panel, runner, runs, mounted, clicks>>

\* runInterventionSequence begins, for a reviewed card or (handleApply) for one
\* whose baseline is the result now on the board.
Apply(c) ==
  /\ Click /\ mounted /\ store.result # None
  /\ card[c].at \in {"idle", "review"}
  /\ LET baseline == IF card[c].at = "review" THEN card[c].baseline ELSE store.result
     IN  /\ card' = [card EXCEPT ![c].at = "post", ![c].ui = card[c].at,
                                 ![c].baseline = baseline]
         /\ store' = IF store.baselineSimulationId # None THEN store
                     ELSE SetBaselineSimulationId(store, baseline.id)
  /\ UNCHANGED <<demo, panel, runner, runs, mounted>>

\* The scenario and then its simulation are created.
CardPosted(c) ==
  /\ card[c].at = "post"
  /\ Accept("card")
  /\ card' = [card EXCEPT ![c].at = "poll", ![c].simId = Len(runs) + 1]
  /\ UNCHANGED <<store, demo, panel, runner, mounted, clicks>>

\* A request fails, the run fails, or the deadline of the poll passes.  A draft
\* under review is kept, for "Retry".
CardFails(c) ==
  /\ card[c].at \in {"post", "poll"}
  /\ card' = [card EXCEPT
                ![c] = IF card[c].ui # "review" THEN NewCard
                       ELSE [NewCard EXCEPT !.at = "review", !.baseline = card[c].baseline]]
  /\ UNCHANGED <<store, demo, panel, runner, runs, mounted, clicks>>

FailedIn(r) == FailedNodeIdsForResult(r.waves)

\* interventionOutcome
Saved(baseline, r) == FailedIn(baseline) \ FailedIn(r)

\* What the handler of a card makes of the store.
Adopted(k) ==
  LET r == Result(k.simId)
  IN  SetSavedNodes(SetSimulationResult(StopOnBoard(AddSimulation(store, r.id)), r, TRUE),
                    Saved(k.baseline, r))

\* pollSimulationUntilSettled returns, and the store becomes s.
CardEnds(c, s) ==
  /\ card[c].at = "poll"
  /\ runs[card[c].simId].status = "completed"
  /\ store' = s
  /\ demo' = Idle
  /\ card' = [card EXCEPT
                ![c] = IF card[c].ui = "gone" THEN NewCard
                       ELSE [card[c] EXCEPT !.at = "applied"]]
  /\ UNCHANGED <<panel, runner, runs, mounted, clicks>>

\* Faulty: the panel's adopt effect runs again over the rerun and takes its own
\* run, which is not the one on the board, for one it has yet to adopt.
CardSettlesReverted(c) ==
  CardEnds(c, IF panel.seen # "completed" THEN Adopted(card[c])
              ELSE SetSimulationResult(Adopted(card[c]), Result(panel.simId), TRUE))

\* The handler runs to its end.
CardSettles(c) == CardEnds(c, Adopted(card[c]))

-------------------------------------------------------------------------------
(* CascadeTimeline, WaveBreakdown and the timers of the store.  They leave   *)
(* everything but the store alone.                                           *)

OnStore(next) ==
  /\ store' = next
  /\ UNCHANGED <<demo, panel, runner, card, runs, mounted, clicks>>

PlayPause ==
  /\ mounted /\ store.result # None
  /\ OnStore(IF store.isPlaying THEN Pause(store) ELSE Play(store))

\* The scrubber, the step buttons and the wave list.
Scrub(index) ==
  /\ mounted /\ store.result # None
  /\ OnStore(SetWave(store, index))

Rewind ==
  /\ mounted /\ store.result # None
  /\ OnStore(RewindToStart(store))

\* setInterval(advanceWave, 800)
Tick ==
  /\ store.intervals # {}
  /\ OnStore(AdvanceWave(store))

\* setTimeout(play, 300)
Autoplay ==
  /\ store.autoplays > 0
  /\ OnStore(Play([store EXCEPT !.autoplays = @ - 1]))

-------------------------------------------------------------------------------
(* App *)

\* Selecting a network whose topology is not cached unmounts the board: what
\* its components held is lost, the stores are not.
SwitchNetwork ==
  /\ Click /\ mounted
  /\ mounted' = FALSE
  /\ panel' = NewPanel
  /\ runner' = NewRunner
  /\ card' = [c \in Card |-> IF card[c].at \in {"post", "poll"}
                             THEN [card[c] EXCEPT !.ui = "gone"] ELSE NewCard]
  /\ UNCHANGED <<store, demo, runs>>

\* The topology arrives.  A demo still arming is dispatched again, because the
\* new DemoRunner has dispatched no token yet, or fails, if this network has
\* none of its seeds.
TopologyLoaded ==
  /\ ~mounted
  /\ mounted' = TRUE
  /\ \/ demo.phase = "arming" /\ Dispatch(demo, runner)
     \/ demo.phase = "arming" /\ demo' = Fail(demo) /\ UNCHANGED <<store, runner>>
     \/ demo.phase # "arming" /\ UNCHANGED <<store, demo, runner>>
  /\ UNCHANGED <<panel, card, runs, clicks>>

\* The page is loaded again; only the history is in localStorage.
Reload ==
  /\ store' = InitialStore(store.simulations)
  /\ demo' = Idle
  /\ panel' = NewPanel
  /\ runner' = NewRunner
  /\ card' = [c \in Card |-> NewCard]
  /\ mounted' = TRUE
  /\ UNCHANGED <<runs, clicks>>

-------------------------------------------------------------------------------
(* What the user does, and what happens by itself. *)

User ==
  \/ RunBaseline \/ ClearBoard
  \/ \E p \in Preset : PressDemo(p)
  \/ StartRecovery \/ StopDemo
  \/ \E i \in 0 .. LastBeat(demo) : ReplayBeat(i)
  \/ \E c \in Card : Review(c) \/ DiscardDraft(c) \/ Apply(c)
  \/ PlayPause \/ Rewind
  \/ store.result # None /\ \E i \in 0 .. LastWave(store.result) : Scrub(i)
  \/ SwitchNetwork \/ Reload

Posting == PanelPosted \/ PanelPostFails \/ RunnerPosted \/ RunnerPostFails

Runs == \E id \in DOMAIN runs : SettleRun(id)

Next ==
  \/ User \/ Posting \/ Runs \/ AutoAdvance \/ AutoPause
  \/ PanelPoll \/ RunnerPoll
  \/ \E c \in Card : CardPosted(c) \/ CardFails(c) \/ CardSettles(c)
  \/ Tick \/ Autoplay \/ TopologyLoaded

(* Requests are answered, accepted runs settle (SimulationLifecycle,         *)
(* AcceptedRunsSettle), the demo's poll goes on, its timers fire, topologies *)
(* load.  The user owes nothing.                                             *)

(* Weak fairness of each, with its ENABLED written out: these actions change *)
(* a variable whenever their guard holds.                                    *)
Fairness ==
  /\ []<>(runner.mutation # "pending") \/ []<><<RunnerPosted \/ RunnerPostFails>>_vars
  /\ \A id \in RunId :
       \/ []<>~(id \in DOMAIN runs /\ runs[id].status = "open")
       \/ []<><<id \in DOMAIN runs /\ SettleRun(id)>>_vars
  /\ []<>(Answers(runner) \cap Settled = {}) \/ []<><<RunnerPoll>>_vars
  /\ []<>~AutoPlaying \/ []<><<AutoAdvance \/ AutoPause>>_vars
  /\ []<>mounted \/ []<><<TopologyLoaded>>_vars

Spec == Init /\ [][Next]_vars /\ Fairness

-------------------------------------------------------------------------------
(* Properties *)

ResultType == [id : Nat, waves : Shapes]

StoreType ==
  [result : ResultType \cup {None}, currentWave : Int, recoveryStageIndex : Int,
   failedNodeIds : SUBSET Asset, restoredNodeIds : SUBSET Asset, savedNodeIds : SUBSET Asset,
   isPlaying : BOOLEAN, isRunning : BOOLEAN, runError : BOOLEAN,
   animationTimer : Timer \cup {None}, intervals : SUBSET Timer, autoplays : Nat,
   simulations : Seq([id : Nat, is_baseline : BOOLEAN]),
   baselineSimulationId : Nat \cup {None}]

BeatType ==
  [kind : {"collapse"}, waveIndex : Nat]
    \cup [kind : {"peak"}]
    \cup [kind : {"recovery"}, stageIndex : Nat, restoredNodeIds : SUBSET Asset,
          milestone : {0} \cup RECOVERY_MILESTONES]

DemoType ==
  [activePresetId : Preset \cup {None},
   phase : {"idle", "arming", "collapse", "peak", "awaiting-recovery",
            "recovery", "complete", "error"},
   beats : Seq(BeatType), beatIndex : Int,
   isAutoPlaying : BOOLEAN, hasRunRecovery : BOOLEAN, beatsOf : Nat \cup {None}]

Mutation == {"idle", "pending", "success", "error"}

SeenStatus == {None, "pending", "running"} \cup Settled

PanelType ==
  [mutation : Mutation, simId : Nat \cup {None}, seen : SeenStatus,
   handledPolledIds : SUBSET Nat, dismissedSimulationIds : SUBSET Nat]

RunnerType ==
  [mutation : Mutation, simId : Nat \cup {None}, seen : SeenStatus,
   pendingSimId : Nat \cup {None}, preset : Preset \cup {None}]

CardType ==
  [at : {"idle", "review", "post", "poll", "applied"},
   ui : {None, "idle", "review", "gone"},
   baseline : ResultType \cup {None}, simId : Nat \cup {None}]

RunType ==
  [by : Preset \cup {"panel", "card"}, status : {"open"} \cup Settled,
   waves : Shapes \cup {<<>>}]

\* Every variable has its type, the history is capped, every id is a run's, and
\* there are no more runs than clicks.
TypeOK ==
  /\ store \in StoreType /\ Len(store.simulations) <= MaxHistory
  /\ demo \in DemoType /\ demo.beatIndex \in -1 .. LastBeat(demo)
  /\ panel \in PanelType /\ runner \in RunnerType /\ card \in [Card -> CardType]
  /\ runs \in Seq(RunType) /\ Len(runs) <= clicks
  /\ mounted \in BOOLEAN /\ clicks \in 0 .. MaxClicks
  /\ HistoryIds(store) \cup panel.handledPolledIds \cup panel.dismissedSimulationIds
       \subseteq DOMAIN runs
  /\ {store.baselineSimulationId, demo.beatsOf, panel.simId, runner.simId, runner.pendingSimId}
       \cup {card[c].simId : c \in Card} \subseteq DOMAIN runs \cup {None}

\* The map is painted with what the timeline says: the assets of the waves up
\* to the current one, or, in a recovery, all that failed but the restored.
\* The failed set is kept incrementally by advanceWave and rebuilt by setWave
\* and applyRecovery, while a timer ticks under the user's scrubbing, the demo's
\* beats and new results (simulationStore.ts).
MapMatchesTimeline ==
  LET r == store.result
  IN  /\ r = None => store.failedNodeIds = {} /\ store.currentWave = -1
      /\ r # None /\ store.recoveryStageIndex < 0 =>
           /\ store.failedNodeIds = FailedUpTo(r, store.currentWave)
           /\ store.restoredNodeIds = {}
      /\ r # None /\ store.recoveryStageIndex >= 0 =>
           /\ store.failedNodeIds = FailedIn(r) \ store.restoredNodeIds
           /\ store.currentWave = LastWave(r)

\* No timer ticks that the Pause button does not reach: the only live interval
\* is the one the store knows, and while it ticks the button says Pause and is
\* on the screen.  play, pause, advanceWave and every adoption replace or clear
\* the timer, in any order with the delayed play() calls.
PauseReachesEveryTimer ==
  store.intervals # {} =>
    /\ store.intervals = {store.animationTimer}
    /\ store.isPlaying
    /\ store.result # None

\* What is ringed as saved belongs to the rerun on the board and to no other
\* result: the board shows a card's run, which fails none of it, and some other
\* run failed each of it.  The ring compares a baseline captured before two
\* requests and a poll with the result adopted after them, while other runs
\* come and go (RecommendationPanel).
SavedIsOfTheRerun ==
  store.savedNodeIds # {} =>
    /\ store.result # None /\ runs[store.result.id].by = "card"
    /\ store.savedNodeIds \cap FailedIn(store.result) = {}
    /\ \A v \in store.savedNodeIds : \E id \in DOMAIN runs :
         runs[id].status = "completed" /\ v \in FailedIn(Result(id))

\* A demo's beats come from a run of the demo that is active, never from the
\* run of an earlier demo that the poller still held or received late
\* (the comment on pendingSimId in DemoRunner.tsx).  A demo without seeds is
\* excepted: it posts nothing, so that it takes the late answer to the request
\* of the demo before it for its own.
NarrationIsOfItsPreset ==
  demo.beats # <<>> /\ demo.activePresetId \in Seeded
    => runs[demo.beatsOf].by = demo.activePresetId

\* A run that left the board does not come back to it, over a newer one or over
\* none: what is adopted is not in the history, and the board never shows
\* another run than the one recorded last.  No poller adopts again what it has
\* handled, whatever re-runs its effect (the comment on handledPolledIds in
\* ControlPanel.tsx).
NoRunComesBack ==
  [][store'.result # None =>
       /\ store'.result # store.result => store'.result.id \notin HistoryIds(store)
       /\ store'.result.id = store'.simulations[1].id]_vars

\* The loading state is never shown for nothing: if a run is shown in flight,
\* the panel or the demo waits for one, and no step but a switch of network,
\* which forgets the pollers, breaks that.  A demo without seeds is excepted: it
\* disowns the run of the demo before it and leaves the board loading.
SeedsAreMissing == demo.activePresetId \notin Seeded \cup {None}

LoadingIsBacked ==
  store.isRunning => Waiting(panel) \/ Waiting(runner) \/ SeedsAreMissing

LoadingStaysBacked ==
  [][LoadingIsBacked /\ ~SwitchNetwork => LoadingIsBacked']_vars

\* The baseline that comparisons refer to never moves, not even over a reload
\* of the page, as long as its entry is in the history.
BaselineIsKept ==
  [][[id |-> store.baselineSimulationId, is_baseline |-> TRUE] \in ToSet(store.simulations)
       => store'.baselineSimulationId = store.baselineSimulationId]_vars

\* A demo comes to rest: from the press of its button it ends, fails, is
\* stopped or holds for the user's go-ahead, and is not left computing for ever.
DemoComesToRest == demo.isAutoPlaying ~> ~demo.isAutoPlaying

\* isPlaying tells "whether the cascade animation is playing"
\* (simulationStore.ts): a timer ticks to make it go on.  The delayed play()
\* breaks that: if the user has played to the last wave in the meantime it
\* clears the timer and returns with isPlaying still on.
PlayingHasTimer == store.isPlaying => store.intervals # {}

\* Nothing but the delayed play() does: not a scrub under a running timer, a
\* beat, an adoption, a stop or a click in between.
PlayingKeepsTimer ==
  [][PlayingHasTimer /\ ~Autoplay => PlayingHasTimer']_vars

(* What comments of the source say and the code does not keep. *)

\* isRunning tells "whether a simulation request is currently in flight
\* (queued, running, or being polled)" (simulationStore.ts): on a mounted board
\* it is not left on with nobody waiting for a run.
LoadingIsForARun == mounted => LoadingIsBacked

\* A demo narrates the result on the board: the comment in handleRunBaseline
\* (ControlPanel.tsx) says why it stops the demo, which "would keep applying its
\* beats" to the result of a manual run.
DemoNarratesTheBoard ==
  demo.beatIndex >= 0 => store.result # None /\ store.result.id = demo.beatsOf

===============================================================================
