--------------------------------- MODULE Views ---------------------------------
(***************************************************************************)
(* What the components make of the stores: the map, the graph, the         *)
(* timeline, the headline figures, the wave list, the panels beside them   *)
(* and the bar above.  Each definition is a function of the simulation     *)
(* store s, of what the user points at, u, and of the state of the         *)
(* component where it has one.  Wording and layout are left out, and so is *)
(* the mode "add_redundancy", which uiFlags.ts switches off; the map is    *)
(* taken with its road junctions shown, as it opens.                       *)
(*                                                                         *)
(* A definition marked "Faulty" is no part of the specification: it is the *)
(* definition after it with a plausible bug.                               *)
(***************************************************************************)
EXTENDS Board

CONSTANTS
  Hospital,    \* the assets of type hospital
  Substation   \* the assets of type power_substation

ASSUME TypesAssumption == Hospital \cup Substation \subseteq Asset

\* The selection and the asset under the pointer (uiStore.ts).
UIState == [selected : SUBSET Asset, hovered : Asset \cup {None}]

-------------------------------------------------------------------------------
(* MapView *)

\* NODE_COLORS: a substation's own colour is the very red of a failed asset.
TypeColour(v) == IF v \in Substation THEN "red" ELSE "type"

Fill(s, u, v) ==
  IF v \in s.failedNodeIds THEN "red"
  ELSE IF v \in s.restoredNodeIds THEN "green"
  ELSE IF v \in u.selected THEN "selected"
  ELSE IF v = u.hovered THEN "hovered" ELSE TypeColour(v)

Outline(s, u, v) ==
  IF v \in u.selected THEN "selected"
  ELSE IF v \in s.failedNodeIds THEN "dark red"
  ELSE IF v \in s.savedNodeIds THEN "saved"
  ELSE IF v \in s.restoredNodeIds THEN "restored" ELSE "none"

\* The failed pulse, as long as there are any.
Size(s, v) ==
  IF v \in s.failedNodeIds THEN "pulsing"
  ELSE IF v \in s.restoredNodeIds THEN "large" ELSE "normal"

\* A link is dimmed red by either end and bright red by both.
LinkColour(s, v, w) ==
  IF {v, w} \subseteq s.failedNodeIds THEN "red"
  ELSE IF {v, w} \cap s.failedNodeIds # {} THEN "dim red" ELSE "type"

\* The ring around what the current wave took down.
BlastNodes(s) ==
  IF s.result = None \/ s.currentWave \notin 0 .. LastWave(s.result) THEN {}
  ELSE ToSet(s.result.waves[s.currentWave + 1])

\* The status column is never written by a run: the tooltip reads the failed
\* set through a ref.
Tooltip(s, v) == [asset |-> v, status |-> IF v \in s.failedNodeIds THEN "Failed" ELSE "Operational"]

\* showLoading, showError, showEmpty; none of them over a result.
Overlay(s) ==
  CASE s.isRunning -> "loading"
    [] ~s.isRunning /\ s.runError -> "error"
    [] ~s.isRunning /\ ~s.runError /\ s.result = None -> "empty"
    [] OTHER -> "none"

\* The notice that the run was cut off; stabilized is its cascade_stabilized.
GuardrailNotice(s, stabilized) == s.result # None /\ ~stabilized

-------------------------------------------------------------------------------
(* GraphView: classes on a node, and a style sheet whose later rule wins. *)

Classes(s, u, v) ==
  LET members == [failed |-> s.failedNodeIds, restored |-> s.restoredNodeIds,
                  saved |-> s.savedNodeIds, selected |-> u.selected, hovered |-> {u.hovered}]
  IN  {class \in DOMAIN members : v \in members[class]}

\* The red of a failed node is not quite the substation's here.
Background(classes, v) ==
  IF "restored" \in classes THEN "green"
  ELSE IF "failed" \in classes THEN "failed red" ELSE TypeColour(v)

Border(classes) ==
  IF "hovered" \in classes THEN "hovered"
  ELSE IF "selected" \in classes THEN "selected"
  ELSE IF "saved" \in classes THEN "saved"
  ELSE IF "restored" \in classes THEN "restored"
  ELSE IF "failed" \in classes THEN "dark red" ELSE "none"

-------------------------------------------------------------------------------
(* ImpactSummary *)

TotalFailed(r) == Cardinality(FailedIn(r))

IsRecovering(s) == s.recoveryStageIndex >= 0

IsMidCascade(s) ==
  ~IsRecovering(s) /\ s.currentWave >= 0 /\ s.currentWave < LastWave(s.result)

\* Faulty: the headline is the final total at any moment.
HeadlineAtPeak(s) ==
  IF s.isRunning \/ s.result = None THEN [label |-> "none", value |-> None]
  ELSE [label |-> "Assets offline", value |-> TotalFailed(s.result)]

\* The first tile; no figure is shown while a run computes.
Headline(s) ==
  CASE s.isRunning \/ s.result = None -> [label |-> "none", value |-> None]
    [] ~s.isRunning /\ s.result # None /\ (IsRecovering(s) \/ IsMidCascade(s)) ->
         [label |-> IF IsRecovering(s) THEN "Still offline" ELSE "Offline so far",
          value |-> Cardinality(s.failedNodeIds)]
    [] OTHER -> [label |-> "Assets offline", value |-> TotalFailed(s.result)]

\* The third tile, in a recovery: back, of how many, and rounded to percents.
Restored(s) ==
  LET back  == Cardinality(s.restoredNodeIds)
      total == TotalFailed(s.result)
  IN  [back |-> back, of |-> total, percent |-> PercentRestored(back, Max({1, total}))]

\* Hospitals among the assets failed.
CriticalServicesOffline(failed) == Cardinality(Hospital \cap failed)

-------------------------------------------------------------------------------
(* CascadeTimeline, WaveBreakdown *)

\* The strip is a restoration meter or a scrubber, with its readout.
Timeline(s) ==
  IF IsRecovering(s) THEN [meter |-> TRUE, at |-> Restored(s).percent]
  ELSE [meter |-> FALSE, at |-> IF s.currentWave = -1 THEN "Pre-cascade" ELSE s.currentWave + 1]

\* The row of each wave: whether it is open, and its cumulative count.
WaveRows(s) ==
  IF s.isRunning \/ s.result = None THEN <<>>
  ELSE [i \in DOMAIN s.result.waves |->
         [open |-> s.currentWave = i - 1, total |-> Cardinality(FailedUpTo(s.result, i - 1))]]

-------------------------------------------------------------------------------
(* ExplainPanel *)

\* A single selected asset, else the one under the pointer.
Inspected(u) ==
  IF Cardinality(u.selected) = 1 THEN CHOOSE v \in u.selected : TRUE ELSE u.hovered

\* The words for the root cause; explained says that a mitigation has its own.
RootCause(offline, initialFailure, explained) ==
  IF ~offline THEN "operating" ELSE IF initialFailure THEN "hit"
  ELSE IF explained THEN "of the engine" ELSE "cascade"

\* What is told of asset v is of the end of the run; mitigated are the assets
\* that some mitigation names.
Inspector(s, v, mitigated) ==
  LET offline == v \in FailedIn(s.result)
  IN  [status |-> IF offline THEN "Failed" ELSE "Operational",
       cause  |-> RootCause(offline, v \in ToSet(s.result.waves[1]), v \in mitigated),
       action |-> IF v \in mitigated THEN "mitigation"
                  ELSE IF offline THEN "see the panel" ELSE "none"]

\* The comparison served for the last applied scenario, if its rerun is the
\* result on the board.
VerifiedComparison(s, comparison) ==
  IF comparison = None \/ comparison.scenario.id # s.result.id THEN None ELSE comparison

\* The figures of the paragraphs: the run's waves and failures, its hospitals,
\* and the rerun, as measured against its baseline or as projected.
Explanation(s, comparison, projection) ==
  LET verified == VerifiedComparison(s, comparison)
      failed   == FailedIn(s.result)
  IN  [waves |-> Len(s.result.waves),
       total |-> TotalFailed(IF verified = None THEN s.result ELSE verified.scenario),
       critical |-> CriticalServicesOffline(failed),
       rerun |-> IF verified # None
                 THEN [measured |-> TRUE, failed |-> TotalFailed(verified.scenario),
                       was |-> TotalFailed(verified.baseline)]
                 ELSE [measured |-> FALSE, failed |-> projection]]

-------------------------------------------------------------------------------
(* RecommendationPanel *)

\* The staged comparison of a reviewed card whose recommendation projects that
\* many failures prevented: the verified column is filled by the rerun only.
CompareTable(c, prevented) ==
  LET was == TotalFailed(card[c].baseline)
  IN  [baseline |-> was, proposed |-> was - prevented,
       verified |-> IF card[c].at = "applied" THEN TotalFailed(Result(card[c].simId))
                    ELSE "pending"]

\* "What this intervention did", asset by asset.
Outcome(c) ==
  LET before == FailedIn(card[c].baseline)
      after  == FailedIn(Result(card[c].simId))
  IN  [stayedOnline |-> before \ after, newlyAffected |-> after \ before]

\* The button of an alternative; it is disabled from the click on.
ApplyButton(c) ==
  CASE card[c].at = "applied" -> "Applied"
    [] card[c].at \in {"post", "poll"} -> "Applying"
    [] card[c].at \in {"idle", "review"} -> "Apply"

-------------------------------------------------------------------------------
(* ControlPanel, App, DemoBar *)

\* Which of the panel's buttons can be pressed.  The Clear beside the active
\* result always can.
Buttons(s, u) ==
  [simulate |-> u.selected # {} /\ ~IsRunning,
   clear |-> (u.selected # {} \/ s.result # None \/ s.runError) /\ ~IsRunning,
   clearResult |-> s.result # None]

ActiveResult(s) == [failed |-> TotalFailed(s.result), waves |-> Len(s.result.waves)]

\* RunError and a result may both be there.
Badge(s, stabilized) ==
  CASE s.isRunning -> "Running"
    [] ~s.isRunning /\ s.runError -> "Run failed"
    [] ~s.isRunning /\ ~s.runError /\ s.result = None -> "No scenario"
    [] OTHER -> IF stabilized THEN "Cascade recorded" ELSE "Truncated"

\* What the strip under the demo buttons says: of the phase, or of the beat.
Narration(s, d) ==
  CASE d.phase \in {"error", "arming"} -> d.phase
    [] d.phase = "awaiting-recovery" ->
         IF s.result = None THEN 0 ELSE TotalFailed(s.result)
    [] d.phase \notin {"error", "arming", "awaiting-recovery"} ->
         IF d.beatIndex >= 0 THEN Beat(d, d.beatIndex).kind ELSE d.phase

\* The replay rail: one button per beat; act 2 is locked until it has been run.
Rail(d) ==
  [i \in DOMAIN d.beats |->
     [current |-> i = d.beatIndex + 1,
      locked  |-> d.beats[i].kind = "recovery" /\ ~d.hasRunRecovery]]

-------------------------------------------------------------------------------
(* The panels tell of one moment *)

\* What the map shows as failed.  The fill does not tell it of a substation: a
\* failed one also pulses.
LooksFailed(s, u, v) == Fill(s, u, v) = "red" /\ Size(s, v) = "pulsing"

\* Whatever is selected or hovered, the map and the graph paint the same assets
\* as failed and as restored and, of an asset that is neither selected nor
\* hovered, draw the same outline: two rule sets, of opposite precedence.  An
\* asset that is red on the map, and is no substation, has failed.
PicturesAgree(s, u) ==
  \A v \in Asset :
    LET classes == Classes(s, u, v)
    IN  /\ LooksFailed(s, u, v) <=> Background(classes, v) = "failed red"
        /\ Fill(s, u, v) = "green" <=> Background(classes, v) = "green"
        /\ Fill(s, u, v) = "red" => v \in Substation \/ LooksFailed(s, u, v)
        /\ v \notin u.selected \cup {u.hovered} => Border(classes) = Outline(s, u, v)
        /\ Size(s, v) = "pulsing" <=> Tooltip(s, v).status = "Failed"

\* A red link joins two assets that look failed.
LinksAgree(s, failed) ==
  \A v, w \in Asset : LinkColour(s, v, w) = "red" => {v, w} \subseteq failed

\* What shows a result is open to be cleared (the comment on canClear), the
\* badge and the overlay agree, the badge says that a run was cut off only under
\* the notice that says so, and the rail never stands on a restoration that was
\* not run ("the rail cannot be used to skip the collapse").
ControlsAgree(s) ==
  /\ \A stabilized \in BOOLEAN :
       LET badge == Badge(s, stabilized)
       IN  /\ Overlay(s) = "none" <=> badge \in {"Cascade recorded", "Truncated"}
           /\ badge = "Truncated" => GuardrailNotice(s, stabilized)
           /\ badge = "Cascade recorded" => ~GuardrailNotice(s, stabilized)
  /\ Overlay(s) \in {"none", "error"} => \A u \in UIState :
       Buttons(s, u).clear \/ Buttons(s, u).clearResult \/ IsRunning
  /\ \A i \in DOMAIN Rail(demo) : Rail(demo)[i].current => ~Rail(demo)[i].locked

\* Before the first wave, or rewound to there, nothing looks failed anywhere.
\* The headline is the total of the whole run already, and so is the panel's
\* tile: here alone it counts what the map does not show.
NothingYet(s, failed) ==
  /\ failed = {} /\ BlastNodes(s) = {} /\ ~IsRecovering(s)
  /\ Timeline(s).at = "Pre-cascade"
  /\ \A i \in DOMAIN WaveRows(s) : ~WaveRows(s)[i].open
  /\ \A v \in Asset : Tooltip(s, v).status = "Operational"
  /\ Headline(s) = [label |-> "Assets offline", value |-> ActiveResult(s).failed]

\* From the first wave on the headline counts the assets that look failed, as
\* the comment in ImpactSummary.tsx asks ("the headline counts what is actually
\* red on the map"), and so does the open row of the wave list; the ring is
\* around failed assets only.  In a recovery the failed and the restored are all
\* that failed, unless its stages are another run's, which DemoNarratesTheBoard
\* does not exclude.
FiguresAgree(s, failed) ==
  LET rows == WaveRows(s)
  IN  /\ Headline(s).value = Cardinality(failed)
      /\ IF IsRecovering(s)
         THEN s.restoredNodeIds \subseteq FailedIn(s.result) =>
                Headline(s).value + Restored(s).back = Restored(s).of
         ELSE /\ BlastNodes(s) \subseteq failed
              /\ \A i \in DOMAIN rows : rows[i].open => rows[i].total = Cardinality(failed)
              /\ Timeline(s).at \in DOMAIN rows

\* At the end of the cascade the tooltip and the inspector say the same of an
\* asset, and the panel's tile, the explanation and the demo's narration tell of
\* the same failures, whatever comparison is served.
EndAgrees(s) ==
  /\ \A v \in {Inspected(u) : u \in UIState} \ {None} :
       Tooltip(s, v).status = Inspector(s, v, {}).status
  /\ Headline(s).value = ActiveResult(s).failed
  /\ demo.phase = "awaiting-recovery" => Narration(s, demo) = Headline(s).value
  /\ \A i, j \in DOMAIN runs :
       Explanation(s, [baseline |-> Result(i), scenario |-> Result(j)], 0).total
         = Headline(s).value

\* An intervention whose rerun is on the board has done there what its card
\* says ("ringed on the map"): at the end of the cascade the verified column is
\* the headline, what stayed online is ringed and nothing else is, and what is
\* newly affected looks failed.
OutcomeShows(s, u, c) ==
  /\ ApplyButton(c) = "Applied"
  /\ card[c].ui = "review" => CompareTable(c, 0).verified = Headline(s).value
  /\ TotalFailed(card[c].baseline) + Cardinality(Outcome(c).newlyAffected)
       = Headline(s).value + Cardinality(Outcome(c).stayedOnline)
  /\ \A v \in Asset \ u.selected :
       /\ v \in Outcome(c).stayedOnline <=> Outline(s, u, v) = "saved"
       /\ v \in Outcome(c).newlyAffected => LooksFailed(s, u, v)

\* Whatever the user points at, every panel tells of the same moment of the
\* same run: the map, the graph, the headline, the wave list, the timeline, the
\* inspector, the explanation, the demo's strip and the card whose rerun is on
\* the board.  The stores move under a timer, the user's clicks, the demo and
\* late answers, and each component reads other fields of them.  The one
\* exception, a board before its first wave, is NothingYet.
PanelsTellOneMoment ==
  LET s == store
      AllFailed(u) == {v \in Asset : LooksFailed(s, u, v)}
  IN  /\ ControlsAgree(s)
      /\ \A u \in UIState : PicturesAgree(s, u)
      /\ \A failed \in {AllFailed(u) : u \in UIState} :
           /\ LinksAgree(s, failed)
           /\ Headline(s).value # None =>
                IF s.currentWave < 0 THEN NothingYet(s, failed) ELSE FiguresAgree(s, failed)
      /\ Headline(s).label = "Assets offline" /\ s.currentWave >= 0 =>
           /\ EndAgrees(s)
           /\ \A c \in Card : card[c].simId = s.result.id =>
                \A u \in UIState : OutcomeShows(s, u, c)

================================================================================
