------------------------- MODULE AnalysisPipeline -------------------------
(***************************************************************************)
(* AnalysisPipeline (aegis-server/analysis/pipeline.py), of one drone: a   *)
(* detection updates the observations of Trilateration, the drone's row is *)
(* scored by ThreatScore, the result is written to the row, and alerts are *)
(* inserted when the score becomes high or the estimate contradicts the    *)
(* position broadcast.                                                     *)
(*                                                                         *)
(* The subscriber handles one message after the other; each step waits for *)
(* the database, which may fail before or after it has done what it was    *)
(* asked, and the server may be restarted at any moment.                   *)
(***************************************************************************)
EXTENDS Trilateration, ThreatScore

VARIABLES
  step,        \* where _run is: "idle", "node", "row", "persist", "alert", "mismatch", "end"
  threat,      \* ThreatFactors: the level, and whether the row has a full operator ID
  lastScore,   \* _last_scores: "high" or "less"
  ensured,     \* _analysis_columns_created
  columns,     \* the table has the columns
  shown,       \* threat_level of the row, and whether a full operator ID went into it
  \* History.
  told,        \* threat_score alerts since the score shown was last below 70, up to 2
  disturbed    \* a failed statement or a restart came between the row, the memory and
               \* the alerts since then

pipeVars == <<step, threat, lastScore, ensured, columns, shown, told, disturbed>>
pipelineVars == <<trilatVars, pipeVars>>

NoThreat == [level |-> "low", named |-> FALSE]

PipelineInit ==
  /\ TrilatInit
  /\ step = "idle" /\ threat = NoThreat /\ lastScore = "less" /\ shown = NoThreat
  /\ ensured = FALSE /\ columns \in BOOLEAN /\ told = 0 /\ disturbed = FALSE

\* process() logs what _run raises; the next message is handled.
EndRun == step' = "idle" /\ threat' = NoThreat /\ mlat' = "none" /\ used' = {}

-----------------------------------------------------------------------------
\* The row is upserted and the node's survey_complete asked for.
Detected ==
  /\ step = "idle" /\ step' = "node"
  /\ UNCHANGED <<trilatVars, threat, lastScore, ensured, columns, shown, told, disturbed>>

\* Step 1, once the answer is there.
Locate ==
  /\ step = "node" /\ step' = "row"
  /\ \E n \in Nodes, age \in ObsAges, weak \in BOOLEAN : Update(n, age, weak)
  /\ UNCHANGED <<threat, lastScore, ensured, columns, shown, told, disturbed>>

\* One of the two SELECTs fails, or there is no row.
SelectFails ==
  /\ step \in {"node", "row"} /\ EndRun
  /\ UNCHANGED <<obs, taken, lastScore, ensured, columns, shown, told, disturbed>>

\* What the scorer can make of a row, by what update() returned.
ThreatsOf ==
  [d \in Distances \cup {"none"} |->
     {[level |-> Level(Score(r, d)), named |-> r.operator = "full"] : r \in Rows}]

\* Steps 2 and 3.
ScoreRow ==
  /\ step = "row" /\ step' = "persist"
  /\ threat' \in ThreatsOf[IF mlat \in Distances THEN mlat ELSE "none"]
  /\ UNCHANGED <<trilatVars, lastScore, ensured, columns, shown, told, disturbed>>

\* What is counted since the score shown was below 70.
Show ==
  /\ shown' = threat
  /\ told' = IF threat.level = "high" THEN told ELSE 0

\* _ensure_analysis_columns: tried once, what fails is passed over.
EnsureColumns ==
  /\ ensured' = TRUE
  /\ columns' \in IF ensured THEN {columns} ELSE {columns, TRUE}

\* Mutant: a score that stays high is a crossing each time.
Crosses_Always == threat.level = "high"

\* threat.score >= 70 and prev_score < 70
Crosses == threat.level = "high" /\ lastScore = "less"

\* Mutant: the score is remembered when its alert is inserted, only.
Remembered_AtAlert == IF Crosses THEN "high" ELSE lastScore

Remembered == IF threat.level = "high" THEN "high" ELSE "less"

\* mismatch_m > 250 and spoof_confidence > 0.6
Contradicted == mlat \in {"beyond", "far"}

\* Steps 4 and 5: the row, then the memory, then the alerts.
Persist ==
  /\ step = "persist" /\ EnsureColumns /\ columns'
  /\ Show
  /\ lastScore' = Remembered
  /\ disturbed' = (disturbed /\ threat.level = "high")
  /\ step' = CASE Crosses -> "alert" [] ~Crosses /\ Contradicted -> "mismatch" [] OTHER -> "end"
  /\ UNCHANGED <<trilatVars, threat>>

\* The UPDATE fails: for want of columns, before it was done, or after.
PersistFails ==
  /\ step = "persist" /\ EnsureColumns /\ EndRun
  /\ IF columns' THEN Show \/ UNCHANGED <<shown, told>> ELSE UNCHANGED <<shown, told>>
  /\ disturbed' = TRUE
  /\ UNCHANGED <<obs, taken, lastScore>>

\* _insert_alert: its failure is only logged.
InsertHigh == told' \in {told, IF told < 2 THEN told + 1 ELSE 2}

AlertHigh ==
  /\ step = "alert" /\ step' = IF Contradicted THEN "mismatch" ELSE "end"
  /\ InsertHigh
  /\ disturbed' = (disturbed \/ told' = told)
  /\ UNCHANGED <<trilatVars, threat, lastScore, ensured, columns, shown>>

\* The second alert is inserted, or not.
AlertMismatch ==
  /\ step = "mismatch" /\ step' = "end"
  /\ UNCHANGED <<trilatVars, threat, lastScore, ensured, columns, shown, told, disturbed>>

Return ==
  /\ step = "end" /\ EndRun
  /\ UNCHANGED <<obs, taken, lastScore, ensured, columns, shown, told, disturbed>>

\* The process ends; the table stays.
PipelineRestart ==
  /\ EndRun /\ obs' = NoObs /\ taken' = [n \in Nodes |-> ObsWindow]
  /\ lastScore' = "less" /\ ensured' = FALSE
  /\ disturbed' = TRUE
  /\ UNCHANGED <<columns, shown, told>>

TimePasses == TrilatTick /\ UNCHANGED pipeVars
SweepStale == Sweep /\ UNCHANGED pipeVars

PipelineNext ==
  \/ Detected \/ Locate \/ SelectFails \/ ScoreRow \/ Persist \/ PersistFails
  \/ AlertHigh \/ AlertMismatch \/ Return
  \/ PipelineRestart \/ TimePasses \/ SweepStale

PipelineSpec == PipelineInit /\ [][PipelineNext]_pipelineVars
-----------------------------------------------------------------------------
(* Properties. *)

PipelineTypeOK ==
  /\ TrilatTypeOK
  /\ step \in {"idle", "node", "row", "persist", "alert", "mismatch", "end"}
  /\ threat \in [level: {"low", "medium", "high"}, named: BOOLEAN]
  /\ shown \in [level: {"low", "medium", "high"}, named: BOOLEAN]
  /\ lastScore \in {"high", "less"} /\ ensured \in BOOLEAN /\ columns \in BOOLEAN
  /\ told \in 0..2 /\ disturbed \in BOOLEAN

\* Between two detections, a drone shown as high has been announced by one alert, and by
\* no more however long it stays high, unless a statement failed or the server was
\* restarted on the way; and it is never one that gave a full operator ID, whatever else
\* counts against it (_run 98-105, _maybe_alert 182-190, score 110-206).
HighExplained ==
  /\ step = "idle" /\ ~disturbed =>
       told = IF shown.level = "high" THEN 1 ELSE 0
  /\ shown.level = "high" => ~shown.named
=============================================================================
