--------------------------- MODULE AnalysisProofs ---------------------------
(***************************************************************************)
(* Theorems about the analysis pipeline (which readings an estimate rests  *)
(* on, and what a drone shown as high has had) and about the calibration   *)
(* (the samples of a run, and the model the server holds).                 *)
(***************************************************************************)
EXTENDS Calibration, AnalysisPipeline, FiniteSetTheorems, TLAPS

-----------------------------------------------------------------------------
(* The observations. *)

\* What is kept of a node is its last accepted reading; of a node nothing is kept of,
\* the last one is older than the window.
Kept ==
  /\ DOMAIN obs \subseteq Nodes /\ IsFiniteSet(DOMAIN obs)
  /\ taken \in [Nodes -> ObsAges]
  /\ \A n \in Nodes : IF n \in DOMAIN obs THEN obs[n] = taken[n] ELSE taken[n] >= ObsWindow

\* An estimate comes from as many nodes as it takes.
Enough == mlat \in Distances => Cardinality(used) >= MinNodes

ObsInv == Kept /\ Enough

\* The constants are natural numbers, and what is stale stays stale as it ages.
LEMMA ObsNumbers ==
  /\ ObsWindow \in Nat \ {0} /\ Ahead \in Nat /\ MinNodes \in Nat \ {0}
  /\ \A a \in ObsAges : a \in Int /\ Ageing(a) \in ObsAges
  /\ \A a \in ObsAges : a >= ObsWindow => Ageing(a) >= ObsWindow
  /\ ObsWindow \in ObsAges
BY TrilaterationAssumption DEF ObsAges, Ageing

\* At the start, and after a restart, nothing is kept.
LEMMA EmptyKept ==
  (obs = NoObs /\ taken = [n \in Nodes |-> ObsWindow]) => Kept
BY ObsNumbers, FS_EmptySet DEF Kept, NoObs

\* Nothing is kept at the start.
LEMMA ObsInvInit == PipelineInit => ObsInv
BY EmptyKept DEF PipelineInit, TrilatInit, ObsInv, Enough, Distances

\* A reading leaves the observations as they should be, and what is computed from them is
\* computed from the nodes whose last reading is recent.
LEMMA UpdateKeeps ==
  ASSUME Kept, NEW n \in Nodes, NEW reading \in ObsAges, NEW weak \in BOOLEAN, Update(n, reading, weak)
  PROVE  /\ Kept' /\ Enough'
         /\ LET recent == {m \in Nodes : taken'[m] < ObsWindow} IN
              /\ used' # {} => used' = recent
              /\ mlat' = "few" => Cardinality(recent) < MinNodes
<1> DEFINE recent == {m \in Nodes : taken'[m] < ObsWindow}
<1>1. CASE weak
  BY <1>1 DEF Update, Kept, Enough, Distances
<1>2. CASE ~weak
  <2>1. taken' = [taken EXCEPT ![n] = reading] /\ obs' = Recent(Taking(n, reading))
    BY <1>2 DEF Update
  <2>2. DOMAIN Taking(n, reading) = DOMAIN obs \cup {n}
        /\ \A m \in DOMAIN obs \cup {n} : Taking(n, reading)[m] = taken'[m]
    BY <2>1 DEF Taking, Kept
  <2>3. DOMAIN obs' = {m \in DOMAIN obs \cup {n} : taken'[m] < ObsWindow}
        /\ \A m \in DOMAIN obs' : obs'[m] = taken'[m]
    BY <2>1, <2>2 DEF Recent
  <2>11. IsFiniteSet(DOMAIN obs') /\ Cardinality(DOMAIN obs') \in Nat
    <3>1. IsFiniteSet(DOMAIN obs \cup {n})
      BY FS_AddElement DEF Kept
    <3>2. DOMAIN obs' \subseteq DOMAIN obs \cup {n}
      BY <2>3
    <3> QED
      BY <3>1, <3>2, FS_Subset, FS_CardinalityType
  <2>4. taken' \in [Nodes -> ObsAges]
    BY <2>1 DEF Kept
  <2>5. \A m \in Nodes \ (DOMAIN obs \cup {n}) : taken'[m] >= ObsWindow
    BY <2>1 DEF Kept
  <2>6. \A m \in Nodes : taken'[m] \in Int
    BY <2>4, ObsNumbers
  <2>7. DOMAIN obs' = recent
    <3>1. DOMAIN obs \cup {n} \subseteq Nodes
      BY DEF Kept
    <3>2. \A m \in Nodes : taken'[m] >= ObsWindow => ~(taken'[m] < ObsWindow)
      BY <2>6, ObsNumbers
    <3> QED
      BY <2>3, <2>5, <3>1, <3>2
  <2>8. Kept'
    <3>1. \A m \in Nodes : ~(taken'[m] < ObsWindow) => taken'[m] >= ObsWindow
      BY <2>6, ObsNumbers
    <3> QED
      BY <2>3, <2>4, <2>7, <2>11, <3>1 DEF Kept
  <2>9. CASE Cardinality(DOMAIN obs') < MinNodes
    BY <1>2, <2>7, <2>8, <2>9 DEF Update, Enough, Distances
  <2>10. CASE ~(Cardinality(DOMAIN obs') < MinNodes)
    <3>1. used' = DOMAIN obs' /\ mlat' \in Distances \cup {"failed"}
      BY <1>2, <2>10 DEF Update, Compute
    <3>2. mlat' # "few"
      BY <3>1 DEF Distances
    <3>3. Cardinality(DOMAIN obs') >= MinNodes
      BY <2>10, <2>11, ObsNumbers
    <3> QED
      BY <2>7, <2>8, <3>1, <3>2, <3>3 DEF Enough
  <2> QED
    BY <2>9, <2>10
<1> QED
  BY <1>1, <1>2

\* Time passing, and the sweep of what is stale, leave what is recent as it was.
LEMMA TickKeeps == Kept /\ TrilatTick => Kept'
<1> SUFFICES ASSUME Kept, TrilatTick PROVE Kept'
  OBVIOUS
<1>1. DOMAIN obs' = DOMAIN obs /\ \A n \in DOMAIN obs : obs'[n] = Ageing(obs[n])
  BY DEF TrilatTick
<1>2. taken' \in [Nodes -> ObsAges] /\ \A n \in Nodes : taken'[n] = Ageing(taken[n])
  BY ObsNumbers DEF TrilatTick, Kept
<1>3. \A n \in Nodes : n \notin DOMAIN obs => taken'[n] >= ObsWindow
  BY <1>2, ObsNumbers DEF Kept
<1> QED
  BY <1>1, <1>2, <1>3 DEF Kept

\* The sweep drops only what is stale.
LEMMA SweepKeeps == Kept /\ Sweep => Kept'
<1> SUFFICES ASSUME Kept, Sweep PROVE Kept'
  OBVIOUS
<1>1. DOMAIN obs' = {} /\ taken' = taken
  BY DEF Sweep, NoObs
<1>2. \A n \in Nodes : taken[n] >= ObsWindow
  BY DEF Sweep, Kept
<1> QED
  BY <1>1, <1>2, FS_EmptySet DEF Kept

\* Each step keeps the observations as they should be.
LEMMA ObsInvStep == ObsInv /\ [PipelineNext]_pipelineVars => ObsInv'
<1> SUFFICES ASSUME ObsInv, [PipelineNext]_pipelineVars PROVE ObsInv'
  OBVIOUS
<1> USE DEF ObsInv
<1>a. ASSUME UNCHANGED <<obs, taken>>, mlat' = "none" \/ UNCHANGED <<used, mlat>> PROVE ObsInv'
  BY <1>a DEF Kept, Enough, Distances
<1>1. CASE Detected      BY <1>1, <1>a DEF Detected, trilatVars
<1>2. CASE Locate        BY <1>2, UpdateKeeps DEF Locate
<1>3. CASE SelectFails   BY <1>3, <1>a DEF SelectFails, EndRun
<1>4. CASE ScoreRow      BY <1>4, <1>a DEF ScoreRow, trilatVars
<1>5. CASE Persist       BY <1>5, <1>a DEF Persist, trilatVars
<1>6. CASE PersistFails  BY <1>6, <1>a DEF PersistFails, EndRun
<1>7. CASE AlertHigh     BY <1>7, <1>a DEF AlertHigh, trilatVars
<1>8. CASE AlertMismatch BY <1>8, <1>a DEF AlertMismatch, trilatVars
<1>9. CASE Return        BY <1>9, <1>a DEF Return, EndRun
<1>10. CASE PipelineRestart
  <2>1. obs' = NoObs /\ taken' = [n \in Nodes |-> ObsWindow] /\ mlat' = "none"
    BY <1>10 DEF PipelineRestart, EndRun
  <2>2. Kept'
    BY <2>1, ObsNumbers, FS_EmptySet DEF Kept, NoObs
  <2> QED
    BY <2>1, <2>2 DEF Enough, Distances
<1>11. CASE TimePasses
  BY <1>11, TickKeeps DEF TimePasses, TrilatTick, Enough
<1>12. CASE SweepStale
  BY <1>12, SweepKeeps DEF SweepStale, Sweep, Enough
<1>13. CASE UNCHANGED pipelineVars BY <1>13, <1>a DEF pipelineVars, trilatVars
<1> QED
  BY <1>1, <1>2, <1>3, <1>4, <1>5, <1>6, <1>7, <1>8, <1>9, <1>10, <1>11, <1>12, <1>13 DEF PipelineNext

\* What FixFromRecent says of a step.
FixStep ==
  LET recent == {n \in Nodes : taken'[n] < ObsWindow} IN
    /\ used' # {} /\ used' # used => used' = recent
    /\ mlat' = "few" /\ mlat # "few" => Cardinality(recent) < MinNodes
    /\ mlat' \in Distances => Cardinality(used') >= MinNodes

\* A step from a state with the invariant is one that FixFromRecent allows.
LEMMA FixStepHolds == ObsInv /\ ObsInv' /\ [PipelineNext]_pipelineVars => FixStep
<1> SUFFICES ASSUME ObsInv, ObsInv', [PipelineNext]_pipelineVars PROVE FixStep
  OBVIOUS
<1>1. ASSUME used' = {} \/ used' = used, mlat' # "few" \/ mlat' = mlat PROVE FixStep
  BY <1>1 DEF FixStep, ObsInv, Enough
<1>2. CASE Locate
  BY <1>2, UpdateKeeps DEF Locate, FixStep, ObsInv, Enough
<1>3. CASE SelectFails \/ PersistFails \/ Return \/ PipelineRestart
  BY <1>1, <1>3 DEF SelectFails, PersistFails, Return, PipelineRestart, EndRun
<1>4. CASE UNCHANGED <<used, mlat>>
  BY <1>1, <1>4
<1>5. CASE Detected \/ ScoreRow \/ Persist \/ AlertHigh \/ AlertMismatch
  BY <1>4, <1>5 DEF Detected, ScoreRow, Persist, AlertHigh, AlertMismatch, trilatVars
<1>6. CASE TimePasses \/ SweepStale
  BY <1>4, <1>6 DEF TimePasses, SweepStale, TrilatTick, Sweep
<1>7. CASE UNCHANGED pipelineVars
  BY <1>4, <1>7 DEF pipelineVars, trilatVars
<1> QED
  BY <1>2, <1>3, <1>5, <1>6, <1>7 DEF PipelineNext

\* An estimate rests on exactly the nodes whose last accepted reading is recent, and there
\* is one whenever these are enough (TrilaterationEngine.update), for any nodes, window,
\* minimum and clocks.
THEOREM EstimateFromRecent == PipelineSpec => FixFromRecent
<1>1. ObsInv /\ ObsInv' /\ [PipelineNext]_pipelineVars =>
        [ LET recent == {n \in Nodes : taken'[n] < ObsWindow} IN
            /\ used' # {} /\ used' # used => used' = recent
            /\ mlat' = "few" /\ mlat # "few" => Cardinality(recent) < MinNodes
            /\ mlat' \in Distances => Cardinality(used') >= MinNodes ]_trilatVars
  BY FixStepHolds DEF FixStep
<1> QED
  BY <1>1, ObsInvInit, ObsInvStep, PTL DEF PipelineSpec, FixFromRecent

-----------------------------------------------------------------------------
(* The score shown and the alert. *)

\* Eight factors of which the operator ID is not one make 593 tenths of a point at most.
LEMMA NamedNotHigh ==
  ASSUME NEW r \in Rows, NEW d \in Distances \cup {"none"}, r.operator = "full"
  PROVE  Level(Score(r, d)) # "high"
<1>1. NoOperator(r) = 0
  BY DEF NoOperator
<1>2. Mismatch(r, d) \in 0..99
  BY DEF Mismatch, Sigmoid, Distances
<1>3. Altitude(r) \in 0..30
  BY DEF Altitude
<1>4. UaType(r) \in 0..100 /\ FewNodes(r) \in 0..100 /\ Speed(r) \in 0..100
  BY DEF UaType, FewNodes, Speed
<1>5. Stale(r) \in 0..100 /\ NoDescription(r) \in 0..100
  BY DEF Stale, NoDescription
<1>6. PICK m \in 0..99, a \in 0..30 : m = Mismatch(r, d) /\ a = Altitude(r)
  BY <1>2, <1>3
<1>7. PICK u \in 0..100, f \in 0..100, s \in 0..100 :
        u = UaType(r) /\ f = FewNodes(r) /\ s = Speed(r)
  BY <1>4
<1>8. PICK t \in 0..100, n \in 0..100 : t = Stale(r) /\ n = NoDescription(r)
  BY <1>5
<1> DEFINE score == (30 * 0 + 25 * m + 15 * a + 8 * u + 7 * f + 8 * s + 4 * t + 3 * n + 5) \div 10
<1>9. ~(score >= 700)
  OBVIOUS
<1>10. Score(r, d) = score
  BY <1>1, <1>6, <1>7, <1>8 DEF Score
<1> HIDE DEF score
<1> QED
  BY <1>9, <1>10 DEF Level

\* What HighExplained rests on: while nothing failed since the score shown was last below
\* 70, the memory is at the score shown and the alerts at what is told of it, but for the
\* one alert that is about to be inserted; and a full operator ID is never shown high.
Told ==
  ~disturbed =>
    /\ lastScore = (IF shown.level = "high" THEN "high" ELSE "less")
    /\ told = (IF shown.level = "high" /\ step # "alert" THEN 1 ELSE 0)
    /\ step = "alert" => shown.level = "high"

Explained ==
  /\ threat.level = "high" => ~threat.named
  /\ shown.level = "high" => ~shown.named

HighInv == Told /\ Explained

\* Nothing is shown and nothing told at the start.
LEMMA HighInvInit == PipelineInit => HighInv
BY DEF PipelineInit, HighInv, Told, Explained, NoThreat

\* Each step keeps it.
LEMMA HighInvStep == HighInv /\ [PipelineNext]_pipelineVars => HighInv'
<1> SUFFICES ASSUME HighInv, [PipelineNext]_pipelineVars PROVE HighInv'
  OBVIOUS
<1> USE DEF HighInv, Told, Explained
<1>1. CASE Detected      BY <1>1 DEF Detected
<1>2. CASE Locate        BY <1>2 DEF Locate
<1>3. CASE SelectFails   BY <1>3 DEF SelectFails, EndRun, NoThreat
<1>4. CASE ScoreRow
  <2>1. PICK d \in Distances \cup {"none"} : threat' \in ThreatsOf[d]
    BY <1>4 DEF ScoreRow
  <2>2. PICK r \in Rows : threat' = [level |-> Level(Score(r, d)), named |-> r.operator = "full"]
    BY <2>1 DEF ThreatsOf
  <2>3. threat'.level = "high" => ~threat'.named
    BY <2>2, NamedNotHigh
  <2> QED
    BY <1>4, <2>3 DEF ScoreRow
<1>5. CASE Persist
  <2>1. shown' = threat /\ threat' = threat
    BY <1>5 DEF Persist, Show
  <2>2. CASE threat.level # "high"
    BY <1>5, <2>1, <2>2 DEF Persist, Show, Crosses, Remembered
  <2>3. CASE threat.level = "high"
    <3>1. lastScore' = "high" /\ told' = told /\ step = "persist" /\ (~disturbed' => ~disturbed)
      BY <1>5, <2>3 DEF Persist, Show, Remembered
    <3>2. step' = "alert" <=> lastScore = "less"
      BY <1>5, <2>3 DEF Persist, Crosses
    <3> QED
      BY <2>1, <2>3, <3>1, <3>2
  <2> QED
    BY <2>2, <2>3
<1>6. CASE PersistFails
  BY <1>6 DEF PersistFails, EndRun, NoThreat, Show
<1>7. CASE AlertHigh
  <2>1. /\ step = "alert" /\ step' # "alert" /\ shown' = shown /\ threat' = threat
        /\ lastScore' = lastScore
    BY <1>7 DEF AlertHigh
  <2>2. ~disturbed' => ~disturbed /\ told' # told
    BY <1>7 DEF AlertHigh
  <2>3. told = 0 => told' \in {0, 1}
    BY <1>7 DEF AlertHigh, InsertHigh
  <2> QED
    BY <2>1, <2>2, <2>3
<1>8. CASE AlertMismatch BY <1>8 DEF AlertMismatch
<1>9. CASE Return        BY <1>9 DEF Return, EndRun, NoThreat
<1>10. CASE PipelineRestart BY <1>10 DEF PipelineRestart, EndRun, NoThreat
<1>11. CASE TimePasses \/ SweepStale BY <1>11 DEF TimePasses, SweepStale, pipeVars
<1>12. CASE UNCHANGED pipelineVars BY <1>12 DEF pipelineVars, pipeVars
<1> QED
  BY <1>1, <1>2, <1>3, <1>4, <1>5, <1>6, <1>7, <1>8, <1>9, <1>10, <1>11, <1>12 DEF PipelineNext

\* A drone shown as high has had one alert and no more, unless a statement failed or the
\* server restarted, and is none that gave a full operator ID (_run, _maybe_alert, score),
\* for every row the scorer can meet.
THEOREM HighIsExplained == PipelineSpec => []HighExplained
<1>1. HighInv => HighExplained
  BY DEF HighInv, Told, Explained, HighExplained
<1> QED
  BY <1>1, HighInvInit, HighInvStep, PTL DEF PipelineSpec

-----------------------------------------------------------------------------
\* The pipeline, with what ObsInv leaves open.
RunTypes ==
  /\ used \subseteq Nodes /\ mlat \in Distances \cup {"none", "weak", "few", "failed"}
  /\ step \in {"idle", "node", "row", "persist", "alert", "mismatch", "end"}
  /\ threat \in [level: {"low", "medium", "high"}, named: BOOLEAN]
  /\ shown \in [level: {"low", "medium", "high"}, named: BOOLEAN]
  /\ lastScore \in {"high", "less"} /\ ensured \in BOOLEAN /\ columns \in BOOLEAN
  /\ told \in 0..2 /\ disturbed \in BOOLEAN

PipelineAll == ObsInv /\ RunTypes

\* What a score makes of a drone, and what is shown of one without a score.
LEMMA ThreatTypes ==
  /\ NoThreat \in [level: {"low", "medium", "high"}, named: BOOLEAN]
  /\ \A d \in Distances \cup {"none"} :
       ThreatsOf[d] \subseteq [level: {"low", "medium", "high"}, named: BOOLEAN]
<1>1. \A score : Level(score) \in {"low", "medium", "high"}
  BY DEF Level
<1>2. \A r : (r.operator = "full") \in BOOLEAN
  OBVIOUS
<1>3. ASSUME NEW d \in Distances \cup {"none"}, NEW t \in ThreatsOf[d]
      PROVE  t \in [level: {"low", "medium", "high"}, named: BOOLEAN]
  <2>1. PICK r \in Rows : t = [level |-> Level(Score(r, d)), named |-> r.operator = "full"]
    BY <1>3 DEF ThreatsOf
  <2> QED
    BY <1>1, <1>2, <2>1
<1> QED
  BY <1>3 DEF NoThreat

\* The types hold at the start.
LEMMA PipelineAllInit == PipelineInit => PipelineAll
<1> SUFFICES ASSUME PipelineInit PROVE PipelineAll
  OBVIOUS
<1>1. ObsInv
  BY ObsInvInit
<1>2. /\ used = {} /\ mlat = "none" /\ step = "idle" /\ threat = NoThreat /\ shown = NoThreat
      /\ lastScore = "less" /\ ensured = FALSE /\ columns \in BOOLEAN /\ told = 0 /\ disturbed = FALSE
  BY DEF PipelineInit, TrilatInit
<1>3. /\ threat \in [level: {"low", "medium", "high"}, named: BOOLEAN]
      /\ shown \in [level: {"low", "medium", "high"}, named: BOOLEAN]
  BY <1>2, ThreatTypes
<1>4. ensured \in BOOLEAN /\ columns \in BOOLEAN /\ disturbed \in BOOLEAN
  BY <1>2
<1>5. /\ used \subseteq Nodes /\ mlat \in Distances \cup {"none", "weak", "few", "failed"}
      /\ step \in {"idle", "node", "row", "persist", "alert", "mismatch", "end"}
      /\ lastScore \in {"high", "less"} /\ told \in 0..2
  BY <1>2
<1>6. RunTypes
  BY <1>3, <1>4, <1>5 DEF RunTypes
<1> QED
  BY <1>1, <1>6 DEF PipelineAll

\* What an update gives to _compute are nodes.
LEMMA UpdateTypes ==
  ASSUME RunTypes, ObsInv', NEW n, NEW reading, NEW weak \in BOOLEAN, Update(n, reading, weak)
  PROVE  used' \subseteq Nodes /\ mlat' \in Distances \cup {"none", "weak", "few", "failed"}
<1>1. DOMAIN obs' \subseteq Nodes
  BY DEF ObsInv, Kept
<1> QED
  BY <1>1 DEF Update, Compute

\* Each step of a run keeps the types.
LEMMA PipelineAllStep == PipelineAll /\ [PipelineNext]_pipelineVars => PipelineAll'
<1> SUFFICES ASSUME PipelineAll, [PipelineNext]_pipelineVars PROVE PipelineAll'
  OBVIOUS
<1>0. ObsInv' /\ RunTypes
  BY ObsInvStep DEF PipelineAll
<1> SUFFICES RunTypes'
  BY <1>0 DEF PipelineAll
<1> USE DEF RunTypes
<1>1. CASE Detected BY <1>0, <1>1 DEF Detected, trilatVars
<1>2. CASE Locate BY <1>0, <1>2, UpdateTypes DEF Locate
<1>3. CASE SelectFails BY <1>0, <1>3, ThreatTypes DEF SelectFails, EndRun
<1>4. CASE ScoreRow
  <2>1. threat' \in [level: {"low", "medium", "high"}, named: BOOLEAN]
    BY <1>4, ThreatTypes DEF ScoreRow
  <2> QED
    BY <1>0, <1>4, <2>1 DEF ScoreRow, trilatVars
<1>5. CASE Persist
  <2>1. lastScore' \in {"high", "less"} /\ disturbed' \in BOOLEAN
    BY <1>5 DEF Persist, Remembered
  <2>2. shown' = threat /\ told' \in 0..2
    BY <1>0, <1>5 DEF Persist, Show
  <2>3. ensured' \in BOOLEAN /\ columns' \in BOOLEAN
    BY <1>0, <1>5 DEF Persist, EnsureColumns
  <2>4. step' \in {"alert", "mismatch", "end"}
    BY <1>5 DEF Persist
  <2> QED
    BY <1>0, <1>5, <2>1, <2>2, <2>3, <2>4 DEF Persist, trilatVars
<1>6. CASE PersistFails
  <2>1. shown' \in {threat, shown} /\ told' \in 0..2
    BY <1>0, <1>6 DEF PersistFails, Show
  <2>2. ensured' \in BOOLEAN /\ columns' \in BOOLEAN
    BY <1>0, <1>6 DEF PersistFails, EnsureColumns
  <2> QED
    BY <1>0, <1>6, <2>1, <2>2, ThreatTypes DEF PersistFails, EndRun
<1>7. CASE AlertHigh
  <2>1. told' \in 0..2 /\ disturbed' \in BOOLEAN
    BY <1>0, <1>7 DEF AlertHigh, InsertHigh
  <2> QED
    BY <1>0, <1>7, <2>1 DEF AlertHigh, trilatVars
<1>8. CASE AlertMismatch BY <1>0, <1>8 DEF AlertMismatch, trilatVars
<1>9. CASE Return BY <1>0, <1>9, ThreatTypes DEF Return, EndRun
<1>10. CASE PipelineRestart BY <1>0, <1>10, ThreatTypes DEF PipelineRestart, EndRun
<1>11. CASE TimePasses \/ SweepStale
  BY <1>0, <1>11 DEF TimePasses, SweepStale, TrilatTick, Sweep, pipeVars
<1>12. CASE UNCHANGED pipelineVars BY <1>0, <1>12 DEF pipelineVars, trilatVars, pipeVars
<1> QED
  BY <1>1, <1>2, <1>3, <1>4, <1>5, <1>6, <1>7, <1>8, <1>9, <1>10, <1>11, <1>12 DEF PipelineNext

\* They are those of PipelineTypeOK.
LEMMA PipelineTyped == PipelineAll => PipelineTypeOK
<1> SUFFICES ASSUME PipelineAll PROVE PipelineTypeOK
  OBVIOUS
<1>1. \A n \in DOMAIN obs : obs[n] \in ObsAges
  BY DEF PipelineAll, ObsInv, Kept
<1>2. DOMAIN obs \subseteq Nodes /\ taken \in [Nodes -> ObsAges]
  BY DEF PipelineAll, ObsInv, Kept
<1> QED
  BY <1>1, <1>2 DEF PipelineAll, RunTypes, PipelineTypeOK, TrilatTypeOK

-----------------------------------------------------------------------------
(* Induction, for a set of numbers. *)

\* A set of numbers that is not empty has a least one.
LEMMA Least ==
  ASSUME NEW T, T \subseteq Nat, T # {}
  PROVE  \E n \in T : \A m \in T : n <= m
<1> DEFINE R == OpToRel(<, Nat)
<1>1. IsWellFoundedOn(R, Nat)
  BY NatLessThanWellFounded
<1>2. \A n, m \in Nat : <<m, n>> \in R <=> m < n
  BY DEF OpToRel
<1> HIDE DEF R
<1>3. \E n \in T : \A m \in T : ~(<<m, n>> \in R)
  BY <1>1, WFMin
<1>4. PICK n \in T : \A m \in T : ~(<<m, n>> \in R)
  BY <1>3
<1>5. \A m \in T : m \in Nat /\ n \in Nat
  OBVIOUS
<1>6. \A m \in T : ~(m < n)
  BY <1>2, <1>4, <1>5
<1>7. \A m \in T : n <= m
  BY <1>5, <1>6
<1> QED
  BY <1>7

\* A set with 0 and with the successors of its numbers has every number.
LEMMA Induction ==
  ASSUME NEW A, 0 \in A, \A n \in A : n \in Nat => n + 1 \in A
  PROVE  \A n \in Nat : n \in A
<1> SUFFICES ASSUME Nat \ A # {} PROVE FALSE
  OBVIOUS
<1>1. PICK n \in Nat \ A : \A m \in Nat \ A : n <= m
  BY Least
<1>2. n # 0 /\ n \in Nat
  BY <1>1
<1>3. n - 1 \in Nat /\ ~(n <= n - 1)
  BY <1>2
<1>4. n - 1 \in A
  BY <1>1, <1>3
<1>5. (n - 1) + 1 = n
  BY <1>2
<1> QED
  BY <1>1, <1>3, <1>4, <1>5

\* The rounds of the search exist: each is what Halve makes of the one before.
LEMMA SearchRow ==
  ASSUME NEW t, NEW ts, Len(t) \in Nat
  PROVE  \E g : /\ g[0] = <<1, Len(t)>>
                /\ \A i \in 1..Len(t) : g[i] = Halve(t, ts, g[i - 1][1], g[i - 1][2])
                /\ Search(t, ts) = g[Len(t)]
<1> DEFINE Row(n, g) ==
             g = [i \in 0..n |-> IF i = 0 THEN <<1, Len(t)>>
                                 ELSE Halve(t, ts, g[i - 1][1], g[i - 1][2])]
           A == {n \in Nat : \E g : Row(n, g)}
<1>1. 0 \in A
  <2>1. Row(0, [i \in 0..0 |-> <<1, Len(t)>>])
    OBVIOUS
  <2> QED
    BY <2>1
<1>2. ASSUME NEW n \in A PROVE n + 1 \in A
  <2>1. PICK g : Row(n, g)
    OBVIOUS
  <2> DEFINE next == Halve(t, ts, g[n][1], g[n][2])
  <2> HIDE DEF next
  <2> DEFINE h == [i \in 0..(n + 1) |-> IF i = n + 1 THEN next ELSE g[i]]
  <2>2. ASSUME NEW i \in 0..(n + 1)
        PROVE  h[i] = IF i = 0 THEN <<1, Len(t)>> ELSE Halve(t, ts, h[i - 1][1], h[i - 1][2])
    <3>1. CASE i = n + 1
      <4>1. h[i] = next /\ h[n] = g[n] /\ i # 0 /\ i - 1 = n
        BY <3>1
      <4> HIDE DEF h
      <4> QED
        BY <3>1, <4>1 DEF next
    <3>2. CASE i = 0
      BY <2>1, <3>2
    <3>3. CASE i # 0 /\ i # n + 1
      <4>1. i \in 0..n /\ i - 1 \in 0..n
        BY <3>3
      <4>2. h[i] = g[i] /\ h[i - 1] = g[i - 1]
        BY <3>3, <4>1
      <4>3. g[i] = Halve(t, ts, g[i - 1][1], g[i - 1][2])
        BY <2>1, <3>3, <4>1
      <4> HIDE DEF h
      <4> QED
        BY <3>3, <4>2, <4>3
    <3> QED
      BY <3>1, <3>2, <3>3
  <2>3. Row(n + 1, h)
    <3>1. h = [i \in 0..(n + 1) |-> h[i]]
      OBVIOUS
    <3> HIDE DEF h
    <3> QED
      BY <2>2, <3>1
  <2>4. n + 1 \in Nat
    OBVIOUS
  <2> HIDE DEF Row, h
  <2> QED
    BY <2>3, <2>4
<1>3. Len(t) \in A
  <2> HIDE DEF A
  <2> QED
    BY <1>1, <1>2, Induction
<1>4. PICK g : Row(Len(t), g)
  BY <1>3
<1> DEFINE after == CHOOSE h : Row(Len(t), h)
<1>5. Row(Len(t), after)
  BY <1>4
<1>6. Search(t, ts) = after[Len(t)]
  BY DEF Search
<1>7. ASSUME NEW h, Row(Len(t), h)
      PROVE  /\ h[0] = <<1, Len(t)>>
             /\ \A i \in 1..Len(t) : h[i] = Halve(t, ts, h[i - 1][1], h[i - 1][2])
  <2>1. \A i \in 0..Len(t) :
          h[i] = IF i = 0 THEN <<1, Len(t)>> ELSE Halve(t, ts, h[i - 1][1], h[i - 1][2])
    BY <1>7
  <2>2. \A i \in 1..Len(t) : i \in 0..Len(t) /\ i # 0
    OBVIOUS
  <2> HIDE DEF Row
  <2> QED
    BY <2>1, <2>2
<1> HIDE DEF Row, after
<1>8. /\ after[0] = <<1, Len(t)>>
      /\ \A i \in 1..Len(t) : after[i] = Halve(t, ts, after[i - 1][1], after[i - 1][2])
  BY <1>5, <1>7
<1> QED
  BY <1>6, <1>8

-----------------------------------------------------------------------------
(* Calibration: the search. *)

\* The bounds and the times are natural numbers.
LEMMA CalNumbers ==
  /\ Times \subseteq Nat /\ MaxTrack \in Nat /\ MaxDetections \in Nat /\ MaxRuns \in Nat
BY CalAssumption

\* Two points of a track that enclose a time.
Encloses(t, ts, s) ==
  /\ s = <<s[1], s[2]>>
  /\ s[1] \in 1..Len(t) /\ s[2] \in 1..Len(t) /\ s[1] <= s[2]
  /\ t[s[1]] <= ts /\ ts <= t[s[2]]

\* A round keeps them so and brings them nearer, unless they are neighbours.
LEMMA HalveKeeps ==
  ASSUME NEW t, Len(t) \in Nat, \A i \in 1..Len(t) : t[i] \in Nat, NEW ts \in Nat,
         NEW s, Encloses(t, ts, s), NEW r, r = Halve(t, ts, s[1], s[2])
  PROVE  /\ Encloses(t, ts, r)
         /\ s[2] <= s[1] + 1 => r = s
         /\ ~(s[2] <= s[1] + 1) => r[2] - r[1] < s[2] - s[1]
<1>1. /\ s = <<s[1], s[2]>>
      /\ s[1] \in 1..Len(t) /\ s[2] \in 1..Len(t) /\ s[1] <= s[2]
      /\ t[s[1]] <= ts /\ ts <= t[s[2]]
  BY DEF Encloses
<1>2. CASE s[2] <= s[1] + 1
  <2>1. s[1] + 1 >= s[2]
    BY <1>1, <1>2
  <2>2. r = <<s[1], s[2]>>
    BY <2>1, Zenon DEF Halve
  <2>3. r = s
    BY <1>1, <2>2
  <2> QED
    BY <1>2, <2>3
<1>3. CASE ~(s[2] <= s[1] + 1)
  <2> DEFINE mid == (s[1] + s[2]) \div 2
  <2>1. mid \in 1..Len(t) /\ s[1] < mid /\ mid < s[2]
    BY <1>1, <1>3
  <2>2. ~(s[1] + 1 >= s[2])
    BY <1>1, <1>3
  <2>3. r = IF t[mid] <= ts THEN <<mid, s[2]>> ELSE <<s[1], mid>>
    BY <2>2, Zenon DEF Halve
  <2> HIDE DEF mid
  <2>4. CASE t[mid] <= ts
    <3>1. r = <<mid, s[2]>>
      BY <2>3, <2>4
    <3>2. r[1] = mid /\ r[2] = s[2]
      BY <3>1
    <3> QED
      BY <1>1, <1>3, <2>1, <2>4, <3>1, <3>2 DEF Encloses
  <2>5. CASE ~(t[mid] <= ts)
    <3>1. r = <<s[1], mid>>
      BY <2>3, <2>5
    <3>2. r[1] = s[1] /\ r[2] = mid
      BY <3>1
    <3>3. ts <= t[mid]
      BY <2>1, <2>5
    <3> QED
      BY <1>1, <1>3, <2>1, <3>1, <3>2, <3>3 DEF Encloses
  <2> QED
    BY <2>4, <2>5
<1> QED
  BY <1>2, <1>3

\* The search returns neighbours, or the one point there is, that enclose the time.
LEMMA SearchFinds ==
  ASSUME NEW t, Len(t) \in Nat, Len(t) > 0, \A i \in 1..Len(t) : t[i] \in Nat,
         NEW ts \in Nat, t[1] <= ts, ts <= t[Len(t)]
  PROVE  Encloses(t, ts, Search(t, ts)) /\ Search(t, ts)[2] <= Search(t, ts)[1] + 1
<1>1. PICK g : /\ g[0] = <<1, Len(t)>>
               /\ \A i \in 1..Len(t) : g[i] = Halve(t, ts, g[i - 1][1], g[i - 1][2])
               /\ Search(t, ts) = g[Len(t)]
  BY SearchRow
<1> DEFINE Near(n, s) == s[2] <= s[1] + 1 \/ s[2] - s[1] < Len(t) - n
           A == {n \in Nat : n <= Len(t) => Encloses(t, ts, g[n]) /\ Near(n, g[n])}
<1>2. 0 \in A
  <2>1. g[0] = <<1, Len(t)>> /\ g[0][1] = 1 /\ g[0][2] = Len(t)
    BY <1>1
  <2>2. Encloses(t, ts, g[0])
    BY <2>1 DEF Encloses
  <2>3. Near(0, g[0])
    BY <2>1
  <2> QED
    BY <2>2, <2>3
<1>3. ASSUME NEW n \in A, n \in Nat PROVE n + 1 \in A
  <2>1. CASE n + 1 <= Len(t)
    <3>1. n + 1 \in 1..Len(t) /\ (n + 1) - 1 = n /\ n <= Len(t)
      BY <1>3, <2>1
    <3>2. Encloses(t, ts, g[n]) /\ Near(n, g[n])
      BY <1>3, <3>1
    <3>3. g[n + 1] = Halve(t, ts, g[n][1], g[n][2])
      <4> HIDE DEF Near
      <4> QED
        BY <1>1, <3>1
    <3>4. /\ Encloses(t, ts, g[n + 1])
          /\ g[n][2] <= g[n][1] + 1 => g[n + 1] = g[n]
          /\ ~(g[n][2] <= g[n][1] + 1) => g[n + 1][2] - g[n + 1][1] < g[n][2] - g[n][1]
      BY <3>2, <3>3, HalveKeeps
    <3>5. /\ g[n][1] \in Nat /\ g[n][2] \in Nat
          /\ g[n + 1][1] \in Nat /\ g[n + 1][2] \in Nat
      BY <3>2, <3>4 DEF Encloses
    <3>6. Near(n + 1, g[n + 1])
      <4>1. CASE g[n][2] <= g[n][1] + 1
        BY <3>4, <4>1
      <4>2. CASE ~(g[n][2] <= g[n][1] + 1)
        <5>1. PICK w \in Int, v \in Int : w = g[n][2] - g[n][1] /\ v = g[n + 1][2] - g[n + 1][1]
          <6>1. g[n][2] - g[n][1] \in Int /\ g[n + 1][2] - g[n + 1][1] \in Int
            BY <3>5
          <6> QED
            BY <6>1, Zenon
        <5>2. w < Len(t) - n
          BY <3>2, <4>2, <5>1
        <5>3. v < w
          BY <3>4, <4>2, <5>1
        <5>4. v < Len(t) - (n + 1)
          BY <1>3, <5>2, <5>3
        <5> QED
          BY <5>1, <5>4
      <4> QED
        BY <4>1, <4>2
    <3> QED
      BY <1>3, <3>4, <3>6
  <2>2. CASE ~(n + 1 <= Len(t))
    BY <1>3, <2>2
  <2> QED
    BY <2>1, <2>2
<1>4. Len(t) \in A
  <2> HIDE DEF A
  <2> QED
    BY <1>2, <1>3, Induction
<1>5. Encloses(t, ts, g[Len(t)]) /\ Near(Len(t), g[Len(t)])
  <2>1. Len(t) <= Len(t)
    OBVIOUS
  <2> QED
    BY <1>4, <2>1
<1>6. g[Len(t)][1] <= g[Len(t)][2] /\ g[Len(t)][1] \in Nat /\ g[Len(t)][2] \in Nat
  BY <1>5 DEF Encloses
<1>7. g[Len(t)][2] <= g[Len(t)][1] + 1
  BY <1>5, <1>6
<1> HIDE DEF Near, A
<1> QED
  BY <1>1, <1>5, <1>7

-----------------------------------------------------------------------------
(* Calibration: the tool, the file and the server. *)

\* The tool at work: how many samples there can be, that a run that is under way will
\* still be counted, and that nothing is left of one that has ended.
ToolInv ==
  /\ looked \in 0..MaxDetections
  /\ samples \in [CalNodes -> [usable: 0..looked, other: 0..looked]]
  /\ tool # "idle" => finished < MaxRuns
  /\ tool = "idle" => bracket = NoBracket

\* The file holds the last run that has finished, unless one is writing it or died at it.
FileInv ==
  tool # "close" /\ ~died => file = IF finished = 0 THEN Absent ELSE Of(finished)

\* So does the copy in an image, of the runs finished when it was built.
ImageInv == image.quiet => image.file = IF image.runs = 0 THEN Absent ELSE Of(image.runs)

CalInv == CalTypeOK /\ ToolInv /\ Bracketed /\ FileInv /\ ServedWhole /\ ImageInv

\* The tracks, by the lengths and the times of their points.
LEMMA TrackFacts ==
  ASSUME NEW t \in Tracks
  PROVE  Len(t) \in 0..MaxTrack /\ \A i \in 1..Len(t) : t[i] \in Times /\ t[i] \in Nat
<1>1. PICK k \in 0..MaxTrack : t \in [1..k -> Times]
  BY DEF Tracks
<1>2. k \in Nat /\ MaxTrack \in Nat /\ Times \subseteq Nat
  BY CalNumbers
<1>3. t \in Seq(Times) /\ Len(t) = k
  BY <1>1, <1>2
<1>4. \A i \in 1..k : t[i] \in Times
  BY <1>1
<1> QED
  BY <1>2, <1>3, <1>4

\* A track with no points is one.
LEMMA EmptyTrack == <<>> \in Tracks
<1>1. 0 \in 0..MaxTrack
  BY CalNumbers
<1>2. <<>> \in [1..0 -> Times] /\ \A i \in 1..(0 - 1) : <<>>[i] <= <<>>[i + 1]
  OBVIOUS
<1> QED
  BY <1>1, <1>2 DEF Tracks

\* What the file and the cache hold is told apart.
LEMMA FileKinds ==
  /\ \A n : /\ Of(n) # Absent /\ Of(n) # Empty /\ Of(n) # Cut /\ Of(n) # Defaults
            /\ \A m : Of(n) = Of(m) => n = m
  /\ Absent # Empty /\ Absent # Cut /\ Empty # Cut /\ Defaults # Cut
BY DEF Of, Absent, Empty, Cut, Defaults

\* No samples are within any bound.
LEMMA NoSamplesType == \A n \in Nat : NoSamples \in [CalNodes -> [usable: 0..n, other: 0..n]]
BY DEF NoSamples

\* The tool is idle, there is no file, and the server has loaded nothing, at the start.
LEMMA CalInvInit == CalInit => CalInv
<1> SUFFICES ASSUME CalInit PROVE CalInv
  OBVIOUS
<1>1. /\ tool = "idle" /\ track = <<>> /\ looked = 0 /\ samples = NoSamples
      /\ fitted = NoFit /\ bracket = NoBracket /\ finished = 0 /\ file = Absent /\ died = FALSE
      /\ loaded = FALSE /\ cached = Defaults /\ loadedAt = 0 /\ undisturbed = TRUE
      /\ shared \in BOOLEAN /\ image = NoCopy
  BY DEF CalInit, NotLoaded
<1>2. 0 \in 0..MaxRuns /\ 0 \in 0..MaxTrack /\ 0 \in 0..MaxDetections
  BY CalNumbers
<1>3. samples \in [CalNodes -> [usable: 0..MaxDetections, other: 0..MaxDetections]]
      /\ samples \in [CalNodes -> [usable: 0..looked, other: 0..looked]]
  BY <1>1, NoSamplesType, CalNumbers
<1>4. bracket \in [at: Times \cup {0}, from: 0..MaxTrack, to: 0..MaxTrack]
  BY <1>1, <1>2 DEF NoBracket
<1>5. DOMAIN fitted = {}
  BY <1>1 DEF NoFit
<1>6. CalTypeOK
  <2>1. NoCopy \in [file: Files, runs: 0..MaxRuns, quiet: BOOLEAN]
    BY <1>2 DEF NoCopy, Files
  <2>2. file \in Files
    BY <1>1 DEF Files
  <2> QED
    BY <1>1, <1>2, <1>3, <1>4, <1>5, <2>1, <2>2, EmptyTrack DEF CalTypeOK
<1>7. ImageInv
  BY <1>1 DEF ImageInv, NoCopy
<1> QED
  BY <1>1, <1>2, <1>3, <1>6, <1>7 DEF CalInv, ToolInv, Bracketed, FileInv, ServedWhole

\* The tool leaves: what it kept is gone.
LEMMA ToolEnds ==
  ASSUME CalInv, EndTool
  PROVE  /\ tool' = "idle" /\ track' \in Tracks /\ looked' = 0 /\ bracket' = NoBracket
         /\ samples' \in [CalNodes -> [usable: 0..0, other: 0..0]]
         /\ samples' \in [CalNodes -> [usable: 0..MaxDetections, other: 0..MaxDetections]]
         /\ DOMAIN fitted' \subseteq CalNodes
         /\ \A n \in DOMAIN fitted' : fitted'[n] \in {"own", "global"}
         /\ bracket' \in [at: Times \cup {0}, from: 0..MaxTrack, to: 0..MaxTrack]
<1>1. /\ tool' = "idle" /\ track' = <<>> /\ looked' = 0 /\ samples' = NoSamples
      /\ fitted' = NoFit /\ bracket' = NoBracket
  BY DEF EndTool
<1>2. samples' \in [CalNodes -> [usable: 0..MaxDetections, other: 0..MaxDetections]]
      /\ samples' \in [CalNodes -> [usable: 0..0, other: 0..0]]
  BY <1>1, NoSamplesType, CalNumbers
<1>3. DOMAIN fitted' = {}
  BY <1>1 DEF NoFit
<1>4. bracket' \in [at: Times \cup {0}, from: 0..MaxTrack, to: 0..MaxTrack]
  BY <1>1, CalNumbers DEF NoBracket
<1> QED
  BY <1>1, <1>2, <1>3, <1>4, EmptyTrack

\* One sample more.
LEMMA Counted ==
  ASSUME NEW n \in Nat, NEW r \in [usable: 0..n, other: 0..n], NEW range \in {"usable", "other"}
  PROVE  [r EXCEPT ![range] = @ + 1] \in [usable: 0..n + 1, other: 0..n + 1]
<1> DEFINE x == [r EXCEPT ![range] = @ + 1]
<1>1. r = [f \in {"usable", "other"} |-> r[f]] /\ r["usable"] \in 0..n /\ r["other"] \in 0..n
  OBVIOUS
<1>2. x = [f \in {"usable", "other"} |-> IF f = range THEN r[range] + 1 ELSE r[f]]
  BY <1>1
<1>3. x["usable"] \in 0..n + 1 /\ x["other"] \in 0..n + 1
  BY <1>1, <1>2
<1>4. x = [f \in {"usable", "other"} |-> x[f]]
  BY <1>2
<1> HIDE DEF x
<1>5. x = [usable |-> x["usable"], other |-> x["other"]]
  BY <1>4
<1>6. x \in [usable: 0..n + 1, other: 0..n + 1]
  BY <1>3, <1>5
<1> QED
  BY <1>6 DEF x

\* A sample is counted, and placed between two neighbours that enclose it.
LEMMA SampleBuilt ==
  ASSUME CalInv, BuildSample
  PROVE  CalInv'
<1>1. /\ tool = "build" /\ looked < MaxDetections /\ looked' = looked + 1
      /\ UNCHANGED <<tool, track, fitted, finished, file, died, loaded, cached, loadedAt,
                     undisturbed, shared, image>>
  BY DEF BuildSample, fileVars, calServerVars, imageVars
<1>2. PICK n \in CalNodes, ts \in Times, range \in {"usable", "other"} :
        /\ HasTruth(track, ts)
        /\ bracket' = [at |-> ts, from |-> Search(track, ts)[1], to |-> Search(track, ts)[2]]
        /\ samples' = [samples EXCEPT ![n][range] = @ + 1]
  BY Zenon DEF BuildSample
<1>3. /\ track \in Tracks /\ looked \in 0..MaxDetections
      /\ samples \in [CalNodes -> [usable: 0..looked, other: 0..looked]]
  BY DEF CalInv, CalTypeOK, ToolInv
<1>4. Len(track) \in 0..MaxTrack /\ (\A i \in 1..Len(track) : track[i] \in Times /\ track[i] \in Nat)
      /\ MaxTrack \in Nat
  BY <1>3, TrackFacts, CalNumbers
<1>5. track # <<>> /\ track[1] <= ts /\ ts <= track[Len(track)] /\ ts \in Nat
  BY <1>2, CalNumbers DEF HasTruth
<1>6. Len(track) > 0 /\ Len(track) \in Nat
  <2>1. PICK k \in 0..MaxTrack : track \in [1..k -> Times]
    BY <1>3 DEF Tracks
  <2>2. k \in Nat /\ track \in Seq(Times)
    BY <1>4, <2>1
  <2> QED
    BY <1>4, <1>5, <2>2
<1> DEFINE s == Search(track, ts)
<1>7. Encloses(track, ts, s) /\ s[2] <= s[1] + 1
  BY <1>4, <1>5, <1>6, SearchFinds
<1> HIDE DEF s
<1>8. bracket' = [at |-> ts, from |-> s[1], to |-> s[2]]
  BY <1>2 DEF s
<1>9. Bracketed'
  <2>1. /\ track[s[1]] <= ts /\ ts <= track[s[2]]
    BY <1>7 DEF Encloses
  <2>2. bracket'.at = ts /\ bracket'.from = s[1] /\ bracket'.to = s[2] /\ track' = track
    BY <1>1, <1>8
  <2> QED
    BY <1>7, <2>1, <2>2 DEF Bracketed
<1>10. bracket' \in [at: Times \cup {0}, from: 0..MaxTrack, to: 0..MaxTrack]
  <2>1. s[1] \in 0..MaxTrack /\ s[2] \in 0..MaxTrack
    BY <1>4, <1>7 DEF Encloses
  <2> QED
    BY <1>2, <1>8, <2>1
<1>11. looked' \in 0..MaxDetections
  BY <1>1, <1>3, CalNumbers
<1>12. /\ samples' \in [CalNodes -> [usable: 0..looked', other: 0..looked']]
       /\ samples' \in [CalNodes -> [usable: 0..MaxDetections, other: 0..MaxDetections]]
  <2>1. \A m \in CalNodes : samples[m] \in [usable: 0..looked, other: 0..looked]
    BY <1>3
  <2>3. samples' = [m \in CalNodes |->
                      IF m = n THEN [samples[n] EXCEPT ![range] = @ + 1] ELSE samples[m]]
    BY <1>2, <1>3
  <2>4. [samples[n] EXCEPT ![range] = @ + 1] \in [usable: 0..looked', other: 0..looked']
    BY <1>1, <1>3, <2>1, Counted
  <2>5. \A m \in CalNodes : samples[m] \in [usable: 0..looked', other: 0..looked']
    <3>1. [usable: 0..looked, other: 0..looked] \subseteq [usable: 0..looked', other: 0..looked']
      <4>1. 0..looked \subseteq 0..looked'
        BY <1>1, <1>3
      <4> QED
        BY <4>1
    <3> QED
      BY <2>1, <3>1
  <2>6. samples' \in [CalNodes -> [usable: 0..looked', other: 0..looked']]
    BY <2>3, <2>4, <2>5
  <2>7. 0..looked' \subseteq 0..MaxDetections
    BY <1>11, CalNumbers
  <2>8. [usable: 0..looked', other: 0..looked'] \subseteq
          [usable: 0..MaxDetections, other: 0..MaxDetections]
    BY <2>7
  <2> QED
    BY <2>6, <2>8
<1>13. CalTypeOK'
  BY <1>1, <1>10, <1>11, <1>12 DEF CalInv, CalTypeOK
<1>14. ToolInv'
  BY <1>1, <1>11, <1>12 DEF CalInv, ToolInv
<1> QED
  BY <1>1, <1>9, <1>13, <1>14 DEF CalInv, FileInv, ServedWhole, ImageInv

\* What is on the disk is of the runs it says, unless it was disturbed.
LEMMA DiskFacts ==
  ASSUME CalInv
  PROVE  /\ OnDisk \in [file: Files, runs: 0..MaxRuns, quiet: BOOLEAN]
         /\ OnDisk.quiet => OnDisk.file = IF OnDisk.runs = 0 THEN Absent ELSE Of(OnDisk.runs)
<1>1. file \in Files /\ finished \in 0..MaxRuns /\ FileInv
  BY DEF CalInv, CalTypeOK
<1>2. (tool # "close" /\ ~died) \in BOOLEAN
  OBVIOUS
<1>3. OnDisk.file = file /\ OnDisk.runs = finished /\ OnDisk.quiet = (tool # "close" /\ ~died)
  BY DEF OnDisk
<1>4. OnDisk \in [file: Files, runs: 0..MaxRuns, quiet: BOOLEAN]
  BY <1>1, <1>2 DEF OnDisk
<1> QED
  BY <1>1, <1>3, <1>4 DEF FileInv

\* Each step keeps the invariant.
LEMMA CalInvStep == CalInv /\ [CalNext]_calVars => CalInv'
<1> SUFFICES ASSUME CalInv, [CalNext]_calVars PROVE CalInv'
  OBVIOUS
<1> USE DEF toolVars, fileVars, calServerVars, imageVars
<1>a. ASSUME EndTool, UNCHANGED <<finished, loaded, cached, loadedAt, undisturbed, shared, image>>,
             file' \in Files, died' \in BOOLEAN,
             FileInv'
      PROVE  CalInv'
  <2>1. CalTypeOK'
    BY <1>a, ToolEnds, CalNumbers DEF CalInv, CalTypeOK
  <2>2. ToolInv'
    BY <1>a, ToolEnds, CalNumbers DEF CalInv, ToolInv
  <2>3. Bracketed'
    BY <1>a, ToolEnds DEF Bracketed, NoBracket
  <2> QED
    BY <1>a, <2>1, <2>2, <2>3 DEF CalInv, ServedWhole, ImageInv
<1>1. CASE StartTool
  <2>1. bracket' = NoBracket
    BY <1>1 DEF StartTool, CalInv, ToolInv
  <2> QED
    BY <1>1, <2>1 DEF StartTool, CalInv, CalTypeOK, ToolInv, Bracketed, FileInv, ServedWhole, ImageInv
<1>2. CASE SkipDetection
  <2>1. /\ looked \in 0..MaxDetections /\ looked' = looked + 1 /\ looked < MaxDetections
        /\ samples \in [CalNodes -> [usable: 0..looked, other: 0..looked]]
        /\ tool = "build"
        /\ UNCHANGED <<tool, track, samples, fitted, bracket, finished, file, died, loaded, cached,
                       loadedAt, undisturbed, shared, image>>
    BY <1>2 DEF SkipDetection, CalInv, ToolInv
  <2>2. looked' \in 0..MaxDetections /\ 0..looked \subseteq 0..looked'
    BY <2>1, CalNumbers
  <2>3. [usable: 0..looked, other: 0..looked] \subseteq [usable: 0..looked', other: 0..looked']
    BY <2>2
  <2>4. samples' \in [CalNodes -> [usable: 0..looked', other: 0..looked']]
    BY <2>1, <2>3
  <2>5. CalTypeOK'
    BY <2>1, <2>2 DEF CalInv, CalTypeOK
  <2>6. ToolInv'
    BY <2>1, <2>2, <2>4 DEF CalInv, ToolInv
  <2> QED
    BY <2>1, <2>5, <2>6 DEF CalInv, Bracketed, FileInv, ServedWhole, ImageInv
<1>3. CASE BuildSample
  BY <1>3, SampleBuilt
<1>4. CASE EndBuild
  <2>1. CASE EndTool
    <3>1. FileInv'
      BY <1>4, <2>1, ToolEnds DEF EndBuild, CalInv, FileInv
    <3> QED
      BY <1>4, <1>a, <2>1, <3>1 DEF EndBuild, CalInv, CalTypeOK
  <2>2. CASE ~EndTool
    <3>1. /\ tool = "build" /\ tool' = "fit" /\ track' = <<>> /\ bracket' = NoBracket
          /\ UNCHANGED <<looked, samples, fitted, finished, file, died, loaded, cached, loadedAt,
                         undisturbed, shared, image>>
      BY <1>4, <2>2 DEF EndBuild
    <3>2. bracket' \in [at: Times \cup {0}, from: 0..MaxTrack, to: 0..MaxTrack]
      BY <3>1, CalNumbers DEF NoBracket
    <3> QED
      BY <3>1, <3>2, EmptyTrack
         DEF CalInv, CalTypeOK, ToolInv, Bracketed, FileInv, ServedWhole, ImageInv
  <2> QED
    BY <2>1, <2>2
<1>5. CASE Fit
  <2>1. DOMAIN fitted' \subseteq CalNodes
        /\ \A n \in DOMAIN fitted' : fitted'[n] \in {"own", "global"}
    BY <1>5 DEF Fit
  <2>2. /\ tool = "fit" /\ tool' = "write"
        /\ UNCHANGED <<track, looked, samples, bracket, finished, file, died, loaded, cached,
                       loadedAt, undisturbed, shared, image>>
    BY <1>5 DEF Fit
  <2> QED
    BY <2>1, <2>2 DEF CalInv, CalTypeOK, ToolInv, Bracketed, FileInv, ServedWhole, ImageInv
<1>6. CASE LeaveFile
  <2>1. FileInv'
    BY <1>6, ToolEnds DEF LeaveFile, CalInv, FileInv
  <2> QED
    BY <1>6, <1>a, <2>1 DEF LeaveFile, CalInv, CalTypeOK
<1>7. CASE OpenFile
  <2>1. CASE ~MeansExist
    <3>1. EndTool /\ tool = "write"
          /\ UNCHANGED <<file, died, finished, loaded, cached, loadedAt, undisturbed, shared, image>>
      BY <1>7, <2>1 DEF OpenFile
    <3>2. FileInv'
      BY <3>1, ToolEnds DEF CalInv, FileInv
    <3> QED
      BY <1>a, <3>1, <3>2 DEF CalInv, CalTypeOK
  <2>2. CASE MeansExist
    BY <1>7, <2>2 DEF OpenFile, CalInv, CalTypeOK, Files, ToolInv, Bracketed, FileInv, ServedWhole, ImageInv
  <2> QED
    BY <2>1, <2>2
<1>8. CASE WritePart
  BY <1>8 DEF WritePart, CalInv, CalTypeOK, Files, ToolInv, Bracketed, FileInv, ServedWhole, ImageInv
<1>9. CASE CloseFile
  <2>1. /\ tool = "close" /\ EndTool /\ finished' = finished + 1 /\ file' = Of(finished + 1)
        /\ UNCHANGED <<died, loaded, cached, loadedAt, undisturbed, shared, image>>
    BY <1>9 DEF CloseFile
  <2>2. finished \in 0..MaxRuns /\ finished < MaxRuns
    BY <2>1 DEF CalInv, CalTypeOK, ToolInv
  <2>3. finished' \in 1..MaxRuns /\ finished' # 0
    BY <2>1, <2>2, CalNumbers
  <2>4. CalTypeOK'
    BY <2>1, <2>3, ToolEnds, CalNumbers DEF CalInv, CalTypeOK, Files
  <2>5. ToolInv'
    BY <2>1, ToolEnds, CalNumbers DEF ToolInv
  <2>6. Bracketed'
    BY <2>1, ToolEnds DEF Bracketed
  <2>7. FileInv'
    BY <2>1, <2>3 DEF FileInv
  <2> QED
    BY <2>1, <2>4, <2>5, <2>6, <2>7 DEF CalInv, ServedWhole, ImageInv
<1>10. CASE KillTool
  <2>1. /\ tool # "idle" /\ EndTool /\ died' = (died \/ tool = "close")
        /\ UNCHANGED <<finished, file, loaded, cached, loadedAt, undisturbed, shared, image>>
    BY <1>10 DEF KillTool
  <2>2. FileInv'
    BY <2>1 DEF CalInv, FileInv
  <2> QED
    BY <1>a, <2>1, <2>2 DEF CalInv, CalTypeOK
<1>11. CASE LoadCalibration
  <2> DEFINE f == ServerFile.file
             n == ServerFile.runs
  <2>1. /\ UNCHANGED <<tool, track, looked, samples, fitted, bracket, finished, file, died,
                      shared, image>>
        /\ loadedAt' = n /\ loaded' = TRUE /\ undisturbed' = ServerFile.quiet
    BY <1>11 DEF LoadCalibration
  <2>2. /\ f \in {Absent, Empty} => cached' = Defaults
        /\ f = Cut => cached' \in {Defaults, Cut}
        /\ f \notin {Absent, Empty, Cut} => cached' = f
    BY <1>11, FileKinds DEF LoadCalibration
  <2>3. /\ ServerFile \in [file: Files, runs: 0..MaxRuns, quiet: BOOLEAN]
        /\ ServerFile.quiet => f = IF n = 0 THEN Absent ELSE Of(n)
    BY DiskFacts DEF ServerFile, CalInv, CalTypeOK, ImageInv
  <2>4. f \in Files /\ n \in 0..MaxRuns /\ ServerFile.quiet \in BOOLEAN
    BY <2>3
  <2> HIDE DEF f, n
  <2>5. cached' \in {Defaults, Cut} \cup {Of(m) : m \in 1..MaxRuns}
    BY <2>2, <2>4 DEF Files
  <2>6. ServedWhole'
    BY <2>1, <2>2, <2>3, FileKinds DEF ServedWhole
  <2>7. CalTypeOK'
    BY <2>1, <2>4, <2>5 DEF CalInv, CalTypeOK
  <2>8. ToolInv' /\ Bracketed' /\ FileInv' /\ ImageInv'
    BY <2>1 DEF CalInv, ToolInv, Bracketed, FileInv, ImageInv
  <2> QED
    BY <2>6, <2>7, <2>8 DEF CalInv
<1>12. CASE RestartServer \/ BuildImage
  <2>1. /\ UNCHANGED <<tool, track, looked, samples, fitted, bracket, finished, file, died, shared>>
        /\ loaded' = FALSE /\ cached' = Defaults /\ loadedAt' = 0 /\ undisturbed' = TRUE
        /\ image' = image \/ image' = OnDisk
    BY <1>12 DEF RestartServer, BuildImage, Unload
  <2>2. 0 \in 0..MaxRuns
    BY CalNumbers
  <2>3. image' \in [file: Files, runs: 0..MaxRuns, quiet: BOOLEAN] /\ ImageInv'
    BY <2>1, DiskFacts DEF CalInv, CalTypeOK, ImageInv
  <2>4. CalTypeOK'
    BY <2>1, <2>2, <2>3 DEF CalInv, CalTypeOK
  <2>5. ToolInv' /\ Bracketed' /\ FileInv'
    BY <2>1 DEF CalInv, ToolInv, Bracketed, FileInv
  <2> QED
    BY <2>1, <2>3, <2>4, <2>5 DEF CalInv, ServedWhole
<1>13. CASE UNCHANGED calVars
  BY <1>13 DEF calVars, CalInv, CalTypeOK, ToolInv, Bracketed, FileInv, ServedWhole, ImageInv
<1> QED
  BY <1>1, <1>2, <1>3, <1>4, <1>5, <1>6, <1>7, <1>8, <1>9, <1>10, <1>11, <1>12, <1>13 DEF CalNext

\* Every distance that is fitted is taken between the two neighbouring points of the track
\* that enclose the detection (interpolate_truth), and what was fitted reaches a server that
\* reads the file, or the copy its image was built with, whole or not at all
\* (write_calibration_yaml, _load_calibration), for any track, nodes and numbers of samples
\* and runs; nothing is said of a copy that is older than the last run.
THEOREM CalibrationIsSound == CalSpec => []CalibrationSound
<1>1. CalInv => CalibrationSound
  BY DEF CalInv, CalibrationSound
<1> QED
  BY <1>1, CalInvInit, CalInvStep, PTL DEF CalSpec
=============================================================================
