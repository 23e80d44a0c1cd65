---------------------------- MODULE Calibration ----------------------------
(***************************************************************************)
(* The calibration tool (calibration/calibrate.py with collector.py,       *)
(* engine.py and config_writer.py) and the server that uses the file it    *)
(* writes (_load_calibration and _node_params of                           *)
(* aegis-server/analysis/trilateration.py).                                *)
(*                                                                         *)
(* Times are integers; the place of the drone is what lies between two     *)
(* points of the track.  The regression is left out but for which samples  *)
(* go into the parameters of a node.  The tool asks for more detections    *)
(* than GET /api/detections gives out at once; it is modelled with a       *)
(* server that answers.                                                    *)
(*                                                                         *)
(* The tool writes the file into the checkout.  A server that runs there,  *)
(* or whose ARGUS_CALIBRATION_PATH names the file, reads it; the container *)
(* of docker/docker-compose.yml has neither and reads the copy that came   *)
(* with its image (docker/Dockerfile 11).  Both are modelled.              *)
(***************************************************************************)
EXTENDS Integers, Sequences, FiniteSets
LOCAL INSTANCE FiniteSetsExt

CONSTANTS
  CalNodes,
  Times,          \* times of track points and detections
  MaxTrack,       \* bound of the model: points of a track
  MaxDetections,  \* bound of the model: detections looked at
  MinSamples,     \* MIN_SAMPLES_PER_NODE
  Gap,            \* max_interp_gap_s
  MaxRuns         \* bound of the model: runs of the tool that write the file

ASSUME CalAssumption ==
  /\ Times \subseteq Nat /\ MaxTrack \in Nat /\ MaxDetections \in Nat
  /\ MinSamples \in Nat \ {0} /\ Gap \in Nat /\ MaxRuns \in Nat

\* What the parsers return: the points that could be read, sorted by time.
Tracks ==
  UNION {{t \in [1..k -> Times] : \A i \in 1..(k - 1) : t[i] <= t[i + 1]} : k \in 0..MaxTrack}

VARIABLES
  tool,       \* place of main(): "idle", "build", "fit", "write" or "close"
  track,      \* truth_track, by the times of its points
  looked,     \* detections looked at
  samples,    \* by node: how many in range for a fit of its own, and how many not
  fitted,     \* results: by node, "own" or "global"
  finished,   \* history: runs that have written the file
  file,       \* calibration.yaml: Absent, Empty, Cut within a section, or Of a run
  died        \* history: the last run that opened the file died before it was written

VARIABLES
  bracket,    \* history: what the last sample was interpolated between: [at, from, to]
  shared,     \* the server reads the file itself, not a copy in its image
  image,      \* the copy: what was on the disk when the image was built
  loaded,     \* _CAL_LOADED of the server
  cached,     \* _CAL_CACHE: Defaults, what is left of a Cut file, or Of a run
  loadedAt,   \* history: runs finished when what it loaded was on the disk, 0 before
  undisturbed \* history: the file was not being written then

toolVars      == <<tool, track, looked, samples, fitted, bracket>>
fileVars      == <<finished, file, died>>
imageVars     == <<shared, image>>
calServerVars == <<loaded, cached, loadedAt, undisturbed, imageVars>>
calVars       == <<toolVars, fileVars, calServerVars>>

NoSamples == [n \in CalNodes |-> [usable |-> 0, other |-> 0]]
NoFit     == [n \in {} |-> "own"]
NoBracket == [at |-> 0, from |-> 0, to |-> 0]

Of(n)    == [kind |-> "run", run |-> n]
Absent   == [kind |-> "absent", run |-> 0]
Empty    == [kind |-> "empty", run |-> 0]
Cut      == [kind |-> "cut", run |-> 0]
Defaults == [kind |-> "defaults", run |-> 0]

\* What a server reads, or an image is given, with its history.
OnDisk == [file |-> file, runs |-> finished, quiet |-> tool # "close" /\ ~died]

\* An image without the file, which is not in the repository (.gitignore 6).
NoCopy == [file |-> Absent, runs |-> 0, quiet |-> TRUE]

NotLoaded == loaded = FALSE /\ cached = Defaults /\ loadedAt = 0 /\ undisturbed = TRUE

Unload == loaded' = FALSE /\ cached' = Defaults /\ loadedAt' = 0 /\ undisturbed' = TRUE

CalInit ==
  /\ tool = "idle" /\ track = <<>> /\ looked = 0 /\ samples = NoSamples
  /\ fitted = NoFit /\ bracket = NoBracket
  /\ finished = 0 /\ file = Absent /\ died = FALSE
  /\ shared \in BOOLEAN /\ image = NoCopy /\ NotLoaded

\* The process of the tool is gone.
EndTool ==
  /\ tool' = "idle" /\ track' = <<>> /\ looked' = 0 /\ samples' = NoSamples
  /\ fitted' = NoFit /\ bracket' = NoBracket

-----------------------------------------------------------------------------
(* main() up to the samples. *)

\* The track is parsed, nodes and detections are fetched; what fails there ends the
\* tool before it has done anything.
StartTool ==
  /\ tool = "idle" /\ finished < MaxRuns
  /\ track' \in Tracks /\ tool' = "build"
  /\ UNCHANGED <<looked, samples, fitted, bracket, fileVars, calServerVars>>

\* Mutant: the search ends one step early.
Halve_Early(t, ts, lo, hi) ==
  LET mid == (lo + hi) \div 2 IN
    IF lo + 2 >= hi THEN <<lo, hi>>
    ELSE IF t[mid] <= ts THEN <<mid, hi>> ELSE <<lo, mid>>

\* A round of the binary search of interpolate_truth; none is left to do between neighbours.
Halve(t, ts, lo, hi) ==
  LET mid == (lo + hi) \div 2 IN
    IF lo + 1 >= hi THEN <<lo, hi>>
    ELSE IF t[mid] <= ts THEN <<mid, hi>> ELSE <<lo, mid>>

\* The search: more rounds than points are never needed.
Search(t, ts) ==
  LET after[i \in 0..Len(t)] ==
        IF i = 0 THEN <<1, Len(t)>> ELSE Halve(t, ts, after[i - 1][1], after[i - 1][2])
  IN  after[Len(t)]

\* interpolate_truth has an answer, and two points of the track are near the detection.
HasTruth(t, ts) ==
  /\ t # <<>> /\ t[1] <= ts /\ ts <= t[Len(t)]
  /\ Cardinality({i \in DOMAIN t : t[i] - ts < 2 * Gap /\ ts - t[i] < 2 * Gap}) >= 2

\* build_samples, one detection after the other.
SkipDetection ==
  /\ tool = "build" /\ looked < MaxDetections /\ looked' = looked + 1
  /\ UNCHANGED <<tool, track, samples, fitted, bracket, fileVars, calServerVars>>

BuildSample ==
  /\ tool = "build" /\ looked < MaxDetections /\ looked' = looked + 1
  /\ \E n \in CalNodes, ts \in Times, range \in {"usable", "other"} :
       /\ HasTruth(track, ts)
       /\ bracket' = LET s == Search(track, ts) IN [at |-> ts, from |-> s[1], to |-> s[2]]
       /\ samples' = [samples EXCEPT ![n][range] = @ + 1]
  /\ UNCHANGED <<tool, track, fitted, fileVars, calServerVars>>

EndBuild ==
  /\ tool = "build"
  /\ IF samples = NoSamples
       THEN EndTool
       ELSE tool' = "fit" /\ track' = <<>> /\ bracket' = NoBracket /\ UNCHANGED <<looked, samples, fitted>>
  /\ UNCHANGED <<fileVars, calServerVars>>

-----------------------------------------------------------------------------
(* CalibrationEngine.fit and the file. *)

\* _filter_samples
UsableCount(n) == samples[n].usable
SampleCount(n) == samples[n].usable + samples[n].other

AllSamples == MapThenSumSet(SampleCount, CalNodes)

\* A node with too few samples in range gets the parameters fitted to all samples, those
\* out of range included, if these are enough; else none.
Fit ==
  /\ tool = "fit" /\ tool' = "write"
  /\ fitted' = [n \in {m \in CalNodes : \/ UsableCount(m) >= MinSamples
                                        \/ SampleCount(m) > 0 /\ AllSamples >= MinSamples}
                  |-> IF UsableCount(n) >= MinSamples THEN "own" ELSE "global"]
  /\ UNCHANGED <<track, looked, samples, bracket, fileVars, calServerVars>>

\* --dry-run, or a report that cannot be made.
LeaveFile ==
  /\ tool = "write" /\ EndTool
  /\ UNCHANGED <<fileVars, calServerVars>>

\* _weighted_mean: there is something to take the mean of, else it raises.
MeansExist == DOMAIN fitted # {}

\* Mutant: the file is opened before the means are computed.
OpenFile_First ==
  /\ tool = "write" /\ file' = Empty
  /\ IF ~MeansExist THEN EndTool /\ UNCHANGED died
     ELSE tool' = "close" /\ died' = FALSE /\ UNCHANGED <<track, looked, samples, fitted, bracket>>
  /\ UNCHANGED <<finished, calServerVars>>

\* write_calibration_yaml: the means are taken before the file is opened for writing,
\* which empties it.
OpenFile ==
  /\ tool = "write"
  /\ IF ~MeansExist THEN EndTool /\ UNCHANGED <<file, died>>
     ELSE /\ tool' = "close" /\ file' = Empty /\ died' = FALSE
          /\ UNCHANGED <<track, looked, samples, fitted, bracket>>
  /\ UNCHANGED <<finished, calServerVars>>

\* More than a buffer is written in pieces, which may end anywhere.
WritePart ==
  /\ tool = "close" /\ file' = Cut
  /\ UNCHANGED <<toolVars, finished, died, calServerVars>>

CloseFile ==
  /\ tool = "close" /\ EndTool
  /\ finished' = finished + 1 /\ file' = Of(finished + 1) /\ UNCHANGED died
  /\ UNCHANGED calServerVars

\* The tool is interrupted, or the disk is full.
KillTool ==
  /\ tool # "idle" /\ EndTool
  /\ died' = (died \/ tool = "close")
  /\ UNCHANGED <<finished, file, calServerVars>>

-----------------------------------------------------------------------------
(* The server. *)

\* The calibration.yaml the server finds.
ServerFile == IF shared THEN OnDisk ELSE image

\* _load_calibration, when the first position is estimated: once, whatever it finds.
\* Half a file may not be YAML at all; or it is one with a section that is null, for
\* which _node_params raises each time.
LoadCalibration ==
  /\ ~loaded /\ loaded' = TRUE
  /\ cached' \in CASE ServerFile.file \in {Absent, Empty} -> {Defaults}
                   [] ServerFile.file = Cut -> {Defaults, Cut}
                   [] OTHER -> {ServerFile.file}
  /\ loadedAt' = ServerFile.runs /\ undisturbed' = ServerFile.quiet
  /\ UNCHANGED <<toolVars, fileVars, imageVars>>

\* docker compose restart keeps the image.
RestartServer ==
  /\ loaded /\ Unload
  /\ UNCHANGED <<toolVars, fileVars, imageVars>>

\* docker compose up --build: the checkout is copied, and a container of the new image
\* takes the place of the old one.
BuildImage ==
  /\ ~shared /\ image' = OnDisk /\ Unload
  /\ UNCHANGED <<toolVars, fileVars, shared>>

-----------------------------------------------------------------------------
CalNext ==
  \/ StartTool \/ SkipDetection \/ BuildSample \/ EndBuild \/ Fit
  \/ LeaveFile \/ OpenFile \/ WritePart \/ CloseFile \/ KillTool
  \/ LoadCalibration \/ RestartServer \/ BuildImage

CalSpec == CalInit /\ [][CalNext]_calVars
-----------------------------------------------------------------------------
(* Properties. *)

Files == {Absent, Empty, Cut} \cup {Of(n) : n \in 1..MaxRuns}

CalTypeOK ==
  /\ tool \in {"idle", "build", "fit", "write", "close"} /\ track \in Tracks
  /\ looked \in 0..MaxDetections
  /\ samples \in [CalNodes -> [usable: 0..MaxDetections, other: 0..MaxDetections]]
  /\ DOMAIN fitted \subseteq CalNodes /\ \A n \in DOMAIN fitted : fitted[n] \in {"own", "global"}
  /\ bracket \in [at: Times \cup {0}, from: 0..MaxTrack, to: 0..MaxTrack]
  /\ finished \in 0..MaxRuns /\ file \in Files
  /\ shared \in BOOLEAN /\ image \in [file: Files, runs: 0..MaxRuns, quiet: BOOLEAN]
  /\ died \in BOOLEAN /\ loaded \in BOOLEAN
  /\ cached \in {Defaults, Cut} \cup {Of(n) : n \in 1..MaxRuns}
  /\ loadedAt \in 0..MaxRuns /\ undisturbed \in BOOLEAN

\* The place a sample is given lies between two neighbouring points of the track, the one
\* before and the one after the detection, also where points share a time.
Bracketed ==
  bracket # NoBracket =>
    /\ track[bracket.from] <= bracket.at /\ bracket.at <= track[bracket.to]
    /\ bracket.to <= bracket.from + 1

\* What the server read was on the disk at some moment: as it loaded, or, if the file is
\* not shared, as its image was built.  Unless the file was being written at that moment,
\* or a run had died writing it, the server uses the parameters of the last run that had
\* finished then, and the defaults if there was none: a run that ends otherwise leaves the
\* file of the last one.
ServedWhole ==
  loaded /\ undisturbed => cached = IF loadedAt = 0 THEN Defaults ELSE Of(loadedAt)

\* From the detections to the estimate: each distance that is fitted is taken at the right
\* place of the track, and what is fitted reaches a server that reads the file, or a copy of
\* it, whole or not at all (interpolate_truth 66-81, write_calibration_yaml 62-87, main
\* 219-258, _load_calibration 58-87).
CalibrationSound == Bracketed /\ ServedWhole
=============================================================================
