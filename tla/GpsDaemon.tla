----------------------------- MODULE GpsDaemon -----------------------------
(***************************************************************************)
(* The GPS thread of a node, GPSDaemon of argus-node/publisher/gps.py: it  *)
(* looks for a receiver, has a u-blox receiver survey its position or hold *)
(* the one saved in survey.json, and keeps the last fix for the scanners.  *)
(*                                                                         *)
(* A receiver stands for its port; the u-blox one is probed first.  A      *)
(* position is a place the node stands at.  The receiver keeps its         *)
(* configuration while it has power, also when the process is restarted.   *)
(***************************************************************************)
EXTENDS Integers, FiniteSets, StopEvent

CONSTANTS
  Places,      \* where the node can stand
  Receivers    \* receivers there are: subset of {"ublox", "nmea"}

ASSUME GpsAssumption == Places # {} /\ Receivers \subseteq {"ublox", "nmea"}

Unset == "unset"

VARIABLES
  gpsThread,       \* place of run(): "detect", "identify", "open", "init", "read", "save",
                   \* "sleep", "ended" or "dead"
  active,          \* _active_port, by its receiver
  isUblox,         \* _is_ublox
  surveyComplete,  \* _survey_complete
  hasFix,          \* _has_fix
  pos,             \* _lat, _lon, _alt
  surveyed         \* the position being saved

VARIABLES
  survey,          \* survey.json: Unset, or the position it holds
  plugged,         \* receivers with power
  port,            \* the serial port: "closed", "open", or "stale" once unplugged
  place,           \* where the node stands
  rcv,             \* TMODE3 of the u-blox: mode "off", "survey", "done" or "fixed", position
  svin,            \* position of a NAV-SVIN in the port's buffer, survey done; else Unset
  notSaved         \* history: a finished survey did not reach the file

gpsDaemonVars == <<gpsThread, active, isUblox, surveyComplete, hasFix, pos, surveyed>>
receiverVars  == <<plugged, port, place, rcv, svin>>
gpsVars       == <<gpsDaemonVars, survey, receiverVars, notSaved, stop>>

PowerUp == [mode |-> "off", at |-> Unset]

\* GPSDaemon.__init__
FreshDaemon ==
  /\ gpsThread = "detect" /\ active = "none" /\ isUblox = FALSE
  /\ surveyComplete = FALSE /\ hasFix = FALSE /\ pos = Unset /\ surveyed = Unset

GpsInit ==
  /\ FreshDaemon
  /\ survey = Unset /\ plugged \in SUBSET Receivers /\ port = "closed"
  /\ place \in Places /\ rcv = PowerUp /\ svin = Unset /\ notSaved = FALSE

-----------------------------------------------------------------------------
(* Outside the thread. *)

PlugIn ==
  /\ \E r \in Receivers \ plugged : plugged' = plugged \cup {r}
  /\ UNCHANGED <<gpsDaemonVars, survey, port, place, rcv, svin, notSaved, stop>>

Unplug ==
  /\ \E r \in plugged :
       /\ plugged' = plugged \ {r}
       /\ rcv' = IF r = "ublox" THEN PowerUp ELSE rcv
       /\ IF r = active /\ port = "open" THEN port' = "stale" /\ svin' = Unset
                                         ELSE UNCHANGED <<port, svin>>
  /\ UNCHANGED <<gpsDaemonVars, survey, place, notSaved, stop>>

\* The node is carried elsewhere; what ends a survey is where it stands then.
Carry ==
  /\ \E p \in Places \ {place} : place' = p
  /\ UNCHANGED <<gpsDaemonVars, survey, plugged, port, rcv, svin, notSaved, stop>>

SurveyEnds ==
  /\ rcv.mode = "survey" /\ rcv' = [mode |-> "done", at |-> place]
  /\ UNCHANGED <<gpsDaemonVars, survey, plugged, port, place, svin, notSaved, stop>>

\* NAV-SVIN once a second: valid, and no longer active.
ReportSvin ==
  /\ port = "open" /\ active = "ublox" /\ rcv.mode = "done" /\ svin' = rcv.at
  /\ UNCHANGED <<gpsDaemonVars, survey, plugged, port, place, rcv, notSaved, stop>>

\* The process dies and is started again.
GpsRestart ==
  /\ ~stop
  /\ gpsThread' = "detect" /\ active' = "none" /\ isUblox' = FALSE
  /\ surveyComplete' = FALSE /\ hasFix' = FALSE /\ pos' = Unset /\ surveyed' = Unset
  /\ port' = "closed" /\ svin' = Unset
  /\ UNCHANGED <<survey, plugged, place, rcv, notSaved, stop>>

StopGps == SetStop /\ UNCHANGED <<gpsDaemonVars, survey, receiverVars, notSaved>>

-----------------------------------------------------------------------------
(* run(): finding and opening the receiver. *)

\* _probe_port: who may be heard within the probe's time.  Even a receiver that is
\* plugged in may miss it.
Audible == plugged

\* The head of the loop and detect_gps_port.
DetectPort ==
  /\ gpsThread = "detect" /\ ~stop
  /\ \/ \E r \in Audible : gpsThread' = "identify" /\ active' = r
     \/ gpsThread' = "sleep" /\ UNCHANGED active
  /\ UNCHANGED <<isUblox, surveyComplete, hasFix, pos, surveyed, survey, receiverVars, notSaved, stop>>

EndDetect ==
  /\ gpsThread = "detect" /\ stop /\ gpsThread' = "ended"
  /\ UNCHANGED <<active, isUblox, surveyComplete, hasFix, pos, surveyed, survey, receiverVars, notSaved, stop>>

\* _probe_ublox looks for the sync bytes in the first 64 received: it may miss them.
Identify ==
  /\ gpsThread = "identify" /\ gpsThread' = "open"
  /\ isUblox' \in {FALSE, active = "ublox" /\ active \in plugged}
  /\ UNCHANGED <<active, surveyComplete, hasFix, pos, surveyed, survey, receiverVars, notSaved, stop>>

\* serial.Serial(); the beginning of _init_ublox empties the buffer.  A port that is
\* gone is waited for.
OpenPort ==
  /\ gpsThread = "open"
  /\ IF active \in plugged
       THEN port' = "open" /\ gpsThread' = IF isUblox THEN "init" ELSE "read"
       ELSE port' = "closed" /\ gpsThread' = "sleep"
  /\ svin' = Unset
  /\ UNCHANGED <<active, isUblox, surveyComplete, hasFix, pos, surveyed, survey, plugged, place, rcv, notSaved, stop>>

\* load_survey_state finds a position; what it cannot read it takes for no survey.
Saved == survey # Unset

\* Mutant: a survey that is known to be complete is not restored again.
InitUblox_Once ==
  /\ gpsThread = "init" /\ port = "open" /\ gpsThread' = "read"
  /\ surveyComplete' = (surveyComplete \/ Saved)
  /\ rcv' = CASE surveyComplete -> rcv
              [] ~Saved         -> [mode |-> "survey", at |-> Unset]
              [] OTHER          -> [mode |-> "fixed", at |-> survey]
  /\ notSaved' = (notSaved \/ (~Saved /\ rcv.mode = "done"))
  /\ UNCHANGED <<active, isUblox, hasFix, pos, surveyed, survey, plugged, port, place, svin, stop>>

\* _init_ublox: hold the saved position, or survey, whatever the receiver has done.
InitUblox ==
  /\ gpsThread = "init" /\ port = "open" /\ gpsThread' = "read"
  /\ IF Saved
       THEN surveyComplete' = TRUE /\ rcv' = [mode |-> "fixed", at |-> survey]
       ELSE rcv' = [mode |-> "survey", at |-> Unset] /\ UNCHANGED surveyComplete
  /\ notSaved' = (notSaved \/ (~Saved /\ rcv.mode = "done"))
  /\ UNCHANGED <<active, isUblox, hasFix, pos, surveyed, survey, plugged, port, place, svin, stop>>

\* A write to a receiver that was pulled; survey.json may have been read before.
InitFails ==
  /\ gpsThread = "init" /\ port = "stale"
  /\ gpsThread' = "sleep" /\ port' = "closed"
  /\ surveyComplete' \in {surveyComplete, surveyComplete \/ Saved}
  /\ UNCHANGED <<active, isUblox, hasFix, pos, surveyed, survey, plugged, place, rcv, svin, notSaved, stop>>

\* time.sleep(30) or (10), which the stop event does not cut short.
Sleep ==
  /\ gpsThread = "sleep" /\ gpsThread' = "detect"
  /\ UNCHANGED <<active, isUblox, surveyComplete, hasFix, pos, surveyed, survey, receiverVars, notSaved, stop>>

-----------------------------------------------------------------------------
(* run(): reading. *)

\* What a receiver says of its position.
Reported == IF active = "ublox" /\ rcv.mode = "fixed" THEN rcv.at ELSE place

\* The last position stays when a report says that there is no fix.
TakeFix == hasFix' = TRUE /\ pos' = Reported
LoseFix == hasFix' = FALSE /\ UNCHANGED pos

ParseNavPvt ==
  /\ gpsThread = "read" /\ ~stop /\ port = "open" /\ active = "ublox"
  /\ TakeFix \/ LoseFix
  /\ UNCHANGED <<gpsThread, active, isUblox, surveyComplete, surveyed, survey, receiverVars, notSaved, stop>>

\* GGA says whether there is a fix; RMC counts while there is none.
ParseNmea ==
  /\ gpsThread = "read" /\ ~stop /\ port = "open"
  /\ \E sentence \in {"GGA", "RMC"} :
       IF sentence = "RMC" THEN ~hasFix /\ TakeFix ELSE TakeFix \/ LoseFix
  /\ UNCHANGED <<gpsThread, active, isUblox, surveyComplete, surveyed, survey, receiverVars, notSaved, stop>>

\* _parse_nav_svin: the first finished survey is saved.
ParseNavSvin ==
  /\ gpsThread = "read" /\ ~stop /\ port = "open" /\ svin # Unset /\ svin' = Unset
  /\ IF surveyComplete THEN UNCHANGED <<gpsThread, surveyComplete, surveyed>>
     ELSE surveyComplete' = TRUE /\ surveyed' = svin /\ gpsThread' = "save"
  /\ UNCHANGED <<active, isUblox, hasFix, pos, survey, plugged, port, place, rcv, notSaved, stop>>

\* save_survey_state: the new file takes the place of the old one at once; if it cannot
\* be written the old one stays; if the directory cannot be made the thread dies.
SaveSurvey ==
  /\ gpsThread = "save" /\ surveyed' = Unset
  /\ \/ survey' = surveyed /\ gpsThread' = "read" /\ UNCHANGED notSaved
     \/ gpsThread' \in {"read", "dead"} /\ notSaved' = TRUE /\ UNCHANGED survey
  /\ port' = IF gpsThread' = "dead" THEN "closed" ELSE port
  /\ UNCHANGED <<active, isUblox, surveyComplete, hasFix, pos, plugged, place, rcv, svin, stop>>

\* The read fails; or a sentence with a checksum and no number where one belongs raises
\* what run() does not catch.
ReadEnds ==
  /\ gpsThread = "read" /\ port' = "closed" /\ svin' = Unset
  /\ \/ ~stop /\ port = "stale" /\ gpsThread' = "detect"
     \/ ~stop /\ port = "open" /\ gpsThread' = "dead"
     \/ stop /\ gpsThread' = "ended"
  /\ UNCHANGED <<active, isUblox, surveyComplete, hasFix, pos, surveyed, survey, plugged, place, rcv, notSaved, stop>>

-----------------------------------------------------------------------------
GpsDaemonNext ==
  \/ DetectPort \/ EndDetect \/ Identify \/ OpenPort \/ InitUblox \/ InitFails \/ Sleep
  \/ ParseNavPvt \/ ParseNmea \/ ParseNavSvin \/ SaveSurvey \/ ReadEnds

GpsNext ==
  \/ GpsDaemonNext
  \/ PlugIn \/ Unplug \/ Carry \/ SurveyEnds \/ ReportSvin \/ GpsRestart \/ StopGps

GpsSpec == GpsInit /\ stop = FALSE /\ [][GpsNext]_gpsVars
-----------------------------------------------------------------------------
(* Properties. *)

GpsTypeOK ==
  /\ gpsThread \in {"detect", "identify", "open", "init", "read", "save", "sleep", "ended", "dead"}
  /\ active \in Receivers \cup {"none"} /\ isUblox \in BOOLEAN /\ surveyComplete \in BOOLEAN
  /\ hasFix \in BOOLEAN /\ pos \in Places \cup {Unset} /\ surveyed \in Places \cup {Unset}
  /\ survey \in Places \cup {Unset} /\ plugged \subseteq Receivers
  /\ port \in {"closed", "open", "stale"} /\ place \in Places
  /\ rcv \in [mode: {"off", "survey", "done", "fixed"}, at: Places \cup {Unset}]
  /\ svin \in Places \cup {Unset} /\ notSaved \in BOOLEAN

\* While a u-blox receiver is read, the daemon's flag _survey_complete, which its
\* properties survey_complete and heartbeat_extras hand out, speaks of the receiver: it
\* holds the position of survey.json, or has just finished the survey that is being saved
\* there.  Neither pulling the receiver, nor another one in between, nor restarts lead to
\* a flag over a receiver that has no position or another one.  It takes a finished survey
\* that did not reach the file: then the flag outlives the receiver's configuration, or a
\* report of a survey before a restart, still on its way, is taken for the end of the one
\* just begun (_init_ublox 550-568, _parse_nav_svin 693-703).  Nothing is said of the
\* heartbeat: send_heartbeat does not carry the flag.
SurveyHonest ==
  gpsThread \in {"read", "save"} /\ isUblox /\ port = "open" /\ surveyComplete /\ ~notSaved =>
    /\ rcv.mode \in {"done", "fixed"}
    /\ rcv.at = IF gpsThread = "save" THEN surveyed ELSE survey
=============================================================================
