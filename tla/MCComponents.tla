---------------------------- MODULE MCComponents ----------------------------
(***************************************************************************)
(* The components of this project that share nothing but the stop event,   *)
(* checked in one run: a behaviour is one of a single component, and the   *)
(* other ones stay in the state they have before they are used.  A node    *)
(* whose settings leave Bluetooth out has no such thread.                  *)
(***************************************************************************)
EXTENDS HciScanner, GpsDaemon, WifiScanner, AnalysisPipeline, Calibration,
        ExtReassembler, DashboardLink

VARIABLE part   \* the component of this behaviour

\* The variables of the components, but for the stop event that three of them share.
bluetooth   == <<threadVars, ctlVars>>
gps         == <<gpsDaemonVars, survey, receiverVars, notSaved>>
wifi        == <<wifiThread, idx, tuned, dedupVars>>
componentVars == <<bluetooth, gps, wifi, stop, pipelineVars, calVars, reassemblerVars, linkVars, part>>

HopOrder == <<1, 6>>

WithoutBluetooth ==
  /\ thread = "ended" /\ first = TRUE /\ tries = 0
  /\ leaving = "reopen" /\ stage = "probe" /\ todo = <<>> /\ written = FALSE
  /\ mode = "none" /\ pending = {}
  /\ access = "absent" /\ channel = "closed" /\ slow = FALSE
  /\ features = {} /\ works = {} /\ ctl = Idle /\ commands = <<>> /\ events = <<>>

ComponentsInit ==
  /\ part \in {"bluetooth", "gps", "wifi", "pipeline", "calibration", "adverts",
              "dashboard"}
  /\ stop = FALSE
  /\ IF part = "bluetooth" THEN HciInit ELSE WithoutBluetooth
  /\ GpsInit /\ (part # "gps" => plugged = {} /\ place = "here")
  /\ WifiInit /\ (part # "wifi" => tuned = 1)
  /\ PipelineInit /\ (part # "pipeline" => columns)
  /\ CalInit /\ (part # "calibration" => shared)
  /\ ReassemblerInit /\ LinkInit

ComponentsNext ==
  /\ UNCHANGED part
  /\ \/ part = "bluetooth" /\ HciNext
        /\ UNCHANGED <<gps, wifi, pipelineVars, calVars, reassemblerVars, linkVars>>
     \/ part = "gps" /\ GpsNext
        /\ UNCHANGED <<bluetooth, wifi, pipelineVars, calVars, reassemblerVars, linkVars>>
     \/ part = "wifi" /\ WifiNext
        /\ UNCHANGED <<bluetooth, gps, pipelineVars, calVars, reassemblerVars, linkVars>>
     \/ part = "pipeline" /\ PipelineNext
        /\ UNCHANGED <<bluetooth, gps, wifi, stop, calVars, reassemblerVars, linkVars>>
     \/ part = "calibration" /\ CalNext
        /\ UNCHANGED <<bluetooth, gps, wifi, stop, pipelineVars, reassemblerVars, linkVars>>
     \/ part = "adverts" /\ ReassemblerNext
        /\ UNCHANGED <<bluetooth, gps, wifi, stop, pipelineVars, calVars, linkVars>>
     \/ part = "dashboard" /\ LinkNext
        /\ UNCHANGED <<bluetooth, gps, wifi, stop, pipelineVars, calVars, reassemblerVars>>

\* Fairness where a liveness property needs it; a component that is not the one of the
\* behaviour has nothing to do.
ComponentsSpec == ComponentsInit /\ [][ComponentsNext]_componentVars /\ HciFairness /\ LinkFairness

ComponentsTypeOK ==
  HciTypeOK /\ GpsTypeOK /\ WifiTypeOK /\ PipelineTypeOK /\ CalTypeOK /\ ReassemblerTypeOK /\ LinkTypeOK
=============================================================================
