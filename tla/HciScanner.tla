----------------------------- MODULE HciScanner -----------------------------
(***************************************************************************)
(* The Bluetooth thread of a node: BluetoothScanner.run_sync and _run_hci  *)
(* (argus-node/scanner/bluetooth.py) over the HCI user channel and the     *)
(* scanner of hci_le.py, with the controller at the other end.             *)
(*                                                                         *)
(* A command is written and its answer awaited with a time limit; a        *)
(* command that ran into it stays under way, and may be carried out and    *)
(* answered while the next one is waited for.  Commands and events keep    *)
(* their order.  Time is left out: a limit is reached when the controller  *)
(* is slow or no answer is coming.  An advert is named after the scan that *)
(* reported it; what is in it goes to RidAssembler.                        *)
(***************************************************************************)
EXTENDS Integers, Sequences, FiniteSets, StopEvent

CONSTANTS
  Backend,     \* the setting: "auto" or "hci"
  Attempts,    \* attempts of HCIUserChannel.open
  WantCoded,   \* enable_coded_phy
  MaxAdverts   \* bound of the model: adverts on the socket

ASSUME HciAssumption ==
  /\ Backend \in {"auto", "hci"} /\ Attempts \in Nat \ {0} /\ WantCoded \in BOOLEAN /\ MaxAdverts \in Nat

VARIABLES
  thread,      \* place of the thread, see HciTypeOK
  first,       \* _run_hci has not scanned yet
  tries,       \* attempts of the current open()
  leaving,     \* what follows stop() and close(): "reopen", "fallback", "ended" or "dead"
  stage,       \* where start() is: "probe", or the scan it tries to enable
  todo,        \* commands of this stage; the first one is written or about to be
  written,     \* the first one has been written and its answer is awaited
  mode,        \* extended and coded of LEScanner: "none", "legacy", "1M" or "coded"
  pending      \* _pending: the scans whose adverts came during a command

VARIABLES
  access,      \* what open() meets: "free", "busy", "denied" or "absent"
  channel,     \* the socket: "closed", "open", or "stale" once the dongle was pulled
  slow,        \* the controller answers late or loses commands
  features,    \* what LE Read Local Supported Features says: subset of {"ext", "coded"}
  works,       \* what its firmware carries out; "ext" may work and not be announced
  ctl,         \* the controller: command family used since the reset, PHYs set, scan
  commands,    \* commands not yet carried out
  events       \* answers and adverts not yet read

threadVars == <<thread, first, tries, leaving, stage, todo, written, mode, pending>>
ctlVars    == <<access, channel, slow, features, works, ctl, commands, events>>
hciVars    == <<threadVars, ctlVars, stop>>

Cmd(op, arg)   == [op |-> op, arg |-> arg]
Answer(c, ok)  == [type |-> "answer", op |-> c.op, ok |-> ok]
Advert(scan)   == [type |-> "advert", scan |-> scan]

Scans == {"coded", "1M", "legacy"}
Idle  == [family |-> "none", phys |-> "1M", scan |-> "off"]

\* _base_init, _start_extended and _start_legacy: what they send.  One command stands
\* for the two event masks and the address, which do not touch the scan.
BaseInit == <<Cmd("reset", "-"), Cmd("setup", "-")>>
StartExtended(phys) == <<Cmd("ext_params", phys), Cmd("ext_enable", "on")>>
StartLegacy == <<Cmd("params", "-"), Cmd("enable", "on")>>

HciInit ==
  /\ thread = "loop" /\ first = TRUE /\ tries = 0
  /\ leaving = "reopen" /\ stage = "probe" /\ todo = <<>> /\ written = FALSE
  /\ mode = "none" /\ pending = {}
  /\ access \in {"free", "busy", "denied", "absent"} /\ channel = "closed" /\ slow = FALSE
  /\ features \in SUBSET {"ext", "coded"} /\ works \in {{}, {"ext"}, {"ext", "coded"}}
  /\ works # {} => features # {}
  /\ "coded" \in works => "coded" \in features
  /\ ctl = Idle /\ commands = <<>> /\ events = <<>>

-----------------------------------------------------------------------------
(* The controller and who pulls, plugs or holds it. *)

Pull ==
  /\ access \in {"free", "busy"}
  /\ access' = "absent" /\ channel' = IF channel = "open" THEN "stale" ELSE channel
  /\ ctl' = Idle /\ commands' = <<>> /\ events' = <<>>
  /\ UNCHANGED <<slow, features, works, threadVars, stop>>

Plug ==
  /\ access \in {"busy", "absent"} /\ access' = "free"
  /\ UNCHANGED <<channel, slow, features, works, ctl, commands, events, threadVars, stop>>

\* BlueZ takes the controller while the channel is closed.
Seize ==
  /\ access = "free" /\ channel # "open" /\ access' = "busy"
  /\ UNCHANGED <<channel, slow, features, works, ctl, commands, events, threadVars, stop>>

ChangePace ==
  /\ slow' = ~slow
  /\ UNCHANGED <<access, channel, features, works, ctl, commands, events, threadVars, stop>>

Family(c) == CASE c.op \in {"ext_params", "ext_enable"} -> "ext"
               [] c.op \in {"params", "enable"} -> "legacy"
               [] OTHER -> "none"

\* The two families of scan commands are not mixed without a reset in between.
Accepts(c) ==
  /\ Family(c) \in {"none", ctl.family} \/ ctl.family = "none"
  /\ Family(c) = "ext" => "ext" \in works
  /\ c.arg = "coded" => "coded" \in works

Carried(c) ==
  CASE c.op = "reset"      -> Idle
    [] c.op = "ext_params" -> [ctl EXCEPT !.family = "ext", !.phys = c.arg]
    [] c.op = "ext_enable" -> [ctl EXCEPT !.family = "ext",
                                          !.scan = IF c.arg = "on" THEN ctl.phys ELSE "off"]
    [] c.op = "params"     -> [ctl EXCEPT !.family = "legacy"]
    [] c.op = "enable"     -> [ctl EXCEPT !.family = "legacy",
                                          !.scan = IF c.arg = "on" THEN "legacy" ELSE "off"]
    [] OTHER               -> ctl

\* The next command is carried out or refused, and answered.
AnswerCommand ==
  /\ commands # <<>>
  /\ LET c == Head(commands) IN
       /\ ctl' = IF Accepts(c) THEN Carried(c) ELSE ctl
       /\ events' = Append(events, Answer(c, Accepts(c)))
  /\ commands' = Tail(commands)
  /\ UNCHANGED <<access, channel, slow, features, works, threadVars, stop>>

\* A command, or only its answer, is lost.
LoseCommand ==
  /\ slow /\ commands # <<>>
  /\ ctl' \in {ctl, IF Accepts(Head(commands)) THEN Carried(Head(commands)) ELSE ctl}
  /\ commands' = Tail(commands)
  /\ UNCHANGED <<access, channel, slow, features, works, events, threadVars, stop>>

ReportAdvert ==
  /\ channel = "open" /\ ctl.scan # "off"
  /\ Cardinality({i \in DOMAIN events : events[i].type = "advert"}) < MaxAdverts
  /\ events' = Append(events, Advert(ctl.scan))
  /\ UNCHANGED <<access, channel, slow, features, works, ctl, commands, threadVars, stop>>

-----------------------------------------------------------------------------
(* Leaving the scanner: the finally block of _run_hci, stop() and close(). *)

\* The exception handlers of _run_hci: what failed before the first scan makes the
\* backend unavailable, later failures are waited out.
Fail ==
  /\ thread' = IF first THEN "stop" ELSE "wait"
  /\ leaving' = IF first THEN "fallback" ELSE "reopen"
  /\ todo' = <<>> /\ written' = FALSE

\* Mutant: always the legacy command.
StopCommand_Legacy == Cmd("enable", "off")

\* stop(): by the flag that start() sets when it succeeds.
StopCommand == IF mode \in {"coded", "1M"} THEN Cmd("ext_enable", "off") ELSE Cmd("enable", "off")

\* stop() writes its command; an OSError is passed over.
SendStop ==
  /\ thread = "stop" /\ ~written
  /\ IF channel = "open"
       THEN commands' = Append(commands, StopCommand) /\ written' = TRUE /\ UNCHANGED thread
       ELSE thread' = "close" /\ UNCHANGED <<commands, written>>
  /\ UNCHANGED <<first, tries, leaving, stage, todo, mode, pending>>
  /\ UNCHANGED <<access, channel, slow, features, works, ctl, events, stop>>

\* Its answer, its refusal, its time limit: all the same.
EndStop ==
  /\ thread = "stop" /\ written
  /\ thread' = "close" /\ written' = FALSE
  /\ UNCHANGED <<first, tries, leaving, stage, todo, mode, pending, ctlVars, stop>>

\* run_sync, when the HCI backend is unavailable: BlueZ instead, if the setting allows.
Unavailable == IF Backend = "hci" THEN "ended" ELSE "bleak"

\* close(), then on with the loop, the fallback or the end of the thread.
CloseChannel ==
  /\ thread = "close"
  /\ thread' = CASE leaving = "reopen" -> "loop"
                 [] leaving = "fallback" -> Unavailable
                 [] OTHER -> leaving
  /\ channel' = "closed" /\ commands' = <<>> /\ events' = <<>>
  /\ mode' = "none" /\ pending' = {} /\ stage' = "probe" /\ leaving' = "reopen"
  /\ UNCHANGED <<first, tries, todo, written>>
  /\ UNCHANGED <<access, slow, features, works, ctl, stop>>

-----------------------------------------------------------------------------
(* _run_hci: opening and starting. *)

\* The head of the loop.
CheckStop ==
  /\ thread = "loop"
  /\ thread' = IF stop THEN "ended" ELSE "open"
  /\ tries' = 0
  /\ UNCHANGED <<first, leaving, stage, todo, written, mode, pending, ctlVars, stop>>

\* An attempt of open() that binds; start() begins with the probe of the features.
OpenChannel ==
  /\ thread = "open" /\ access = "free"
  /\ channel' = "open" /\ thread' = "start"
  /\ stage' = "probe" /\ todo' = Append(BaseInit, Cmd("features", "-")) /\ written' = FALSE
  /\ UNCHANGED <<first, tries, leaving, mode, pending>>
  /\ UNCHANGED <<access, slow, features, works, ctl, commands, events, stop>>

\* An attempt that does not: tried again while somebody else holds the controller.
\* HCIUnavailable is raised the first time and waited out later.
OpenFails ==
  /\ thread = "open" /\ access # "free"
  /\ IF access = "busy" /\ tries + 1 < Attempts
       THEN tries' = tries + 1 /\ UNCHANGED thread
       ELSE tries' = 0 /\ thread' = IF first THEN Unavailable ELSE "pause"
  /\ UNCHANGED <<first, leaving, stage, todo, written, mode, pending, ctlVars, stop>>

\* _command writes; an OSError ends start() whatever its stage.
SendCommand ==
  /\ thread = "start" /\ todo # <<>> /\ ~written
  /\ IF channel = "open"
       THEN /\ commands' = Append(commands, Head(todo)) /\ written' = TRUE
            /\ UNCHANGED <<thread, leaving, todo>>
       ELSE Fail /\ UNCHANGED commands
  /\ UNCHANGED <<first, tries, stage, mode, pending>>
  /\ UNCHANGED <<access, channel, slow, features, works, ctl, events, stop>>

Enter(s, cs) == stage' = s /\ todo' = cs /\ written' = FALSE /\ UNCHANGED <<thread, leaving>>

\* Mutant: the second extended attempt does without the reset.
Fallback_NoReset ==
  CASE stage = "coded" -> Enter("1M", StartExtended("1M"))
    [] stage = "1M"    -> Enter("legacy", BaseInit \o StartLegacy)
    [] OTHER           -> Fail /\ UNCHANGED stage

\* HCIError in start(): the next simpler scan, after a reset, if there is one.
Fallback ==
  CASE stage = "coded" -> Enter("1M", BaseInit \o StartExtended("1M"))
    [] stage = "1M"    -> Enter("legacy", BaseInit \o StartLegacy)
    [] OTHER           -> Fail /\ UNCHANGED stage

Coded == WantCoded /\ "coded" \in features

\* A command succeeded: the next one, or the next stage, or start() returns.
Advance ==
  IF Len(todo) > 1 THEN Enter(stage, Tail(todo)) /\ UNCHANGED <<mode, first>>
  ELSE IF stage = "probe"
    THEN /\ IF "ext" \in features \/ Coded
              THEN LET phys == IF Coded THEN "coded" ELSE "1M" IN Enter(phys, StartExtended(phys))
              ELSE Enter("legacy", StartLegacy)
         /\ UNCHANGED <<mode, first>>
    ELSE /\ thread' = "scan" /\ mode' = stage /\ first' = FALSE
         /\ todo' = <<>> /\ written' = FALSE /\ UNCHANGED <<stage, leaving>>

\* Mutant: adverts of the scan before the reset are kept.
PendingAfter_Kept(c) == pending

\* _base_init drops what came before its reset was answered.
PendingAfter(c) == IF c.op = "reset" THEN {} ELSE pending

\* _command reads an event: its answer, the answer of another command, an advert.
ReadEvent ==
  /\ thread = "start" /\ written /\ events # <<>> /\ channel = "open"
  /\ events' = Tail(events)
  /\ LET e == Head(events) IN
       IF e.type = "advert"
         THEN /\ pending' = pending \cup {e.scan}
              /\ UNCHANGED <<thread, leaving, stage, todo, written, mode, first>>
         ELSE IF e.op # Head(todo).op
         THEN UNCHANGED <<pending, thread, leaving, stage, todo, written, mode, first>>
         ELSE IF e.ok
         THEN Advance /\ pending' = PendingAfter(Head(todo))
         ELSE Fallback /\ UNCHANGED <<pending, mode, first>>
  /\ UNCHANGED <<tries, access, channel, slow, features, works, ctl, commands, stop>>

NoAnswerComing == commands = <<>> /\ \A i \in DOMAIN events : events[i].type = "advert"

\* _command gives up.
TimeOut ==
  /\ thread = "start" /\ written /\ channel = "open"
  /\ slow \/ NoAnswerComing
  /\ Fallback
  /\ UNCHANGED <<first, tries, mode, pending, ctlVars, stop>>

\* The dongle is pulled while an answer or an advert is awaited: read raises OSError.
ReadFails ==
  /\ \/ thread = "start" /\ written
     \/ thread = "scan" /\ pending = {}
  /\ channel = "stale"
  /\ Fail
  /\ UNCHANGED <<first, tries, stage, mode, pending, ctlVars, stop>>

-----------------------------------------------------------------------------
(* _run_hci: scanning, waiting, and BlueZ instead. *)

\* read_reports: what waited during the commands first, else one event; the adverts
\* are handled.  Handling may raise what _run_hci does not catch (a full publisher
\* queue), which ends the thread.
ReadReports ==
  /\ thread = "scan" /\ ~stop
  /\ \/ pending # {} /\ pending' = {} /\ UNCHANGED events
     \/ pending = {} /\ channel = "open" /\ events # <<>>
        /\ events' = Tail(events) /\ UNCHANGED pending
  /\ \/ UNCHANGED <<thread, leaving>>
     \/ /\ pending # {} \/ Head(events).type = "advert"
        /\ thread' = "stop" /\ leaving' = "dead"
  /\ UNCHANGED <<first, tries, stage, todo, written, mode>>
  /\ UNCHANGED <<access, channel, slow, features, works, ctl, commands, stop>>

StopScanning ==
  /\ thread = "scan" /\ stop
  /\ thread' = "stop" /\ leaving' = "ended"
  /\ UNCHANGED <<first, tries, stage, todo, written, mode, pending, ctlVars, stop>>

\* Mutant: a failed reopening is final.
EndWait_GivesUp ==
  /\ thread \in {"wait", "pause"}
  /\ thread' = IF thread = "wait" THEN "stop" ELSE "ended"
  /\ UNCHANGED <<first, tries, leaving, stage, todo, written, mode, pending, ctlVars, stop>>

\* stop_event.wait(5): in the handler, before the finally block, or after a failed open().
EndWait ==
  /\ thread \in {"wait", "pause"}
  /\ thread' = IF thread = "wait" THEN "stop" ELSE "loop"
  /\ UNCHANGED <<first, tries, leaving, stage, todo, written, mode, pending, ctlVars, stop>>

\* _run_bleak until the stop event; without the library run_sync ends at once.
EndBleak ==
  /\ thread = "bleak" /\ thread' = "ended"
  /\ UNCHANGED <<first, tries, leaving, stage, todo, written, mode, pending, ctlVars, stop>>

StopHci == SetStop /\ UNCHANGED <<threadVars, ctlVars>>

-----------------------------------------------------------------------------
ScannerStep ==
  \/ CheckStop \/ OpenChannel \/ OpenFails \/ SendCommand \/ ReadEvent \/ TimeOut \/ ReadFails
  \/ ReadReports \/ StopScanning \/ EndWait \/ SendStop \/ EndStop \/ CloseChannel

HciNext ==
  \/ ScannerStep \/ EndBleak \/ StopHci
  \/ Pull \/ Plug \/ Seize \/ ChangePace \/ AnswerCommand \/ LoseCommand \/ ReportAdvert

\* The thread runs; a deadline passes, whatever is read until then; a controller that
\* is not slow answers; BlueZ's loop looks at the event.
HciFairness ==
  /\ WF_hciVars(ScannerStep) /\ SF_hciVars(TimeOut)
  /\ WF_hciVars(~slow /\ AnswerCommand)
  /\ WF_hciVars(stop /\ EndBleak)

HciSpec == HciInit /\ stop = FALSE /\ [][HciNext]_hciVars /\ HciFairness
-----------------------------------------------------------------------------
(* Properties. *)

HciTypeOK ==
  /\ thread \in {"loop", "open", "start", "scan", "wait", "pause", "stop", "close", "bleak", "ended", "dead"}
  /\ first \in BOOLEAN /\ tries \in 0..Attempts - 1
  /\ leaving \in {"reopen", "fallback", "ended", "dead"}
  /\ stage \in Scans \cup {"probe"} /\ written \in BOOLEAN
  /\ mode \in Scans \cup {"none"} /\ pending \subseteq Scans
  /\ access \in {"free", "busy", "denied", "absent"} /\ channel \in {"closed", "open", "stale"}
  /\ slow \in BOOLEAN /\ features \subseteq {"ext", "coded"} /\ works \subseteq {"ext", "coded"}
  /\ ctl \in [family: {"none", "ext", "legacy"}, phys: {"coded", "1M"}, scan: Scans \cup {"off"}]

\* When start() has returned, the controller scans in the way the flags say, whatever
\* was refused, lost or answered late on the way, no report of an earlier scan waits
\* to be decoded, and the command that stop() will choose is one the controller takes
\* in this scan (_command 350-375, start 394-426, stop 452-459).
ScanAsReported ==
  thread = "scan" /\ channel = "open" =>
    /\ ctl.scan = mode
    /\ pending \subseteq {mode}
    /\ \A i \in DOMAIN events : events[i].type = "advert" => events[i].scan = mode
    /\ Accepts(StopCommand) /\ Carried(StopCommand).scan = "off"

\* A controller that can be opened and answers in time is scanned in the end, however
\* often it was pulled, busy or silent before, unless the thread gave up on it before
\* its first scan or was ended by an exception; and the thread ends once it is told
\* to, even if the controller is silent (_run_hci 134-178).
ScanResumes ==
  /\ <>[](access = "free" /\ ~slow /\ ~stop)
       => <>[](thread \in {"scan", "stop", "close", "dead"} \/ (first /\ thread \in {"bleak", "ended"}))
  /\ stop ~> thread \in {"ended", "dead"}
=============================================================================
