# Project Aegis Shield in TLA+

Specifications, model-checking runs and machine-checked proofs for the Remote ID detection
network in this repository: sensor nodes (`argus-node`), the server (`aegis-server`), the
dashboard (`aegis-shield`) and the calibration tools. `PROJECT.json` lists components, runs,
mutants, the mapping of definitions to source lines, findings, hazards and theorems.

## 1. The system

Sensor nodes receive Remote ID broadcasts over Bluetooth, Wi-Fi and SDR, and publish
detections, heartbeats and a status over MQTT. One asyncio task of the server reads
them, keeps `drone_tracks` and `nodes` in PostgreSQL, raises alerts, drives a strobe over HTTP
and pushes to dashboards over WebSockets. The dashboard keeps a store of what it was told and
acknowledges alerts over REST.

| Component | State it keeps | Operations | What is hard about it | What makes it correct |
|---|---|---|---|---|
| MQTT publisher (`argus-node/publisher/mqtt_client.py`) | bounded queue, connected and stop events, the client's session | `publish_detection`, `send_heartbeat`, `_enqueue`, `_drain_queue`, callbacks, `disconnect` | scanner threads, main, drain and network thread interleave; full queue; outages; shutdown | every message has one fate; order; no thread stuck; nothing follows "offline" |
| Agent (`argus-node/agent.py`) | stop event, threads | start, heartbeat loop, signals, shutdown | an exception of one thread, joins that time out | orderly end |
| RID assembler and parser (`argus-node/parser`) | a frame per transmitter with three times | `feed`, `_expire`, `apply` | partial messages, several IDs, throttling, expiry | no stale data as fresh, one track per drone, publication in time |
| Bluetooth and HCI (`argus-node/scanner/bluetooth.py`, `hci_le.py`) | mode, pending packets, fragments | `start` with its fallbacks, `_command`, `read_reports`, `stop`, reassembly | late answers, lost fragments, half a start | scanning stops in the mode it started, no mixed fragments |
| Wi-Fi scanner (`argus-node/scanner/wifi_nan.py`) | channel index, time of the last publication by drone | packet callbacks of two transports, hop, `run` | exceptions in callbacks, a clock that is stepped | one publication a window, none withheld longer |
| SDR scanner (`argus-node/scanner/sdr.py`) | burst thresholds | capture | a device that fails | only a producer of the publisher here |
| GPS thread (`argus-node/publisher/gps.py`) | port, fix, survey flag, `survey.json` | `run`, survey-in, save, load | receivers pulled, restarts in the middle, failed write | the survey flag is true of the receiver |
| MQTT subscriber (`aegis-server/mqtt/subscriber.py`) | subscription, backoff | `run`, one handler per topic | errors in a handler, reconnects, redelivery | every message handled once, in order |
| Alert engine (`aegis-server/mqtt/alert_engine.py`) | deduplication entries, last purge | `evaluate`, `evaluate_heartbeat`, `node_offline`, `_emit`, purge | errors between entry and row, restarts | an alert is suppressed only for another one |
| Strobe (`aegis-server/integrations/algo_notifier.py`) | level and time per drone | `trigger`, `clear`, `clear_drone_state`, `test_flash` | one device for all drones, lost requests and answers, tests from the API | device and notifier agree, cooldown, escalation |
| Node presence (both sides and the broker) | retained status, will, row of the node | connect, lose, crash, stop; subscribe, handle | takeover, late messages, lost statuses | the table says who is there |
| Pipeline, scoring, trilateration (`aegis-server/analysis`) | last scores, window of observations, lazily loaded calibration | `process`, `score`, `update`, sweep | clocks, late readings, restarts, failed inserts | one alert per crossing, positions from recent readings |
| WebSockets (`ws_broadcaster.py`, `api/routes/websocket.py`) | connections, a pusher each | `connect`, `broadcast`, push, close | broadcasts overtake snapshots, slow or dead clients | dashboards converge |
| REST API (`api/routes`) | none | reads, acknowledge, test flash | acknowledge-all against new alerts | |
| Dashboard store (`aegis-shield/src/store/useStore.js`) | alerts, drones, nodes, packets, sockets, timers | message handlers, acknowledge, connect, disconnect, polls | reconnects, two sockets on one store, late answers, optimistic updates | shows what the server has |
| Calibration (`calibration/`) | track, samples, `calibration.yaml` | match, fit, write; load in the server | in-place write, ends and ties of the track | samples at the right place and time, a file that is whole |
| Database and lifecycle (`db/database.py`, `main.py`) | the pool | start, stop | stop with requests under way | |
| Settings, auth, JSX, scripts, firmware | | | | not modelled, see section 7 |

How they meet: producers and drain thread share the queue; publisher and broker share the
status topic and the will; the subscriber calls alert engine, notifier and broadcaster in turn and waits for
each; pushers, requests and broadcasts share the database and the sockets.

## 2. Modules

| Module | What it models | Its state and the code's |
|---|---|---|
| `MqttPublisher` | publisher and agent loop | `q`, `connected`, `stop`, `agentStop` are `_q`, `_connected`, `_stop`, `_stop_event`; `pc[p]` is the place in `_enqueue`, `dpc` in `_drain_queue` with `held` its message, `mpc` in `main`/`disconnect`; `sock` is paho's session |
| `Outbox` | abstract: what a publisher promises | waiting, sent, lost |
| `NodePresence` | status topic, will, nodes table | `phase`, `link` are the node's process and connection; `retained`, `alive`, `net` the broker; `sub`, `row`, `dbUp` the server |
| `RidAssembler` | merging, naming, throttling and expiry of Remote ID messages | `states` is `_states` with ages for its three times and the ID of its frame; `expired` is `_last_expire`; `out` what `feed` returned |
| `AlertEngine` | rule alerts and deduplication | `dedup` holds ages instead of times; `stage`, `event`, `todo`, `inserting` are the place in `evaluate` |
| `StrobeNotifier` | notifier, its driver, the device | `level`, `since` are `_drone_state`, lost at a restart; `device`, `answers` are outside |
| `LiveFeed` | alerts from table to screen | `posting` is `_emit` between insert and broadcast, `pusher`, `snapshot` the pusher, `store` the dashboard's list |
| `StopEvent` | the agent's stop event, shared by the node's threads | `stop` is `stop_event` |
| `HciScanner` | the Bluetooth thread, its HCI channel, the controller, BlueZ as the fallback | `thread` is the place in `_run_hci`, `stage`, `todo`, `written` the place in `start` and `_command`; `mode` is `extended` and `coded`, `pending` is `_pending`; `ctl`, `commands`, `events` are the controller and the socket in both directions |
| `ExtReassembler` | joining of split extended advertisements | `parts` is `_parts`; `joined` what `add` returned |
| `GpsDaemon` | GPS thread, `survey.json`, the receivers | `gpsThread` is the place in `run`; `active`, `isUblox`, `surveyComplete`, `hasFix`, `pos` are the fields of the same names; `rcv` is TMODE3 of the receiver, `svin` a report on its way |
| `WifiScanner` | one adapter: thread, hopper, packets, suppression | `seenAge` is `time.time() - _seen[d]`, `slip` what the clock was stepped by; `idx` the hopper's index |
| `Trilateration` | the observations of a drone | `obs` is `_obs[drone_id]` with ages; `mlat` what `update` returned |
| `ThreatScore` | the score as an operator | `Rows` are the rows as far as the factors tell them apart |
| `AnalysisPipeline` | `process` over the two above | `step` is the place in `_run`; `lastScore` is `_last_scores`; `shown` the row; `ensured`, `columns` the lazily added columns |
| `Calibration` | the tool and the server that loads its file | `tool` is the place in `main`; `track`, `samples`, `fitted`, `file` what it has made; `loaded`, `cached` are `_CAL_LOADED`, `_CAL_CACHE`; `shared` says whether the server reads the tool's file or `image`, the copy its container was built with |
| `DashboardLink` | sockets, polls and threat data of the store | `link` is a socket or the timer that will make the next; `current` is `_ws`, `status` is `wsStatus`, `threatPoll`, `healthPoll` the timers; `asked` the requests under way; `inTable` is the drone's score, `listed` whether the threat list has the drone |
| `MC*` | constants for TLC; `MCComponents` puts the seven components from `HciScanner` to `DashboardLink` into one run | |
| `*Proofs` | theorems | |

An action is what the code does between two points at which somebody else can run: a call of
`queue.Queue` or `threading.Event` in a thread, the stretch between two awaits in a
task. Ages replace clocks: they are counted in ticks and only as far as a comparison tells them
apart, so no clock bounds the models. Payloads, log lines and the wording of alerts are left out.

Definitions named `X_Something` that stand before `X` are mutants: `X` with a plausible mistake. Each property is
shown to fail when one of them takes the place of `X`.

## 3. Runs

| Run | Instance | Shows |
|---|---|---|
| `publisher` | two scanners, one guarded, main, queue of 2, four messages | exactly one fate per message, only requeued messages are overtaken, who frees a blocked drain thread, at most one message after "offline" |
| `publisher_drain` | one scanner, main, queue of 1, two messages each | the publisher implements `Outbox`; a message on its way leaves unless the drain thread blocks on its own queue |
| `publisher_full` | as `publisher` | violated: the second put raises (finding) |
| `presence` | one node, three messages under way | the retained status is true of the node, the row follows it and only a heartbeat taken afterwards undoes an "offline", gone nodes are not online, present ones are |
| `presence_offline` | the same | violated: a stopped node stays online (finding) |
| `assembler` | two transmitters, one with two IDs under two types, packs of two, every time 2 ticks | the best ID is published, one track with a serial number in time, snapshots an interval apart, no data from before a long silence, no starvation |
| `alerts` | one drone, one node, two rules, window and purge of 2 ticks | alerts are a window apart while the server runs, new drones announced once or accounted for |
| `alerts_lost` | one rule | violated: the alert of a detection is suppressed without an earlier one (finding) |
| `strobe` | two drones, cooldown of 2 ticks | patterns explained, cooldown kept, each but for what the notifier cannot know (a lost answer, a restart), lasting threats flash again |
| `strobe_quiet` | the same | violated: a silent drone leaves the strobe on (finding) |
| `components` | the seven components above, one per behaviour; bounds below | the controller scans as the flags say and scanning resumes; joined adverts are what was sent; the survey flag of the GPS thread is true; one publication a window; positions from recent readings; HIGH is announced once and never a named operator; samples and the calibration the server uses, from the tool's file or its image's copy, are sound; the dashboard recovers |
| `feed` | three alerts, snapshots of 2, a list of 3, two messages on the wire | newest first, an open alert lapses once at most, the list is right in the end |

Why the bounds are enough. A queue of two with three producers is the smallest in which one
producer evicts while another and the drain thread compete for the slot and a third message is
overtaken; a queue of one suffices for the drain thread to block. Deduplication keys of two drones never
meet, so one drone and one node with two rules cover it; the window and the purge interval are
two ticks so that an age can be below, at and above each. Two drones share the strobe. The second transmitter
of the assembler only expires the first one: frames of different transmitters share nothing else. Packs of two
contain every order of two IDs. Three alerts with a snapshot of two let an
alert fall out of the snapshot and come back. `MaxMsgs`, `MaxInFlight` and
`MaxAlerts` are the only bounds the code does not have.

The components of the run `components` share no state but the stop event, so interleaving them would
multiply states and show nothing; a behaviour picks one (`part`) and the others stay as they are before they are
used. Two attempts of `open()` are one retry and one refusal; one advert on the socket at a time suffices to be
left over from an earlier scan, because the checks concern the scan it came from. Two places and both kinds of
receiver let a survey be of another place and another receiver come in between. A window of two ticks and a step of
the clock by one put an age below, at and above it. Three nodes with `MIN_NODES` of two let one reading expire, be replaced and
arrive late while two others count. Tracks of up to three points at three times contain ties, gaps, points
before and after, and a single point; three detections with a minimum of two samples give a node its own parameters, the global ones
or none. Two advertisers, two parts and two ticks contain every order of parts, losses and expiry. Two sockets are what React's
development mode makes; one change of the score suffices for an older answer to overtake a newer one. `MaxAdverts`,
`MaxParts`, `MaxTrack`, `MaxDetections`, `MaxRuns`, `MaxSlip`, `Ahead` and `MaxVersion` are bounds of the model.

`CHECK_DEADLOCK FALSE` is used where the system may stop: in the publisher's runs, which end after `disconnect()`, and
in `components`, whose threads and tool end.

## 4. Fairness

Weak fairness is assumed of steps that the code's own scheduling takes: a thread inside `_enqueue`, the drain loop, callbacks,
the shutdown sequence, the server's tasks, the broker's keepalive, time. It is never assumed of
a radio that receives, a connection that forms, a signal, a device or database that answers, an operator that acknowledges: where a
liveness property needs one of these, it is a premise of the property (`<>[]...`) and can be read there.

For `ScanResumes` the thread runs (weak), a deadline passes whatever is read until then (strong, of `TimeOut`: reading adverts
disables it again and again), a controller that is not slow answers, and BlueZ's loop looks at the stop event; that the controller can be opened
and is not slow for good is the premise. For `DashboardRecovers` timers fire, a socket that connects opens or
fails, polls run and requests end; that the server is reachable for good, `disconnect()` no longer called, the drone no longer enters or leaves the
threat list, and the pusher lives (`StatesCome`: a live state comes to a drone that does not show what it would give it), are premises.

`DrainsUnlessBlocked` speaks of a message, not of the queue: scanners that go on producing may keep it from ever being empty. The run bounds
the messages by `MaxMsgs`. With more of them a message may also be evicted or put back behind others; eviction is one of the ways it leaves.

## 5. Findings

1. `_enqueue` can raise `queue.Full` although it is documented as non-blocking and dropping the oldest message (`publisher_full`).
2. A stopped node can stay "online": `_on_connect` does not look at `_stop` (`presence_offline`).
3. An alert whose insert failed suppresses the next ones (`alerts_lost`).
4. The strobe is not cleared when a drone falls silent (`strobe_quiet`).

`PROJECT.json` quotes the documentation each of them contradicts. The passing properties are
stated so that these cases are named (`raised`, `revived`, `unwritten`, `unseen`). What else they excuse is named in the same way: `Forgotten`
(an alert of before a restart), `Unknown` (a post whose answer was lost, or of before a restart), `beat` (a heartbeat written after the status), `lost` (a status lost to a database
error), `notSaved` (a survey that did not reach its file), `disturbed` (a failed statement or a restart of the pipeline).

Also met while modelling, where the text and the code differ but no run can be about it, or where the behaviour is stated in a property as it is:

* `calibration/collector.py:214` asks for 5000 detections, `aegis-server/api/routes/detections.py:77` allows 2000; the query there selects a
  column `band` that the schema does not have. The tool therefore gets no detections from this server; `Calibration` assumes one that answers.
* `calibration/collector.py:256` promises to reject a sample where the track has a gap; line 317 counts any two points within twice the gap, also
  two on the same side.
* `aegis-server/analysis/threat_scoring.py:121` says of the sigmoid 0 m: 0.02 and 500 m: 0.88; the code gives 0.16 and 0.84.
* A drone that gives an operator ID of six characters or more scores at most 60 and is never HIGH (part of `HighExplained`, proved).
* `aegis-server/analysis/pipeline.py:152` keeps the columns of an earlier estimate when there is none; `aegis-server/mqtt/subscriber.py:197` keeps an
  earlier `operator_id` only against NULL, and the node sends an empty string.
* `argus-node/scanner/hci_le.py:228`: an advert that is late is handed on without its beginning as if it were whole, and after a lost final report the next
  advert of the transmitter is appended to what was left. `JoinedAsSent` says exactly this and no more.
* `aegis-shield/src/main.jsx:7` (StrictMode) makes two sockets in development; `onclose` reconnects also after `disconnect()`, which nothing calls.
* The node's heartbeat never carries `jamming_state`, `spoofing_state` or `survey_complete`: `send_heartbeat` (`argus-node/publisher/mqtt_client.py:139-158`)
  does not put them in, and `heartbeat_extras` (`argus-node/publisher/gps.py:441-449`) has no caller, although `README.md:108`, 112-120 and 147 and `gps.py:22`
  promise them. So `gps_jamming` is never raised by a node of this repository, and the 3x weight of a surveyed node (`subscriber.py:291`, `pipeline.py:62-67`) never applied.
  `SurveyHonest` is about the flag in the GPS thread only; `JammedHeartbeat` models the server's handler as it is.
* `aegis-server/integrations/algo_notifier.py:20` says that a level is not triggered again within the cooldown. A request the device carried out without an
  answer in time leaves no state (116-126), so the next detection posts it again. A restart of the server forgets all drones: the device flashes on
  though none is tracked, and a level may be posted again (`FlashExplained`, `NoRepeatWithinCooldown` name both cases).
* `aegis-server/mqtt/alert_engine.py:15` names the key (category, drone_id); the code's key has the node as well (169), so two nodes that see a drone alert
  twice. A restart forgets the entries: the same alert may be generated again within the window.
* `calibration/calibrate.py:290` and `README.md:332` ask for `docker compose restart` to load a new calibration. The container is given neither a mount
  nor `ARGUS_CALIBRATION_PATH` (`aegis-server/docker/docker-compose.yml:54-83`) and reads the copy its image was built with (`aegis-server/docker/Dockerfile:11`): only a
  new build brings it there. `Calibration` has both (`shared`), and `CalibrationSound` says what the server uses in each.
* `aegis-server/api/routes/analysis.py:34` lists drones of the last 5 minutes and at most 100; the live state has those of 24 hours
  (`websocket.py:82-93`) and the store replaces its threat data by each list (`useStore.js:152`): a drone that is silent, or beyond the 100, is shown without the score
  the table has. `DashboardRecovers` speaks of the list, not of the table.
* `argus-node/README.md:178` names `_enable_coded_phy()`, which does not exist any more.

## 6. Proofs

Checked by TLAPS for every value of the constants that meets the named assumptions, which an `ASSUME` in each
module states and every run evaluates: `PublisherAssumption`, `PresenceAssumption`, `AssemblerAssumption`, `AlertAssumption`,
`StrobeAssumption`, `FeedAssumption`, `HciAssumption`, `ReassemblerAssumption`, `GpsAssumption`, `WifiAssumption`,
`TrilaterationAssumption`, `CalAssumption`, `LinkAssumption`. They say that windows and limits are natural numbers (positive where the
code's defaults and checks make them so), that there is a place to stand and a channel to hop to, and how intervals compare.
Every type invariant, safety invariant and action property that a run checks is also a theorem, and so is the refinement of `Outbox`.

* `MqttPublisherProofs`. `TypeCorrect` is inductive as it stands. `SlotsBelongToProducers`
  is not: that a slot is there says nothing of who made it. Its strengthening counts: while the
  drain thread is blocked, the queue's length plus the number of producers between
  eviction and retry is at least the queue's size, since only an eviction shortens the queue and only a
  retry, successful or not, ends it. `OneAfterOffline` needs where the drain thread can
  be once `stop` is set: it has at most one publish before it looks at it.
  `NoLossNoDuplicate` speaks of one long sequence. Its strengthening `FateInv` reduces
  sequences to their sets of elements: each part holds a message at most once, and the created messages are partitioned
  over seven places (sent, in the drain thread's hand, queued, in a producer's hand, evicted, raised, failed), so that a step is
  one message moving from one place to another. The same case split, read through the refinement mapping, is the step simulation
  of `ImplementsOutbox`. `ReorderOnlyByRequeue` needs `OrderInv`: while a message was not put back, each part of the flow is in
  each producer's order, a later part is behind the earlier ones, and a producer's next message behind everything on its way.
* `RidAssemblerProofs`. `SnapshotsApart` needs `ShownInv`: a transmitter published less than an interval ago is still known, with a
  `last_publish` no older, because it could be forgotten only after a silence of more than the TTL, which is no shorter than the interval.
  `SilenceForgets` needs `SilenceInv`: what outlived the last expiry has been silent for at most the TTL and the time since.
  `BestIdPublished` and `OneTrack` speak of frames, and need `IdInv`, which holds of a transmitter that never sent one ID under two types,
  nor two IDs of one type: its frame has the best ID heard from it, all IDs published were serial numbers while the grace period lasts, and for good if one was heard in it. What a payload
  makes of a frame is a recursive function over its messages; that it takes the best of them is shown message by message, by an induction
  that is stated with a set of numbers and its least member (`Least`, `Induction`) and so needs no theorem with an operator parameter.
* `AlertEngineProofs`. `AlertsApart` is about a step, so it needs to know what the entries stand for: `YoungHasEntry` says that an
  alert younger than the window has an entry at least as young, which a purge or a failed insert could break
  and does not. Alerts of before a restart are not counted: the entries are gone. `EntryExplained` and `PurgeBoundsEntries` are inductive beside it, and proved only: no run needs to show them again.
  `NewDroneOnce` and `NewDroneAccounted` need `DroneInv`: a drone is unknown, awaited or settled (announced or cut
  short) and only one of them; a `new_drone` alert is the last one due; and an entry that could suppress it is that of a
  settled drone, so that the deduplication never swallows it.
* `StrobeNotifierProofs`. `FlashAlwaysExplained` is inductive with the types: a restart, which tracks no drone, sets `unseen`. `CooldownKept`
  needs `PostsRemembered`, for the posts the notifier knows of: the one timestamp kept for a drone is no older than its last post of
  any level, and a level above the one kept has not been posted within the cooldown. Otherwise the
  timestamp, which the post of another level overwrites, could forget a post.
* `NodePresenceProofs`. `RetainedTruthful` needs `LinkInv`: a connection implies a session at the
  broker, a node that is up has deferred nothing, and a connected node that is stopping is
  retained as online only if it said so last. `RowAsRetained` needs `FollowInv`: while no status was lost and the server
  is subscribed, either the last status under way is the retained one and only heartbeats follow it, or none is under way and the
  row shows it already, or "online" after a heartbeat that was taken since (`beat`).
* `LiveFeedProofs`. The query's order is proved first: in a set of alerts, each has as many newer ones as its place says (`Rank`), so the places
  are taken once each and the list falls. `NewestFirst` and `LapsesOnce` need `FeedInv`: no part of the wire or the store is ahead of the table
  (`KnownIds`), a snapshot falls and a broadcast has one alert (`Shapes`), broadcasts are on their way in the order of
  the rows (`InOrder`), and a snapshot that misses an open alert was read before that alert was written, so that everything before it, and
  the store, is older than the alert (`Behind`): only one message on its way can make an open alert lapse.
* `ComponentsProofs`. `SurveyHonest` needs `PortInv` (a port is open only where the thread uses it, and only a u-blox is
  initialised as one) and `SvinInv` (a report in the port is of the survey the receiver has done, unless it is no longer needed, and the flag
  is not up without a file but while it is written). `OncePerWindow` needs `DriftInv`: the age the scanner computes and the true time since the last
  publication differ by what the clock was stepped by, except where the publisher refused a detection; both are capped, hence a case for each.
  `AdvertsJoinedAsSent` needs `JoinInv`: while no report was lost, an advertiser's buffer is what was sent of the current advert, or an
  end of it once its beginning was expired. `ScansAsReported` needs `HciInv`, which says for each command of `start()` what can still be outstanding
  when it is awaited: before a reset is answered anything of the stages before, but behind a reset that was carried out only more resets; once one was answered, nothing
  but resets and the setup; after that nothing but the command itself, and the controller is where the commands led it. So a late answer
  is never taken for that of a later command with the same opcode, because a reset lies between the two and the order is kept.
  `ComponentsTypeOK` puts the types of all seven components together: a step is one of a single component, and the stop
  event that three of them share matters to none of the types. `HciInv`, `DriftInv`, `ObsInv`, `CalInv` and `JoinInv` serve again, each with what
  it leaves open; the types of the GPS thread and of the dashboard's links are inductive as they stand.
* `AnalysisProofs`. `FixFromRecent` needs `Kept` and `Enough`: the observations kept are the last accepted one of each
  node, and an estimate has as many as it must. `HighExplained` needs that the memory, the row and the alerts are in step at each place of
  `_run` while nothing failed, and the lemma `NamedNotHigh` about the weights, which bounds the sum for every row.
  `CalibrationSound` needs `CalInv`: the tool's file is that of the last finished run unless it is being written or was left so, `ImageInv` (the same of the image's copy, as of the build), and the
  search of `interpolate_truth` keeps its two ends around the detection (`HalveKeeps`) while each round but the last brings them
  nearer, so that after as many rounds as there are points they are neighbours (`SearchFinds`).

Out of TLAPS's reach and only model-checked are the liveness properties, which rest on fairness and `ENABLED`: `DrainsUnlessBlocked`,
`ActiveThreatFlashesAgain`, `GoneNodeNotOnline`, `PresentNodeOnline`, `StoreCatchesUp`, `KeepsPublishing`, `ScanResumes` and `DashboardRecovers`. The findings are
counterexamples and have no theorem. No module declares a `RECURSIVE` operator.

## 7. Not modelled

* Byte formats (Remote ID, UBX, NMEA, HCI headers) and everything that is only wording: no state that several steps share.
* Floating point: the geometry and the least-squares fits of trilateration and calibration. What they return is any value the callers tell apart.
* SDR signal processing; the scanner is one of the producers of `MqttPublisher`.
* NAV-STATUS (jamming and spoofing flags) and satellite counts of the GPS thread: overwritten by each report, read by the heartbeat.
* In calibration: ground truth from Remote ID broadcasts, the patch of `trilateration.py`, reports and plots.
* In the dashboard: the packet feed and node updates (nothing else reads them), the selection, JSX.
* Database and server lifecycle, the subscriber's backoff: planned, see section 8. REST routes that only read, settings and authentication: checks without state.
* Shell scripts and firmware.

## 8. Plan

1. Done: publisher and `Outbox`, presence, alert engine, strobe, live feed, assembler, with their theorems.
2. Done: `HciScanner`, `ExtReassembler`, `GpsDaemon`, `WifiScanner`, `Trilateration`, `ThreatScore`, `AnalysisPipeline`, `Calibration`,
   `DashboardLink`, with the theorems about the node's threads, the pipeline, the calibration and the types of all.
3. `ServerLifecycle`: pool, subscriber task and its backoff, requests under way at the stop.
4. Compositions: subscriber with alert engine, strobe and presence, so that one failing handler is seen by all of them; several
   dashboards with a slow one; an abstract specification of the alert feed which `AlertEngine` and `LiveFeed` implement together.
5. Theorems about the composed models of 3 and 4, and that the components' invariants survive the composition.
