----------------------------- MODULE AlertEngine -----------------------------
(***************************************************************************)
(* The rule alerts of aegis-server: MQTTSubscriber._handle_detection and   *)
(* _handle_heartbeat up to the alert engine (mqtt/subscriber.py) and       *)
(* AlertEngine (mqtt/alert_engine.py) with its deduplication.              *)
(*                                                                         *)
(* One asyncio task handles the messages one after the other; it waits for *)
(* the database at three places, each of which may fail, and the server    *)
(* may be restarted at any moment.  Time is counted in ticks; ages are     *)
(* counted up to Old, which every comparison treats alike, so nothing else *)
(* bounds the model.                                                       *)
(*                                                                         *)
(* Left out: what the rules compare (a detection comes with the list of    *)
(* rules it violates), the strobe (StrobeNotifier), node_offline, which    *)
(* passes the deduplication by, and the analysis pipeline, whose alerts    *)
(* have their own insert.                                                  *)
(***************************************************************************)
EXTENDS Integers, Sequences

CONSTANTS
  Drones, Nodes,
  Rules,          \* the categories of rules 1-4, in the order they are tested
  Window,         \* alert_dedup_window_s, in ticks
  CleanupEvery    \* the 300 s between two purges, in ticks

RuleCategories == {Rules[i] : i \in DOMAIN Rules}
None == "none"

ASSUME AlertAssumption ==
  /\ Rules \in Seq(STRING)
  /\ RuleCategories \cap {"new_drone", "gps_jamming"} = {}
  /\ None \notin Drones
  /\ Window \in Nat \ {0} /\ CleanupEvery \in Nat \ {0}

NewDrone(d, n) == <<"new_drone", d, n>>
Jamming(n)     == <<"gps_jamming", None, n>>

\* The keys of the deduplication: category, drone, node.
DetectionKeys == (RuleCategories \cup {"new_drone"}) \X Drones \X Nodes
Keys == DetectionKeys \cup {Jamming(n) : n \in Nodes}

Old  == Window + CleanupEvery + 1
Ages == 0..Old

\* The age of an alert of before a restart.
Forgotten == Old + 1

VARIABLES
  count,      \* drone_tracks.detection_count: 0 is no row, 2 is "more than 1"
  dedup,      \* _dedup: the age of each entry it holds
  cleaned,    \* ticks since _last_dedup_cleanup, up to CleanupEvery
  stage,      \* where the task is: "idle", "evaluate" or "emit"
  event,      \* the detection evaluated: its drone, its node and the rules violated
  todo,       \* keys of the alerts still to be written for the message
  inserting,  \* the alert's entry is written, its row is not: <<>> or <<key>>
  \* History.
  lastAlert,  \* age of the last alert of the key whose row was written, counted
              \* from now_ts, not from the INSERT; Forgotten since a restart
  unwritten,  \* keys whose entry was written for a row that was not
  announced,  \* drones with a new_drone row, and with more than one
  twice,
  cutShort    \* drones whose first detection was not evaluated to the end

memVars  == <<dedup, cleaned>>
taskVars == <<stage, event, todo, inserting>>
history  == <<lastAlert, unwritten, announced, twice, cutShort>>
vars     == <<count, memVars, taskVars, history>>

\* What the rules may say of a detection: the categories violated, in order.
InRuleOrder(v) ==
  \A i, j \in DOMAIN v :
    i < j => \E a, b \in DOMAIN Rules : a < b /\ v[i] = Rules[a] /\ v[j] = Rules[b]

Violations ==
  {v \in UNION {[1..n -> RuleCategories] : n \in 0..Len(Rules)} : InRuleOrder(v)}

NoEvent == [drone |-> None, node |-> None, violated |-> <<>>]
Events  == [drone: Drones, node: Nodes, violated: Violations]

Init ==
  /\ count = [d \in Drones |-> 0]
  /\ dedup = <<>>
  /\ cleaned = CleanupEvery
  /\ stage = "idle" /\ event = NoEvent /\ todo = <<>> /\ inserting = <<>>
  /\ lastAlert = [k \in Keys |-> Old]
  /\ unwritten = {} /\ announced = {} /\ twice = {} /\ cutShort = {}

Older(age, most) == IF age < most THEN age + 1 ELSE age

Tick ==
  /\ dedup' = [k \in DOMAIN dedup |-> Older(dedup[k], Old)]
  /\ cleaned' = Older(cleaned, CleanupEvery)
  /\ lastAlert' = [k \in Keys |-> Older(lastAlert[k], Old)]
  /\ UNCHANGED <<count, taskVars, unwritten, announced, twice, cutShort>>

-----------------------------------------------------------------------------
(* _cleanup_dedup. *)

\* Mutant: what is fresh is purged.
Stale_Fresh(k) == dedup[k] <= Window

Stale(k) == dedup[k] > Window

\* The entries without those the filter drops.
Purged(m) ==
  [k \in {x \in DOMAIN m : ~Stale(x)} |-> m[k]]

Cleanup ==
  IF cleaned < CleanupEvery
    THEN UNCHANGED memVars
    ELSE dedup' = Purged(dedup) /\ cleaned' = 0

-----------------------------------------------------------------------------
(* The handlers. *)

Idle == /\ stage' = "idle" /\ event' = NoEvent /\ todo' = <<>> /\ inserting' = <<>>

\* The handler is left before the end: for the drone's first detection, that
\* is the end of its new_drone alert, unless the row is written already.
Abandoned ==
  cutShort' = IF event # NoEvent /\ count[event.drone] = 1
                THEN cutShort \cup {event.drone} ELSE cutShort

\* Mutant: an update that conflicts inserts a row again.
Counted_Reset(d) == 1

Counted(d) == IF count[d] = 0 THEN 1 ELSE 2

\* The transaction of _handle_detection: rolled back, committed, or committed
\* with an exception all the same, which ends the handler.
Receive ==
  /\ stage = "idle"
  /\ \E e \in Events :
       /\ count' = [count EXCEPT ![e.drone] = Counted(e.drone)]
       /\ \/ /\ stage' = "evaluate" /\ event' = e
             /\ UNCHANGED <<todo, inserting, cutShort>>
          \/ /\ cutShort' = IF count[e.drone] = 0 THEN cutShort \cup {e.drone} ELSE cutShort
             /\ UNCHANGED taskVars
  /\ UNCHANGED <<memVars, lastAlert, unwritten, announced, twice>>

\* Mutant: the alert of a new drone is due at its second detection.
IsNew_Second(d) == count[d] = 2

IsNew(d) == count[d] = 1

\* Mutant: the alerts do not name the node.
Alerts_NoNode(e) ==
  [i \in DOMAIN e.violated |-> <<e.violated[i], e.drone, None>>]
    \o IF IsNew(e.drone) THEN <<NewDrone(e.drone, e.node)>> ELSE <<>>

\* The alerts of the detection, in the order of the rules.
Alerts(e) ==
  [i \in DOMAIN e.violated |-> <<e.violated[i], e.drone, e.node>>]
    \o IF IsNew(e.drone) THEN <<NewDrone(e.drone, e.node)>> ELSE <<>>

\* evaluate() up to the SELECT, which may fail.
Evaluate ==
  /\ stage = "evaluate"
  /\ Cleanup
  /\ \/ /\ stage' = "emit" /\ todo' = Alerts(event)
        /\ UNCHANGED <<event, inserting, cutShort>>
     \/ Abandoned /\ Idle
  /\ UNCHANGED <<count, lastAlert, unwritten, announced, twice>>

\* evaluate_heartbeat() with a jamming state that is not "ok".  The nodes of this
\* repository do not put one in their heartbeats; the handler reads it where it is.
JammedHeartbeat ==
  /\ stage = "idle"
  /\ Cleanup
  /\ \E n \in Nodes : todo' = <<Jamming(n)>>
  /\ stage' = "emit"
  /\ UNCHANGED <<event, inserting, count, history>>

\* Mutant: the window ends a tick early.
Suppressed_Shorter(k) == k \in DOMAIN dedup /\ dedup[k] < Window - 1

Suppressed(k) == k \in DOMAIN dedup /\ dedup[k] < Window

Remember(k) == dedup' = [x \in DOMAIN dedup \cup {k} |-> IF x = k THEN 0 ELSE dedup[x]]

\* The next alert: left out, or its entry is written before its row.
NextAlert ==
  /\ stage = "emit" /\ inserting = <<>> /\ todo # <<>>
  /\ todo' = Tail(todo)
  /\ \/ Suppressed(Head(todo)) /\ UNCHANGED <<dedup, inserting>>
     \/ ~Suppressed(Head(todo)) /\ Remember(Head(todo)) /\ inserting' = <<Head(todo)>>
  /\ UNCHANGED <<stage, event, cleaned, count, history>>

\* What the rows of the table say of new drones.
Announce(k) ==
  IF k[1] = "new_drone"
    THEN /\ announced' = announced \cup {k[2]}
         /\ twice' = IF k[2] \in announced THEN twice \cup {k[2]} ELSE twice
    ELSE UNCHANGED <<announced, twice>>

\* The row of the alert is in the table.
WriteRow(k) ==
  /\ lastAlert' = [lastAlert EXCEPT ![k] = dedup[k]]
  /\ unwritten' = unwritten \ {k}
  /\ Announce(k)

LoseRow(k) ==
  /\ unwritten' = unwritten \cup {k}
  /\ UNCHANGED <<lastAlert, announced, twice>>

\* _emit, once its INSERT has an answer.  An exception leaves evaluate() and
\* the handler, with the alerts that were still to come, and may hide a row
\* that was written.
Emit ==
  /\ inserting # <<>>
  /\ \/ WriteRow(inserting[1]) /\ inserting' = <<>> /\ UNCHANGED <<stage, event, todo, cutShort>>
     \/ (WriteRow(inserting[1]) \/ LoseRow(inserting[1])) /\ Abandoned /\ Idle
  /\ UNCHANGED <<memVars, count>>

\* The message has been handled.
Finish ==
  /\ stage = "emit" /\ inserting = <<>> /\ todo = <<>>
  /\ Idle
  /\ UNCHANGED <<memVars, count, history>>

\* The server is restarted: the database stays, with an INSERT under way or
\* without it, and the entries are gone.
Restart ==
  /\ Idle /\ Abandoned
  /\ dedup' = <<>> /\ cleaned' = CleanupEvery
  /\ lastAlert' = [k \in Keys |-> Forgotten]
  /\ unwritten' = {}
  /\ \/ inserting # <<>> /\ Announce(inserting[1])
     \/ UNCHANGED <<announced, twice>>
  /\ UNCHANGED count

Next ==
  \/ Tick \/ Receive \/ Evaluate \/ JammedHeartbeat
  \/ NextAlert \/ Emit \/ Finish \/ Restart

Spec == Init /\ [][Next]_vars
-----------------------------------------------------------------------------
(* Properties. *)

TypeOK ==
  /\ count \in [Drones -> 0..2]
  /\ DOMAIN dedup \subseteq Keys /\ \A k \in DOMAIN dedup : dedup[k] \in Ages
  /\ cleaned \in 0..CleanupEvery
  /\ stage \in {"idle", "evaluate", "emit"}
  /\ event \in Events \cup {NoEvent}
  /\ todo \in Seq(Keys)
  /\ inserting \in {<<>>} \cup {<<k>> : k \in Keys}
  /\ lastAlert \in [Keys -> Ages \cup {Forgotten}]
  /\ unwritten \subseteq Keys
  /\ announced \subseteq Drones /\ twice \subseteq Drones /\ cutShort \subseteq Drones

\* A key is not alerted again within the window, through purges, failed inserts and
\* slow ones (evaluate 168-174, _cleanup_dedup 47-56): an entry is written only if
\* the last alert whose row is in the table is as old as the window, or was made before
\* a restart, which forgets all entries (__init__ 38-43): then it may be made again at once.
AlertsApart ==
  [][\A k \in Keys :
       inserting = <<>> /\ inserting' = <<k>> =>
         lastAlert[k] \in Window..Old \/ lastAlert[k] = Forgotten]_vars

\* What a fresh entry means, and so what a suppressed alert is owed to: an alert
\* just as old that is in the table, or one whose row was not written.
EntryExplained ==
  \A k \in DOMAIN dedup :
    dedup[k] < Window
      => lastAlert[k] = dedup[k] \/ k \in unwritten \/ inserting = <<k>>

\* The entries are bounded by the purge (47-56): between two purges no entry is
\* older than the window plus the time since the last one.
PurgeBoundsEntries ==
  cleaned < CleanupEvery => \A k \in DOMAIN dedup : dedup[k] <= Window + cleaned

\* A drone is announced once, whatever is redelivered or restarted (134-156).
NewDroneOnce == twice = {}

\* A drone in drone_tracks has its new_drone alert, unless the handling of its
\* first detection was cut short by an error or a restart: then it never will.
NewDroneAccounted ==
  \A d \in Drones :
    count[d] > 0 /\ event.drone # d => d \in announced \cup cutShort

\* Documented (15-17): an alert for a drone is suppressed if the same alert was
\* generated within alert_dedup_window_s seconds.
SuppressionImpliesAlert ==
  stage = "emit" /\ event # NoEvent /\ inserting = <<>> /\ todo # <<>> /\ Suppressed(Head(todo))
    => lastAlert[Head(todo)] < Window
=============================================================================
