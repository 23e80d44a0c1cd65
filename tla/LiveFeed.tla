------------------------------ MODULE LiveFeed ------------------------------
(***************************************************************************)
(* How an alert gets from the server's table to the operator's screen and  *)
(* back: the insert and the broadcast (mqtt/alert_engine.py _emit,         *)
(* mqtt/ws_broadcaster.py), the periodic snapshots of one connection       *)
(* (api/routes/websocket.py), the acknowledgements (api/routes/alerts.py)  *)
(* and the dashboard's store (aegis-shield/src/store/useStore.js).         *)
(*                                                                         *)
(* Broadcasts and snapshots are written to the same socket by two asyncio  *)
(* tasks; the acknowledgements travel on connections of their own.  Alerts *)
(* are numbered in the order of their rows.  Left out: the other messages, *)
(* which follow the same path, and the other dashboards.                   *)
(***************************************************************************)
EXTENDS Integers, Sequences, FiniteSets, SequencesExt

CONSTANTS
  MaxAlerts,      \* bound of the model: alerts ever written
  SnapshotLimit,  \* LIMIT of the snapshot's query
  MaxShown,       \* length at which the store cuts its list
  MaxInFlight     \* bound of the model: messages on the socket

ASSUME FeedAssumption ==
  /\ MaxAlerts \in Nat /\ MaxInFlight \in Nat
  /\ SnapshotLimit \in Nat \ {0} /\ MaxShown \in Nat /\ SnapshotLimit <= MaxShown

VARIABLES
  written,    \* alerts in the table: 1 .. written
  acked,      \* those with acknowledged = TRUE
  posting,    \* the alert whose row is written and whose broadcast is not done, or 0
  socket,     \* the WebSocket, as both ends see it: "closed" or "open"
  pusher,     \* the connection's _live_state_pusher: "idle", "query" or "dead"
  snapshot,   \* the rows its query has returned
  wire,       \* messages on their way to the browser
  store,      \* alerts of the store, newest first: id and acknowledged flag
  acking      \* acknowledge requests under way; 0 stands for acknowledge-all

tableVars  == <<written, acked>>
serverVars == <<posting, socket, pusher, snapshot, wire>>
clientVars == <<store, acking>>
vars       == <<tableVars, serverVars, clientVars>>

Ids == 1..MaxAlerts
AlertMsg(id)  == [type |-> "alert", ids |-> <<id>>]
StateMsg(ids) == [type |-> "live_state", ids |-> ids]

Init ==
  /\ written = 0 /\ acked = {} /\ posting = 0
  /\ socket = "closed" /\ pusher = "dead" /\ snapshot = <<>> /\ wire = <<>>
  /\ store = <<>> /\ acking = {}

AtMost(m, n) == IF m < n THEN m ELSE n

Newest(n, s) == SubSeq(s, 1, AtMost(Len(s), n))

-----------------------------------------------------------------------------
(* The server. *)

\* The INSERT of _emit; the task waits for its answer and then broadcasts.
InsertAlert ==
  /\ posting = 0 /\ written < MaxAlerts
  /\ written' = written + 1 /\ posting' = written + 1
  /\ UNCHANGED <<acked, socket, pusher, snapshot, wire, clientVars>>

\* broadcast_alert: to the connections there are now.
BroadcastAlert ==
  /\ posting # 0
  /\ IF socket = "open"
       THEN Len(wire) < MaxInFlight /\ wire' = Append(wire, AlertMsg(posting))
       ELSE UNCHANGED wire
  /\ posting' = 0
  /\ UNCHANGED <<tableVars, socket, pusher, snapshot, clientVars>>

Open == (1..written) \ acked

\* How many of a set are newer.
Rank(S, id) == Cardinality({o \in S : o > id})

\* ORDER BY created_at DESC LIMIT of what is not acknowledged.
Recent ==
  [i \in 1..AtMost(Cardinality(Open), SnapshotLimit) |->
     CHOOSE id \in Open : Rank(Open, id) = i - 1]

\* _build_live_state, which awaits the database.  An exception ends the task; the
\* connection stays.
Query ==
  /\ pusher = "idle"
  /\ \/ pusher' = "query" /\ snapshot' = Recent
     \/ pusher' = "dead" /\ UNCHANGED snapshot
  /\ UNCHANGED <<tableVars, posting, socket, wire, clientVars>>

\* Mutant: the state is built once and sent again and again.
SendSnapshot_Same ==
  /\ pusher = "query" /\ Len(wire) < MaxInFlight
  /\ wire' = Append(wire, StateMsg(snapshot))
  /\ UNCHANGED <<tableVars, posting, socket, pusher, snapshot, clientVars>>

\* send_text of what was built, then the sleep.
SendSnapshot ==
  /\ pusher = "query" /\ Len(wire) < MaxInFlight
  /\ wire' = Append(wire, StateMsg(snapshot))
  /\ pusher' = "idle" /\ snapshot' = <<>>
  /\ UNCHANGED <<tableVars, posting, socket, clientVars>>

-----------------------------------------------------------------------------
(* The connection. *)

\* connect(), onopen and websocket_endpoint.
Connect ==
  /\ socket = "closed"
  /\ socket' = "open" /\ pusher' = "idle"
  /\ UNCHANGED <<tableVars, posting, snapshot, wire, clientVars>>

\* onclose and the endpoint's finally block: the pusher is cancelled, what was on
\* its way is lost, the store keeps what it shows.
Close ==
  /\ socket = "open"
  /\ socket' = "closed" /\ pusher' = "dead" /\ snapshot' = <<>> /\ wire' = <<>>
  /\ UNCHANGED <<tableVars, posting, clientVars>>

-----------------------------------------------------------------------------
(* The store. *)

Entry(id) == [id |-> id, acknowledged |-> FALSE]
Entries(ids) == [i \in DOMAIN ids |-> Entry(ids[i])]

\* Mutant: a new alert goes to the end.
AddAlert_AtEnd(id) == Newest(MaxShown, Append(store, Entry(id)))

\* Mutant: the list is never cut.
AddAlert_Uncut(id) == <<Entry(id)>> \o store

\* _addAlert.
AddAlert(id) == Newest(MaxShown, <<Entry(id)>> \o store)

\* Mutant: what is shown already is kept.
ApplyLiveState_Merges(ids) ==
  LET shown == {s.id : s \in ToSet(store)}
  IN  Newest(MaxShown, SelectSeq(Entries(ids), LAMBDA e : e.id \notin shown) \o store)

\* _applyLiveState replaces the alerts.
ApplyLiveState(ids) == Entries(ids)

\* onmessage.
Receive ==
  /\ wire # <<>>
  /\ wire' = Tail(wire)
  /\ LET m == Head(wire) IN
       store' = IF m.type = "alert" THEN AddAlert(m.ids[1]) ELSE ApplyLiveState(m.ids)
  /\ UNCHANGED <<tableVars, posting, socket, pusher, snapshot, acking>>

Marked(P(_)) ==
  [i \in DOMAIN store |-> IF P(store[i]) THEN [store[i] EXCEPT !.acknowledged = TRUE] ELSE store[i]]

\* acknowledgeAlert: marked at once, then posted.
AcknowledgeAlert(id) ==
  /\ Entry(id) \in ToSet(store) /\ id \notin acking
  /\ store' = Marked(LAMBDA e : e.id = id)
  /\ acking' = acking \cup {id}
  /\ UNCHANGED <<tableVars, serverVars>>

AcknowledgeAll ==
  /\ 0 \notin acking /\ \E id \in Ids : Entry(id) \in ToSet(store)
  /\ store' = Marked(LAMBDA e : TRUE)
  /\ acking' = acking \cup {0}
  /\ UNCHANGED <<tableVars, serverVars>>

\* What a request acknowledges in the table: acknowledge-all, whatever there is.
Acknowledges(r) == IF r = 0 THEN Open ELSE {r}

\* The request is carried out or fails; the store does not look.
PostAcknowledge ==
  \E r \in acking :
    /\ acking' = acking \ {r}
    /\ acked' \in {acked, acked \cup Acknowledges(r)}
    /\ UNCHANGED <<written, serverVars, store>>

-----------------------------------------------------------------------------
Next ==
  \/ InsertAlert \/ BroadcastAlert \/ Query \/ SendSnapshot
  \/ Connect \/ Close
  \/ Receive \/ AcknowledgeAll \/ PostAcknowledge
  \/ \E id \in Ids : AcknowledgeAlert(id)

Spec == Init /\ [][Next]_vars

\* The server's tasks and the browser go on, requests end.
Fairness ==
  /\ WF_vars(BroadcastAlert) /\ WF_vars(Query) /\ WF_vars(SendSnapshot)
  /\ WF_vars(Receive) /\ WF_vars(PostAcknowledge)

FairSpec == Spec /\ Fairness
-----------------------------------------------------------------------------
(* Properties. *)

TypeOK ==
  /\ written \in 0..MaxAlerts /\ acked \subseteq 1..written
  /\ posting \in {0, written}
  /\ socket \in {"closed", "open"} /\ pusher \in {"idle", "query", "dead"}
  /\ snapshot \in Seq(Ids) /\ Len(snapshot) <= SnapshotLimit
  /\ wire \in Seq([type: {"alert", "live_state"}, ids: Seq(Ids)]) /\ Len(wire) <= MaxInFlight
  /\ store \in Seq([id: Ids, acknowledged: BOOLEAN]) /\ Len(store) <= MaxShown
  /\ acking \subseteq Ids \cup {0}

\* The store lists its alerts newest first, an alert twice at most, however the
\* broadcasts and the snapshots overtake one another: a snapshot that holds an
\* alert may be applied before the alert's own broadcast (_emit 237-254 against
\* _live_state_pusher 65-74, _addAlert 129-131).
NewestFirst ==
  /\ \A i, j \in DOMAIN store : i < j => store[i].id >= store[j].id
  /\ \A i, j, k \in DOMAIN store : i < j /\ j < k => store[i].id > store[k].id

\* What the store is about to be told: the wire and the snapshot not yet sent.
Coming == IF pusher = "query" THEN Append(wire, StateMsg(snapshot)) ELSE wire

\* A snapshot that lacks an alert although nothing newer took its place.
Misses(m, id) ==
  /\ m.type = "live_state" /\ id \notin ToSet(m.ids)
  /\ Len(m.ids) = SnapshotLimit => id > Last(m.ids)

\* An open alert that the store shows, or is about to show, lapses once at most: of
\* the snapshots that follow its broadcast one may have been read before the row was
\* written, and wipes the alert off the screen; the next brings it back (_emit
\* 237-254 between the await and the send of _live_state_pusher 65-70,
\* _applyLiveState 112-124).
LapsesOnce ==
  \A id \in Open :
    \A i, j \in DOMAIN Coming :
      i < j /\ Misses(Coming[i], id) /\ Misses(Coming[j], id) =>
        /\ \A e \in ToSet(store) : e.id # id
        /\ \A k \in 1..i : Coming[k] # AlertMsg(id)

\* When nothing new is written and no acknowledgement made, a dashboard whose
\* connection and pusher live on shows in the end exactly the newest open alerts,
\* whatever was lost, overtaken, overwritten or acknowledged in vain before.
Quiet == <>[][UNCHANGED tableVars /\ ~AcknowledgeAll /\ \A id \in Ids : ~AcknowledgeAlert(id)]_vars

StoreCatchesUp ==
  Quiet /\ <>[](socket = "open" /\ pusher # "dead") => <>[](store = Entries(Recent))
=============================================================================
