---------------------------- MODULE NodePresence ----------------------------
(***************************************************************************)
(* How the server comes to know that a sensor node is there: the online,   *)
(* offline and heartbeat messages of one node (argus-node/publisher/       *)
(* mqtt_client.py, argus-node/agent.py), the broker between them, which    *)
(* keeps the last status and publishes the node's will when its session    *)
(* dies, and the row of the node in the server's table (mqtt/subscriber.py *)
(* 63-90, 242-323).                                                        *)
(*                                                                         *)
(* The broker is not part of the repository; it is modelled as the node    *)
(* and the server use it.  The server subscribes with QoS 0 and a clean    *)
(* session: what is under way to it when its session ends is lost.  The    *)
(* publisher's queue is that of MqttPublisher; here a heartbeat is handed  *)
(* to the client at any moment at which its drain thread may do so.        *)
(***************************************************************************)
EXTENDS Integers, Sequences

CONSTANT MaxInFlight  \* bound of the model: messages between broker and server

ASSUME PresenceAssumption == MaxInFlight \in Nat \ {0}

VARIABLES
  phase,     \* the node's process: "down", "up", "stopping" (disconnect() has
             \* begun), "closing" (its network loop is stopped)
  link,      \* the node's connection: "none", "open" (CONNACK under way) or "up"
  alive,     \* the broker has a session of the node, dead or alive, with a will
  deferred,  \* the client keeps an "offline" it could not send
  inHand,    \* the drain thread, told to stop, still has a heartbeat to publish
  retained,  \* the retained message on the node's status topic
  net,       \* messages under way from the broker to the server
  sub,       \* the server is connected and subscribed
  dbUp,      \* the server's database answers
  row,       \* nodes.status of the node
  \* History.
  late,      \* a heartbeat followed the "offline" of a disconnect(), no status since
  revived,   \* an "online" of _on_connect followed it, no status since
  lost,      \* a status message was lost to the database since the subscription
  beat       \* a heartbeat was written to the row since the subscription and
             \* since the last status message the server has taken

nodeVars   == <<phase, link, deferred, inHand>>
brokerVars == <<alive, retained, net>>
serverVars == <<sub, dbUp, row>>
vars       == <<nodeVars, brokerVars, serverVars, late, revived, lost, beat>>

Statuses == {"online", "offline"}

Init ==
  /\ phase = "down" /\ link = "none" /\ deferred = FALSE /\ inHand = FALSE
  /\ alive = FALSE /\ retained = "none" /\ net = <<>>
  /\ sub = FALSE /\ dbUp = TRUE /\ row = "none"
  /\ late = FALSE /\ revived = FALSE /\ lost = FALSE /\ beat = FALSE

-----------------------------------------------------------------------------
(* The broker. *)

Room(n) == Len(net) + n <= MaxInFlight

\* To the server, if it is subscribed.
Forward(msgs) == net' = IF sub THEN net \o msgs ELSE net

\* A status message, with the retain flag.
Retain(s) ==
  /\ retained' = s /\ Forward(<<s>>)
  /\ late' = FALSE /\ revived' = FALSE

\* The session of a node that is gone times out, or its connection is closed by
\* the peer: the will of __init__ is published.
Will ==
  /\ alive /\ link = "none" /\ Room(1)
  /\ alive' = FALSE
  /\ Retain("offline")
  /\ UNCHANGED <<nodeVars, serverVars, lost, beat>>

-----------------------------------------------------------------------------
(* The node. *)

Start ==
  /\ phase = "down"
  /\ phase' = "up"
  /\ UNCHANGED <<link, deferred, inHand, brokerVars, serverVars, late, revived, lost, beat>>

\* The network loop connects, until loop_stop().  A session the broker still has
\* under this client id is taken over: it ends, with its will.
Connect ==
  /\ phase \in {"up", "stopping"} /\ link = "none" /\ Room(1)
  /\ link' = "open" /\ alive' = TRUE
  /\ IF alive THEN Retain("offline") ELSE UNCHANGED <<retained, net, late, revived>>
  /\ UNCHANGED <<phase, deferred, inHand, serverVars, lost, beat>>

\* What the broker gets once the connection is there: _on_connect publishes
\* "online", stopping or not, and then the client sends what it has kept.
FirstWords == IF deferred THEN <<"online", "offline">> ELSE <<"online">>

\* Mutant: the status is not retained.
OnConnect_NotRetained ==
  /\ link = "open" /\ Room(2)
  /\ link' = "up" /\ deferred' = FALSE
  /\ Forward(FirstWords)
  /\ late' = FALSE /\ revived' = (phase # "up" /\ ~deferred)
  /\ UNCHANGED <<phase, inHand, alive, retained, serverVars, lost, beat>>

OnConnect ==
  /\ link = "open" /\ Room(2)
  /\ link' = "up" /\ deferred' = FALSE
  /\ Forward(FirstWords) /\ retained' = FirstWords[Len(FirstWords)]
  /\ late' = FALSE /\ revived' = (phase # "up" /\ ~deferred)
  /\ UNCHANGED <<phase, inHand, alive, serverVars, lost, beat>>

\* The drain thread hands a heartbeat to the client: _connected is set before
\* "online" is published, and the thread may have one in hand when it is told
\* to stop (MqttPublisher: AtMostOneAfterOffline).
Heartbeat ==
  /\ link # "none" /\ Room(1)
  /\ phase = "up" \/ inHand
  /\ inHand' = FALSE
  /\ Forward(<<"heartbeat">>)
  /\ late' = (late \/ phase # "up")
  /\ UNCHANGED <<phase, link, deferred, alive, retained, serverVars, revived, lost, beat>>

LinkLost ==
  /\ link # "none"
  /\ link' = "none"
  /\ UNCHANGED <<phase, deferred, inHand, brokerVars, serverVars, late, revived, lost, beat>>

Crash ==
  /\ phase # "down"
  /\ phase' = "down" /\ link' = "none" /\ deferred' = FALSE /\ inHand' = FALSE
  /\ UNCHANGED <<brokerVars, serverVars, late, revived, lost, beat>>

\* Mutant: disconnect() without its status message.
PublishOffline_Forgotten ==
  /\ phase = "up" /\ phase' = "stopping"
  /\ inHand' \in BOOLEAN
  /\ UNCHANGED <<link, deferred, brokerVars, serverVars, late, revived, lost, beat>>

\* disconnect(): "offline" is sent, or kept by a client that has no connection;
\* while the connection is being made, it may be either.
PublishOffline ==
  /\ phase = "up" /\ Room(1)
  /\ phase' = "stopping" /\ inHand' \in BOOLEAN
  /\ \/ link # "none" /\ Retain("offline") /\ UNCHANGED deferred
     \/ link # "up" /\ deferred' = TRUE /\ UNCHANGED <<retained, net, late, revived>>
  /\ UNCHANGED <<link, alive, serverVars, lost, beat>>

\* loop_stop() returns when what the client has to send is sent, or unsendable.
LoopStop ==
  /\ phase = "stopping" /\ link # "open"
  /\ phase' = "closing"
  /\ UNCHANGED <<link, deferred, inHand, brokerVars, serverVars, late, revived, lost, beat>>

\* client.disconnect(): with a connection, the broker ends the session and
\* forgets the will; and the process exits.
Disconnect ==
  /\ phase = "closing"
  /\ phase' = "down" /\ link' = "none" /\ deferred' = FALSE /\ inHand' = FALSE
  /\ alive' = (alive /\ link = "none")
  /\ UNCHANGED <<retained, net, serverVars, late, revived, lost, beat>>

-----------------------------------------------------------------------------
(* The server. *)

\* Mutant: the retained status is not read.
Subscribe_NoRetained ==
  /\ ~sub
  /\ sub' = TRUE
  /\ net' = <<>>
  /\ lost' = FALSE /\ beat' = FALSE
  /\ UNCHANGED <<nodeVars, alive, retained, dbUp, row, late, revived>>

\* _connect_and_subscribe: the retained status comes with the subscription.
Subscribe ==
  /\ ~sub
  /\ sub' = TRUE
  /\ net' = IF retained = "none" THEN <<>> ELSE <<retained>>
  /\ lost' = FALSE /\ beat' = FALSE
  /\ UNCHANGED <<nodeVars, alive, retained, dbUp, row, late, revived>>

ServerLost ==
  /\ sub
  /\ sub' = FALSE /\ net' = <<>>
  /\ UNCHANGED <<nodeVars, alive, retained, dbUp, row, late, revived, lost, beat>>

DatabaseChange ==
  /\ dbUp' = ~dbUp
  /\ UNCHANGED <<nodeVars, brokerVars, sub, row, late, revived, lost, beat>>

\* Mutant: a heartbeat of a known node leaves its status alone.
StatusOf_HeartbeatSilent(m) == IF m \in Statuses THEN m ELSE row

\* Mutant: the status of the payload is not looked at.
StatusOf_Raw(m) == m

\* What _handle_status and _handle_heartbeat write to the row.
StatusOf(m) == IF m \in Statuses THEN m ELSE "online"

\* One message: its handler writes the row, or an exception is logged and the
\* message is gone.
Handle ==
  /\ net # <<>>
  /\ net' = Tail(net)
  /\ IF dbUp
       THEN row' = StatusOf(Head(net)) /\ UNCHANGED lost
       ELSE lost' = (lost \/ Head(net) \in Statuses) /\ UNCHANGED row
  /\ beat' = (Head(net) = "heartbeat" /\ (beat \/ dbUp))
  /\ UNCHANGED <<nodeVars, alive, retained, sub, dbUp, late, revived>>

-----------------------------------------------------------------------------
Node ==
  \/ Start \/ Connect \/ OnConnect \/ Heartbeat \/ LinkLost \/ Crash
  \/ PublishOffline \/ LoopStop \/ Disconnect

Server == Subscribe \/ ServerLost \/ DatabaseChange \/ Handle

Next == Will \/ Node \/ Server

Spec == Init /\ [][Next]_vars

\* The broker's keepalive runs out, callbacks run, the main loop sends its
\* heartbeats, disconnect() goes on, and the server reads its messages.  Nothing
\* makes a process start, a connection form or the database answer.
Fairness ==
  /\ WF_vars(Will) /\ WF_vars(OnConnect) /\ WF_vars(LoopStop) /\ WF_vars(Disconnect)
  /\ WF_vars(phase = "up" /\ Heartbeat)
  /\ WF_vars(Handle)

FairSpec == Spec /\ Fairness
-----------------------------------------------------------------------------
(* Properties. *)

TypeOK ==
  /\ phase \in {"down", "up", "stopping", "closing"}
  /\ link \in {"none", "open", "up"}
  /\ alive \in BOOLEAN /\ deferred \in BOOLEAN /\ inHand \in BOOLEAN
  /\ retained \in Statuses \cup {"none"}
  /\ net \in Seq(Statuses \cup {"heartbeat"}) /\ Len(net) <= MaxInFlight
  /\ sub \in BOOLEAN /\ dbUp \in BOOLEAN
  /\ row \in Statuses \cup {"none"}
  /\ late \in BOOLEAN /\ revived \in BOOLEAN /\ lost \in BOOLEAN /\ beat \in BOOLEAN

\* What the broker retains is what holds of the node: "online" only while it has
\* a session of it, whatever was lost, taken over or restarted, unless the node
\* said so while it was stopping; and never a stale "offline" for a node whose
\* callback has run (59-62, 79-83, 202-214).
RetainedTellsTruth ==
  /\ retained = "online" => alive \/ revived
  /\ link = "up" /\ phase = "up" => retained = "online"

\* The row of a node with no message under way is what the broker retains, if the
\* server is subscribed and its database lost no status; only a heartbeat taken after
\* the retained status makes it "online" against an "offline" (242-323).
RowFollowsRetained ==
  sub /\ net = <<>> /\ ~lost /\ retained # "none" =>
    row = retained \/ (row = "online" /\ beat)

\* A node that is gone for good, crashed, cut off or stopped, ends up shown as
\* something else than online, if the server goes on and its database lost no
\* status, and unless a heartbeat or an "online" followed its own "offline".
ServerGoesOn == <>[](sub /\ dbUp /\ ~lost)

GoneNodeNotOnline ==
  <>[](phase = "down") /\ ServerGoesOn 
    => <>[](row # "online") \/ <>[](late \/ revived)

\* A node that stays connected is shown online, even when the database lost its
\* "online": heartbeats repair the row (242-276).
PresentNodeOnline ==
  <>[](phase = "up" /\ link = "up") /\ <>[](sub /\ dbUp) => <>[](row = "online")

\* Documented (36): `Last Will Testament for offline detection on the AEGIS
\* platform', and argus-node/README.md 73, `online/offline (retained, LWT)': a
\* node that is gone for good is found to be.
OfflineDetected ==
  <>[](phase = "down") /\ ServerGoesOn => <>[](row # "online")
=============================================================================
