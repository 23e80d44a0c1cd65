--------------------------- MODULE DashboardLink ---------------------------
(***************************************************************************)
(* The connections of the dashboard's store (aegis-shield/src/store/       *)
(* useStore.js): its WebSocket with the reconnects, the polls that run     *)
(* while it is open, and the threat data they merge into the drones.       *)
(*                                                                         *)
(* React calls connect() when the app is mounted, in development twice:    *)
(* two sockets then share one store.  What follows from a call is a link,  *)
(* which is a socket or the timer that will make the next one.  One drone; *)
(* its score is a version.  The threat poll asks for the drones of the     *)
(* last five minutes, the 100 highest scores of them (routes/analysis.py   *)
(* 18-40): the drone may be left out of it and is on the map all the same, *)
(* which shows the drones of a day (routes/websocket.py 81-93).            *)
(***************************************************************************)
EXTENDS Integers

CONSTANTS
  MaxLinks,    \* calls of connect() when the app is mounted
  MaxVersion   \* bound of the model: changes of the score

ASSUME LinkAssumption == MaxLinks \in Nat \ {0} /\ MaxVersion \in Nat

Links == 1..MaxLinks

VARIABLES
  link,         \* "none", "connecting", "open", "closing", "timer" or "over"
  status,       \* wsStatus
  current,      \* _ws: a link, or 0
  threatPoll,   \* _threatPollTimer runs
  healthPoll,   \* _healthPollTimer runs
  asked,        \* versions that answers of the threat poll under way hold, -1 if the
                \* drone is not in one
  threatData,   \* version in threatData, -1 if the drone is not in it
  displayed,    \* version merged into drones, -1 for a drone without one, -2 for no drone
  inTable,      \* version in the table
  listed,       \* seen within five minutes, and among the 100 highest scores
  reachable     \* the server accepts and answers

socketVars == <<link, status, current, threatPoll, healthPoll>>
threatVars == <<asked, threatData, displayed>>
tableVars  == <<inTable, listed>>
linkVars   == <<socketVars, threatVars, tableVars, reachable>>

LinkInit ==
  /\ link = [i \in Links |-> "none"] /\ status = "disconnected" /\ current = 0
  /\ threatPoll = FALSE /\ healthPoll = FALSE
  /\ asked = {} /\ threatData = -1 /\ displayed = -2
  /\ inTable = 0 /\ listed = FALSE /\ reachable = FALSE

-----------------------------------------------------------------------------
(* The server. *)

\* While it is gone its connections break.
ComeAndGo == reachable' = ~reachable /\ UNCHANGED <<socketVars, threatVars, tableVars>>

Rescore ==
  /\ inTable < MaxVersion /\ inTable' = inTable + 1
  /\ UNCHANGED <<socketVars, threatVars, listed, reachable>>

\* The drone is silent for five minutes, or heard again; or others score higher.
Relist == listed' = ~listed /\ UNCHANGED <<socketVars, threatVars, inTable, reachable>>

\* What list_threats has of the drone.
Listing == IF listed THEN inTable ELSE -1

-----------------------------------------------------------------------------
(* connect() and disconnect(). *)

\* What connect() makes of the links in is.
Connecting(is) ==
  IF status = "connected"
    THEN link' = [i \in Links |-> IF i \in is THEN "over" ELSE link[i]] /\ UNCHANGED status
    ELSE link' = [i \in Links |-> IF i \in is THEN "connecting" ELSE link[i]] /\ status' = "connecting"

Mount ==
  /\ \A i \in Links : link[i] = "none"
  /\ \E n \in Links : Connecting(1..n)
  /\ UNCHANGED <<current, threatPoll, healthPoll, threatVars, tableVars, reachable>>

\* Mutant: a poll that was running once is not started again.
OnOpen_PollsOnce(i) ==
  /\ link[i] = "connecting" /\ reachable
  /\ link' = [link EXCEPT ![i] = "open"] /\ status' = "connected" /\ current' = i
  /\ threatPoll' = (threatPoll \/ threatData = -1) /\ healthPoll' = TRUE
  /\ asked' = asked \cup {Listing}
  /\ UNCHANGED <<threatData, displayed, tableVars, reachable>>

\* onopen: both polls are started anew, each with a request at once.
OnOpen(i) ==
  /\ link[i] = "connecting" /\ reachable
  /\ link' = [link EXCEPT ![i] = "open"] /\ status' = "connected" /\ current' = i
  /\ threatPoll' = TRUE /\ healthPoll' = TRUE
  /\ asked' = asked \cup {Listing}
  /\ UNCHANGED <<threatData, displayed, tableVars, reachable>>

\* Mutant: the timer is not set when another socket is connected.
OnClose_IfAlone(i) ==
  /\ link[i] = "closing" \/ (link[i] \in {"connecting", "open"} /\ ~reachable)
  /\ link' = [link EXCEPT ![i] = IF \E j \in Links \ {i} : link[j] = "open" THEN "over" ELSE "timer"]
  /\ status' = "disconnected" /\ current' = 0
  /\ threatPoll' = FALSE /\ healthPoll' = FALSE
  /\ UNCHANGED <<threatVars, tableVars, reachable>>

\* onerror and onclose, whatever the other socket does.
OnClose(i) ==
  /\ link[i] = "closing" \/ (link[i] \in {"connecting", "open"} /\ ~reachable)
  /\ link' = [link EXCEPT ![i] = "timer"]
  /\ status' = "disconnected" /\ current' = 0
  /\ threatPoll' = FALSE /\ healthPoll' = FALSE
  /\ UNCHANGED <<threatVars, tableVars, reachable>>

\* The timer of onclose, after a delay that doubles up to 30 s.
Reconnect(i) ==
  /\ link[i] = "timer" /\ Connecting({i})
  /\ UNCHANGED <<current, threatPoll, healthPoll, threatVars, tableVars, reachable>>

\* Its socket is closed, and onclose follows.
Disconnect ==
  /\ \E i \in Links : link[i] # "none"
  /\ link' = [i \in Links |-> IF i = current THEN "closing" ELSE link[i]]
  /\ status' = "disconnected" /\ current' = 0 /\ threatPoll' = FALSE
  /\ UNCHANGED <<healthPoll, threatVars, tableVars, reachable>>

-----------------------------------------------------------------------------
(* The threat poll and the live state. *)

PollThreats ==
  /\ threatPoll /\ asked' = asked \cup {Listing}
  /\ UNCHANGED <<socketVars, threatData, displayed, tableVars, reachable>>

\* An answer, of this poll or an earlier one, also after the poll was stopped: it takes the
\* place of threatData, and the scores it has are merged into the drones; failures are
\* passed over.
AnswerThreats ==
  /\ \E v \in asked :
       /\ asked' = asked \ {v}
       /\ \/ /\ threatData' = v
             /\ displayed' = IF displayed = -2 \/ v = -1 THEN displayed ELSE v
          \/ ~reachable /\ UNCHANGED <<threatData, displayed>>
  /\ UNCHANGED <<socketVars, tableVars, reachable>>

\* _applyLiveState: the rows carry no threat; it is taken from threatData.
ApplyState ==
  /\ \E i \in Links : link[i] = "open"
  /\ displayed' \in {-2, threatData}
  /\ UNCHANGED <<socketVars, asked, threatData, tableVars, reachable>>

-----------------------------------------------------------------------------
LinkNext ==
  \/ ComeAndGo \/ Rescore \/ Relist \/ Mount \/ Disconnect
  \/ \E i \in Links : OnOpen(i) \/ OnClose(i) \/ Reconnect(i)
  \/ PollThreats \/ AnswerThreats \/ ApplyState

\* Timers fire, a socket that connects opens or fails, requests end.
LinkFairness ==
  /\ \A i \in Links : WF_linkVars(OnOpen(i) \/ OnClose(i)) /\ WF_linkVars(Reconnect(i))
  /\ WF_linkVars(PollThreats) /\ WF_linkVars(AnswerThreats)

LinkSpec == LinkInit /\ [][LinkNext]_linkVars /\ LinkFairness
-----------------------------------------------------------------------------
(* Properties. *)

LinkTypeOK ==
  /\ link \in [Links -> {"none", "connecting", "open", "closing", "timer", "over"}]
  /\ status \in {"disconnected", "connecting", "connected"} /\ current \in 0..MaxLinks
  /\ threatPoll \in BOOLEAN /\ healthPoll \in BOOLEAN
  /\ asked \subseteq -1..MaxVersion /\ threatData \in -1..MaxVersion /\ displayed \in -2..MaxVersion
  /\ inTable \in 0..MaxVersion /\ listed \in BOOLEAN /\ reachable \in BOOLEAN

\* A live state comes to a drone that does not show what it would give it, as long as the
\* server's pusher lives (LiveFeed).
StatesCome == WF_linkVars(displayed \notin {-2, threatData} /\ ApplyState)

\* A dashboard finds back to a server that is there for good: it is connected, both polls
\* run, and the drone shows what the threat list has of it in the end, the score of the
\* table or, once it is silent for five minutes, none; whichever of two sockets closed while
\* the other one was open, and whatever disconnect() was called for or answers came too
\* late before (connect 71-95, disconnect 97-101, _startThreatPoll 146-183).
DashboardRecovers ==
  <>[]reachable /\ <>[][~Disconnect /\ ~Relist]_linkVars /\ StatesCome
    => <>[]( (\E i \in Links : link[i] # "none") =>
               /\ status = "connected" /\ threatPoll /\ healthPoll
               /\ displayed \in {-2, Listing} )
=============================================================================
