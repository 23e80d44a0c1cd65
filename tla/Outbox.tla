------------------------------- MODULE Outbox -------------------------------
(***************************************************************************)
(* What a sensor node's publisher promises to the threads that use it: a   *)
(* message that is handed in is sent once or is lost, never both, and what *)
(* has been sent or lost is never taken back or sent again.  The order is  *)
(* not promised.                                                           *)
(***************************************************************************)
EXTENDS Sequences

CONSTANT Message

VARIABLES
  waiting,  \* messages handed in whose fate is open
  sent,     \* messages handed to the MQTT client, in order
  lost      \* messages that never will be

vars == <<waiting, sent, lost>>

Elements(s) == {s[i] : i \in DOMAIN s}

Init == waiting = {} /\ sent = <<>> /\ lost = {}

HandIn(m) ==
  /\ m \notin waiting \cup Elements(sent) \cup lost
  /\ waiting' = waiting \cup {m}
  /\ UNCHANGED <<sent, lost>>

Send(m) ==
  /\ m \in waiting
  /\ waiting' = waiting \ {m} /\ sent' = Append(sent, m)
  /\ UNCHANGED lost

Lose(m) ==
  /\ m \in waiting
  /\ waiting' = waiting \ {m} /\ lost' = lost \cup {m}
  /\ UNCHANGED sent

Next == \E m \in Message : HandIn(m) \/ Send(m) \/ Lose(m)

Spec == Init /\ [][Next]_vars
=============================================================================
