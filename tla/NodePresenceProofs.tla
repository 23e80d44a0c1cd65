------------------------- MODULE NodePresenceProofs -------------------------
(***************************************************************************)
(* Theorems about NodePresence, for any number of messages under way.      *)
(***************************************************************************)
EXTENDS NodePresence, SequenceTheorems, TLAPS

Messages == Statuses \cup {"heartbeat"}

\* The types of all but the messages under way, which take other facts.
PlainTypes ==
  /\ phase \in {"down", "up", "stopping", "closing"}
  /\ link \in {"none", "open", "up"}
  /\ alive \in BOOLEAN /\ deferred \in BOOLEAN /\ inHand \in BOOLEAN
  /\ retained \in Statuses \cup {"none"}
  /\ sub \in BOOLEAN /\ dbUp \in BOOLEAN
  /\ late \in BOOLEAN /\ revived \in BOOLEAN /\ lost \in BOOLEAN /\ beat \in BOOLEAN

NetType == net \in Seq(Messages) /\ Len(net) <= MaxInFlight

RowType == row \in Statuses \cup {"none"}

\* Type correctness in three parts: the flags, what is under way, the row.
LEMMA TypeParts == TypeOK <=> PlainTypes /\ NetType /\ RowType
PROOF BY DEF TypeOK, PlainTypes, NetType, RowType, Messages

\* The same of the next state.
LEMMA TypePartsNext == PlainTypes' /\ NetType' /\ RowType' => TypeOK'
PROOF BY DEF TypeOK, PlainTypes, NetType, RowType, Messages

\* The node starts with its types.
LEMMA TypeInit == Init => TypeOK
PROOF
  <1> SUFFICES ASSUME Init PROVE TypeOK
    OBVIOUS
  <1>1. PlainTypes BY DEF Init, PlainTypes, Statuses
  <1>2. <<>> \in Seq(Messages) /\ Len(<<>>) = 0 OBVIOUS
  <1>3. NetType BY <1>2, PresenceAssumption DEF Init, NetType
  <1>4. RowType BY DEF Init, RowType
  <1> QED BY <1>1, <1>3, <1>4, TypeParts

\* Forwarding messages for which there is room keeps the bound.
LEMMA ForwardType ==
  ASSUME NetType, NEW msgs \in Seq(Messages), Room(Len(msgs)), Forward(msgs)
  PROVE  NetType'
PROOF
  <1>1. net \o msgs \in Seq(Messages) /\ Len(net \o msgs) = Len(net) + Len(msgs)
    BY ConcatProperties DEF NetType
  <1> QED BY <1>1 DEF NetType, Room, Forward

\* One message, and what _on_connect gives the broker to forward.
LEMMA OneMessage ==
  ASSUME NEW m \in Messages
  PROVE  <<m>> \in Seq(Messages) /\ Len(<<m>>) = 1
PROOF OBVIOUS

\* What _on_connect gives the broker: one status or two (210-217).
LEMMA FirstWordsAre ==
  /\ FirstWords \in Seq(Messages)
  /\ Len(FirstWords) <= 2
  /\ FirstWords[Len(FirstWords)] = IF deferred THEN "offline" ELSE "online"
PROOF
  <1>1. CASE deferred
    <2>1. FirstWords = <<"online", "offline">> BY <1>1 DEF FirstWords
    <2> QED BY <1>1, <2>1 DEF Messages, Statuses
  <1>2. CASE ~deferred
    <2>1. FirstWords = <<"online">> BY <1>2 DEF FirstWords
    <2> QED BY <1>2, <2>1 DEF Messages, Statuses
  <1> QED BY <1>1, <1>2

\* A retained status for which there is room keeps the bound.
LEMMA RetainType ==
  ASSUME NetType, NEW s \in Statuses, Room(1), Retain(s)
  PROVE  NetType'
PROOF
  <1>1. <<s>> \in Seq(Messages) /\ Len(<<s>>) = 1 BY OneMessage DEF Messages
  <1> QED BY <1>1, ForwardType DEF Retain

\* Every step keeps what is under way within its bound.
LEMMA NetNext == TypeOK /\ [Next]_vars => NetType'
PROOF
  <1> SUFFICES ASSUME TypeOK, [Next]_vars PROVE NetType'
    OBVIOUS
  <1>0. NetType BY TypeParts
  <1>1. ASSUME UNCHANGED net PROVE NetType' BY <1>0, <1>1 DEF NetType
  <1>2. "offline" \in Statuses BY DEF Statuses
  <1>3. CASE Will BY <1>0, <1>2, <1>3, RetainType DEF Will
  <1>4. CASE Connect BY <1>0, <1>1, <1>2, <1>4, RetainType DEF Connect
  <1>5. CASE OnConnect
    <2>1. Room(2) /\ Forward(FirstWords) BY <1>5 DEF OnConnect
    <2>2. FirstWords \in Seq(Messages) /\ Len(FirstWords) <= 2 BY FirstWordsAre
    <2>3. Len(FirstWords) \in Nat /\ Len(net) \in Nat BY <2>2, <1>0, LenProperties DEF NetType
    <2>4. Room(Len(FirstWords)) BY <2>1, <2>2, <2>3, PresenceAssumption DEF Room
    <2> QED BY <1>0, <2>1, <2>2, <2>4, ForwardType
  <1>6. CASE Heartbeat
    <2>1. <<"heartbeat">> \in Seq(Messages) /\ Len(<<"heartbeat">>) = 1
      BY OneMessage DEF Messages
    <2> QED BY <1>0, <1>6, <2>1, ForwardType DEF Heartbeat
  <1>7. CASE PublishOffline BY <1>0, <1>1, <1>2, <1>7, RetainType DEF PublishOffline
  <1>8. CASE Start \/ LinkLost \/ Crash \/ LoopStop \/ Disconnect \/ DatabaseChange
    BY <1>1, <1>8 DEF Start, LinkLost, Crash, LoopStop, Disconnect, DatabaseChange, brokerVars
  <1>9. CASE Subscribe \/ ServerLost
    <2>1. <<>> \in Seq(Messages) /\ Len(<<>>) = 0 OBVIOUS
    <2>2. retained # "none" => <<retained>> \in Seq(Messages) /\ Len(<<retained>>) = 1
      BY OneMessage DEF TypeOK, Messages
    <2>3. CASE ServerLost BY <2>1, <2>3, PresenceAssumption DEF ServerLost, NetType
    <2>4. CASE Subscribe /\ retained = "none"
      BY <2>1, <2>4, PresenceAssumption DEF Subscribe, NetType
    <2>5. CASE Subscribe /\ retained # "none"
      <3>1. net' = <<retained>> BY <2>5 DEF Subscribe
      <3> QED BY <2>2, <2>5, <3>1, PresenceAssumption DEF NetType
    <2> QED BY <1>9, <2>3, <2>4, <2>5
  <1>10. CASE Handle
    <2>1. net' = Tail(net) /\ net # <<>> BY <1>10 DEF Handle
    <2>2. Tail(net) \in Seq(Messages) /\ Len(Tail(net)) = Len(net) - 1
      BY <1>0, <2>1, HeadTailProperties DEF NetType
    <2>3. Len(net) \in Nat BY <1>0, LenProperties DEF NetType
    <2> QED BY <1>0, <2>1, <2>2, <2>3, PresenceAssumption DEF NetType
  <1>11. CASE UNCHANGED vars BY <1>1, <1>11 DEF vars, brokerVars
  <1> QED
    BY <1>3, <1>4, <1>5, <1>6, <1>7, <1>8, <1>9, <1>10, <1>11 DEF Next, Node, Server

\* Every step keeps the type of the server's row.
LEMMA RowNext == TypeOK /\ [Next]_vars => RowType'
PROOF
  <1> SUFFICES ASSUME TypeOK, [Next]_vars PROVE RowType'
    OBVIOUS
  <1>1. CASE UNCHANGED row BY <1>1 DEF TypeOK, RowType
  <1>2. CASE Handle
    <2>1. StatusOf(Head(net)) \in Statuses BY DEF StatusOf, Statuses
    <2> QED BY <1>1, <1>2, <2>1 DEF Handle, RowType
  <1> QED
    BY <1>1, <1>2 DEF Next, Node, Server, Will, Start, Connect, OnConnect, Heartbeat, LinkLost,
      Crash, PublishOffline, LoopStop, Disconnect, Subscribe, ServerLost, DatabaseChange,
      serverVars, vars

\* Every step keeps the types of the flags.
LEMMA PlainNext == TypeOK /\ [Next]_vars => PlainTypes'
PROOF
  <1> SUFFICES ASSUME TypeOK, [Next]_vars PROVE PlainTypes'
    OBVIOUS
  <1>0. PlainTypes BY TypeParts
  <1> USE DEF PlainTypes, nodeVars, brokerVars, serverVars
  <1>1. "offline" \in Statuses /\ "online" \in Statuses BY DEF Statuses
  <1>2. CASE Will BY <1>0, <1>1, <1>2 DEF Will, Retain
  <1>3. CASE Connect BY <1>0, <1>1, <1>3 DEF Connect, Retain
  <1>4. CASE OnConnect BY <1>0, <1>1, <1>4, FirstWordsAre DEF OnConnect
  <1>5. CASE Heartbeat BY <1>0, <1>5 DEF Heartbeat
  <1>6. CASE PublishOffline BY <1>0, <1>1, <1>6 DEF PublishOffline, Retain
  <1>7. CASE Start \/ LinkLost \/ Crash \/ LoopStop \/ Disconnect
    <2>1. CASE Start BY <1>0, <2>1 DEF Start
    <2>2. CASE LinkLost BY <1>0, <2>2 DEF LinkLost
    <2>3. CASE Crash BY <1>0, <2>3 DEF Crash
    <2>4. CASE LoopStop BY <1>0, <2>4 DEF LoopStop
    <2>5. CASE Disconnect BY <1>0, <2>5 DEF Disconnect
    <2> QED BY <1>7, <2>1, <2>2, <2>3, <2>4, <2>5
  <1>8. CASE Subscribe \/ ServerLost \/ DatabaseChange
    <2>1. CASE Subscribe
      <3>1. UNCHANGED <<phase, link, deferred, inHand, alive, retained, dbUp, late, revived>>
        BY <2>1 DEF Subscribe
      <3>2. sub' \in BOOLEAN /\ lost' \in BOOLEAN /\ beat' \in BOOLEAN
        BY <2>1 DEF Subscribe
      <3> QED BY <1>0, <3>1, <3>2
    <2>2. CASE ServerLost
      <3>1. UNCHANGED <<phase, link, deferred, inHand, alive, retained, dbUp, late, revived, lost,
                      beat>>
        BY <2>2 DEF ServerLost
      <3>2. sub' \in BOOLEAN
        BY <2>2 DEF ServerLost
      <3> QED BY <1>0, <3>1, <3>2
    <2>3. CASE DatabaseChange
      <3>1. UNCHANGED <<phase, link, deferred, inHand, alive, retained, sub, late, revived, lost,
                      beat>>
        BY <2>3 DEF DatabaseChange
      <3>2. dbUp' \in BOOLEAN
        BY <2>3 DEF DatabaseChange
      <3> QED BY <1>0, <3>1, <3>2
    <2> QED BY <1>8, <2>1, <2>2, <2>3
  <1>9. CASE Handle BY <1>0, <1>9, ZenonT(40) DEF Handle
  <1>10. CASE UNCHANGED vars
    <2>1. UNCHANGED <<phase, link, deferred, inHand, alive, retained, sub, dbUp,
                      late, revived, lost, beat>>
      BY <1>10 DEF vars
    <2> QED BY <1>0, <2>1
  <1> HIDE DEF PlainTypes
  <1> QED
    BY <1>2, <1>3, <1>4, <1>5, <1>6, <1>7, <1>8, <1>9, <1>10 DEF Next, Node, Server

\* Node, broker and server keep their types, and no more than MaxInFlight
\* messages are under way.
THEOREM TypeCorrect == Spec => []TypeOK
PROOF
  <1>1. TypeOK /\ [Next]_vars => TypeOK' BY NetNext, RowNext, PlainNext, TypePartsNext
  <1> QED BY TypeInit, <1>1, PTL DEF Spec

-----------------------------------------------------------------------------
(* The retained status. *)

\* What makes RetainedTellsTruth inductive: who has a connection is known to the
\* broker, and a node that is stopping has said "offline", or will as soon as it
\* is connected, or has been overtaken by its own "online".
LinkInv ==
  /\ link # "none" => alive
  /\ phase = "down" => link = "none"
  /\ phase \in {"down", "up"} => ~deferred
  /\ phase = "closing" => link # "open"
  /\ phase \in {"stopping", "closing"} /\ link = "up" => retained # "online" \/ revived

TruthInv == TypeOK /\ LinkInv /\ RetainedTellsTruth

\* Every step keeps what the broker retains true of the node.
LEMMA TruthNext == TruthInv /\ [Next]_vars => LinkInv' /\ RetainedTellsTruth'
PROOF
  <1> SUFFICES ASSUME TruthInv, [Next]_vars PROVE LinkInv' /\ RetainedTellsTruth'
    OBVIOUS
  <1> USE DEF TruthInv, LinkInv, RetainedTellsTruth, nodeVars, brokerVars, serverVars
  <1>1. PlainTypes BY TypeParts
  <1>2. CASE Will BY <1>2 DEF Will, Retain
  <1>3. CASE Connect BY <1>3 DEF Connect, Retain
  <1>4. CASE OnConnect
    <2>1. retained' = IF deferred THEN "offline" ELSE "online"
      BY <1>4, FirstWordsAre DEF OnConnect
    <2> QED BY <1>1, <1>4, <2>1 DEF OnConnect, PlainTypes
  <1>5. CASE Heartbeat BY <1>5 DEF Heartbeat
  <1>6. CASE PublishOffline BY <1>6 DEF PublishOffline, Retain
  <1>7. CASE Start BY <1>7 DEF Start
  <1>12. CASE LinkLost BY <1>12 DEF LinkLost
  <1>13. CASE Crash BY <1>13 DEF Crash
  <1>8. CASE LoopStop BY <1>8 DEF LoopStop
  <1>9. CASE Disconnect BY <1>1, <1>9 DEF Disconnect, PlainTypes
  <1>10. CASE Server
    BY <1>10 DEF Server, Subscribe, ServerLost, DatabaseChange, Handle
  <1>11. CASE UNCHANGED vars BY <1>11 DEF vars
  <1> QED
    BY <1>2, <1>3, <1>4, <1>5, <1>6, <1>7, <1>8, <1>9, <1>10, <1>11, <1>12, <1>13
    DEF Next, Node

\* The broker retains "online" only for a node it has a session of, unless the
\* node's last word while stopping was "online"; a connected node is retained
\* as online.
THEOREM RetainedTruthful == Spec => []RetainedTellsTruth
PROOF
  <1>1. Init => LinkInv /\ RetainedTellsTruth BY DEF Init, LinkInv, RetainedTellsTruth
  <1>2. Init => TypeOK BY TypeInit
  <1>3. TruthInv /\ [Next]_vars => TruthInv'
    BY TruthNext, NetNext, RowNext, PlainNext, TypePartsNext DEF TruthInv
  <1>4. TruthInv => RetainedTellsTruth BY DEF TruthInv
  <1> QED BY <1>1, <1>2, <1>3, <1>4, PTL DEF Spec, TruthInv
-----------------------------------------------------------------------------
(* The row. *)

\* What a row r shows of a status s that was taken, b: and a heartbeat after it.
Shows(r, s, b) == r = s \/ (r = "online" /\ b)

\* The last status among the messages q under way is s, or there is none and the row
\* shows s or a heartbeat after it.
Announces(q, s, r, b) ==
  \/ \E i \in 1..Len(q) : q[i] = s /\ \A j \in i + 1..Len(q) : q[j] = "heartbeat"
  \/ Shows(r, s, b) /\ \A j \in 1..Len(q) : q[j] = "heartbeat"

\* What RowFollowsRetained says of an empty q, for any.
FollowInv == sub /\ ~lost /\ retained # "none" => Announces(net, retained, row, beat)

\* Statuses that are forwarded announce the last of them.
LEMMA AnnounceStatus ==
  ASSUME NEW q \in Seq(Messages), NEW w \in Seq(Messages), Len(w) > 0, NEW r, NEW b
  PROVE  Announces(q \o w, w[Len(w)], r, b)
PROOF
  <1>1. Len(q) \in Nat /\ Len(w) \in Nat BY LenProperties
  <1>2. Len(q \o w) = Len(q) + Len(w) /\ (q \o w)[Len(q) + Len(w)] = w[Len(w)]
    BY <1>1, ConcatProperties
  <1> QED BY <1>1, <1>2 DEF Announces

\* A heartbeat that is forwarded does not change what is announced.
LEMMA AnnounceHeartbeat ==
  ASSUME NEW q \in Seq(Messages), NEW s, NEW r, NEW b, Announces(q, s, r, b)
  PROVE  Announces(q \o <<"heartbeat">>, s, r, b)
PROOF
  <1> DEFINE p == q \o <<"heartbeat">>
  <1>1. Len(q) \in Nat BY LenProperties
  <1>2. <<"heartbeat">> \in Seq(Messages) BY OneMessage DEF Messages
  <1>3. Len(p) = Len(q) + 1 BY <1>2, ConcatProperties
  <1>4. p[Len(q) + 1] = "heartbeat" BY <1>1, <1>2, ConcatProperties
  <1>5. \A j \in 1..Len(q) : p[j] = q[j] BY <1>1, <1>2, ConcatProperties
  <1> HIDE DEF p
  <1>6. CASE \E i \in 1..Len(q) : q[i] = s /\ \A j \in i + 1..Len(q) : q[j] = "heartbeat"
    <2>1. PICK i \in 1..Len(q) : q[i] = s /\ \A j \in i + 1..Len(q) : q[j] = "heartbeat"
      BY <1>6
    <2>2. i \in 1..Len(p) /\ p[i] = s BY <1>1, <1>3, <1>5, <2>1
    <2>3. \A j \in i + 1..Len(p) : p[j] = "heartbeat" BY <1>1, <1>3, <1>4, <1>5, <2>1
    <2>4. Announces(p, s, r, b) BY <2>2, <2>3 DEF Announces
    <2> QED BY <2>4 DEF p
  <1>7. CASE Shows(r, s, b) /\ \A j \in 1..Len(q) : q[j] = "heartbeat"
    <2>1. \A j \in 1..Len(p) : p[j] = "heartbeat" BY <1>1, <1>3, <1>4, <1>5, <1>7
    <2>2. Announces(p, s, r, b) BY <1>7, <2>1 DEF Announces
    <2> QED BY <2>2 DEF p
  <1> QED BY <1>6, <1>7 DEF Announces

\* A message that is handled, or lost and no status, leaves what is announced.
LEMMA AnnounceTail ==
  ASSUME NEW q \in Seq(Messages), q # <<>>, NEW s \in Statuses, NEW r, NEW b,
         NEW x, NEW y, Announces(q, s, r, b),
         \/ x = StatusOf(Head(q)) /\ (Head(q) = "heartbeat" => y)
         \/ x = r /\ Head(q) \notin Statuses /\ (b => y)
  PROVE  Announces(Tail(q), s, x, y)
PROOF
  <1>1. /\ Len(q) \in Nat /\ Len(Tail(q)) = Len(q) - 1 /\ Len(q) > 0 /\ Head(q) = q[1]
        /\ \A i \in 1..Len(Tail(q)) : Tail(q)[i] = q[i + 1]
    BY HeadTailProperties, LenProperties, EmptySeq
  <1>2. s # "heartbeat" BY DEF Statuses
  <1>3. CASE \E i \in 1..Len(q) : q[i] = s /\ \A j \in i + 1..Len(q) : q[j] = "heartbeat"
    <2>1. PICK i \in 1..Len(q) : q[i] = s /\ \A j \in i + 1..Len(q) : q[j] = "heartbeat"
      BY <1>3
    <2>2. CASE i = 1
      <3>1. x = s BY <1>1, <2>1, <2>2 DEF StatusOf
      <3>2. \A j \in 1..Len(Tail(q)) : Tail(q)[j] = "heartbeat" BY <1>1, <2>1, <2>2
      <3> QED BY <3>1, <3>2 DEF Announces, Shows
    <2>3. CASE i # 1
      <3>1. i - 1 \in 1..Len(Tail(q)) /\ Tail(q)[i - 1] = s BY <1>1, <2>1, <2>3
      <3>2. \A j \in (i - 1) + 1..Len(Tail(q)) : Tail(q)[j] = "heartbeat"
        BY <1>1, <2>1, <2>3
      <3> QED BY <3>1, <3>2 DEF Announces
    <2> QED BY <2>2, <2>3
  <1>4. CASE Shows(r, s, b) /\ \A j \in 1..Len(q) : q[j] = "heartbeat"
    <2>1. Shows(x, s, y) BY <1>1, <1>4 DEF StatusOf, Statuses, Shows
    <2>2. \A j \in 1..Len(Tail(q)) : Tail(q)[j] = "heartbeat" BY <1>1, <1>4
    <2> QED BY <2>1, <2>2 DEF Announces
  <1> QED BY <1>3, <1>4 DEF Announces

\* A status that is retained is announced.
LEMMA FollowRetain ==
  ASSUME NetType, NEW s \in Statuses, Retain(s), UNCHANGED <<sub, row, beat>>
  PROVE  FollowInv'
PROOF
  <1>1. <<s>> \in Seq(Messages) /\ Len(<<s>>) = 1 /\ <<s>>[1] = s BY OneMessage DEF Messages
  <1> DEFINE w == <<s>>
  <1>2. Len(w) > 0 /\ w \in Seq(Messages) /\ w[Len(w)] = s BY <1>1
  <1> HIDE DEF w
  <1>4. Announces(net \o w, w[Len(w)], row, beat) BY <1>2, AnnounceStatus DEF NetType
  <1>5. Announces(net \o <<s>>, s, row, beat) BY <1>2, <1>4 DEF w
  <1>3. retained' = s /\ (sub => net' = net \o <<s>>) BY DEF Retain, Forward
  <1> QED BY <1>3, <1>5 DEF FollowInv

\* Every step keeps it.
LEMMA FollowNext == TypeOK /\ FollowInv /\ [Next]_vars => FollowInv'
PROOF
  <1> SUFFICES ASSUME TypeOK, FollowInv, [Next]_vars PROVE FollowInv'
    OBVIOUS
  <1>0. NetType BY TypeParts
  <1>1. ASSUME UNCHANGED <<sub, lost, retained, net, row, beat>> PROVE FollowInv'
    BY <1>1 DEF FollowInv
  <1>2. "offline" \in Statuses BY DEF Statuses
  <1>3. CASE Will BY <1>0, <1>2, <1>3, FollowRetain DEF Will, serverVars
  <1>4. CASE Connect
    <2>1. CASE alive BY <1>0, <1>2, <1>4, <2>1, FollowRetain DEF Connect, serverVars
    <2>2. CASE ~alive BY <1>1, <1>4, <2>2 DEF Connect, serverVars
    <2> QED BY <2>1, <2>2
  <1>5. CASE OnConnect
    <2>1. FirstWords \in Seq(Messages) /\ Len(FirstWords) > 0
      BY FirstWordsAre, EmptySeq DEF FirstWords
    <2>2. Announces(net \o FirstWords, FirstWords[Len(FirstWords)], row, beat)
      BY <1>0, <2>1, AnnounceStatus DEF NetType
    <2>3. /\ retained' = FirstWords[Len(FirstWords)] /\ UNCHANGED <<sub, row, beat>>
          /\ sub => net' = net \o FirstWords
      BY <1>5 DEF OnConnect, Forward, serverVars
    <2> QED BY <2>2, <2>3 DEF FollowInv
  <1>6. CASE Heartbeat
    <2>1. UNCHANGED <<retained, sub, row, lost, beat>> /\ (sub => net' = net \o <<"heartbeat">>)
      BY <1>6 DEF Heartbeat, Forward, serverVars
    <2> QED BY <1>0, <2>1, AnnounceHeartbeat DEF FollowInv, NetType
  <1>7. CASE PublishOffline
    <2>1. UNCHANGED <<sub, row, lost, beat>> BY <1>7 DEF PublishOffline, serverVars
    <2>2. CASE Retain("offline") BY <1>0, <1>2, <2>1, <2>2, FollowRetain
    <2>3. CASE ~Retain("offline") BY <1>1, <1>7, <2>1, <2>3 DEF PublishOffline
    <2> QED BY <2>2, <2>3
  <1>8. CASE Start \/ LinkLost \/ Crash \/ LoopStop \/ Disconnect \/ DatabaseChange
    BY <1>1, <1>8 DEF Start, LinkLost, Crash, LoopStop, Disconnect, DatabaseChange, brokerVars, serverVars
  <1>9. CASE Subscribe
    <2>1. retained # "none" => retained \in Statuses BY DEF TypeOK
    <2>2. retained # "none" => net' = <<retained>> /\ retained' = retained BY <1>9 DEF Subscribe
    <2>3. retained' = retained BY <1>9 DEF Subscribe
    <2>4. retained # "none" => Announces(<<retained>>, retained, row', beat') BY DEF Announces
    <2> QED BY <2>2, <2>3, <2>4 DEF FollowInv
  <1>10. CASE ServerLost BY <1>10 DEF ServerLost, FollowInv
  <1>11. CASE Handle
    <2>1. net # <<>> /\ net' = Tail(net) /\ UNCHANGED <<retained, sub>> BY <1>11 DEF Handle
    <2>2. SUFFICES ASSUME sub, ~lost', retained # "none"
                   PROVE  Announces(Tail(net), retained, row', beat')
      BY <2>1 DEF FollowInv
    <2>3. /\ ~lost
          /\ \/ row' = StatusOf(Head(net)) /\ (Head(net) = "heartbeat" => beat')
             \/ row' = row /\ Head(net) \notin Statuses /\ (beat => beat')
      <3>1. Head(net) \in Messages BY <1>0, <2>1, HeadTailProperties DEF NetType
      <3>2. beat' = (Head(net) = "heartbeat" /\ (beat \/ dbUp)) BY <1>11 DEF Handle
      <3> QED BY <1>11, <2>2, <3>1, <3>2 DEF Handle, Messages
    <2>4. Announces(net, retained, row, beat) BY <2>2, <2>3 DEF FollowInv
    <2>5. retained \in Statuses BY <2>2 DEF TypeOK
    <2> QED BY <1>0, <2>1, <2>3, <2>4, <2>5, AnnounceTail DEF NetType
  <1>12. CASE UNCHANGED vars BY <1>1, <1>12 DEF vars, brokerVars, serverVars
  <1> QED
    BY <1>3, <1>4, <1>5, <1>6, <1>7, <1>8, <1>9, <1>10, <1>11, <1>12 DEF Next, Node, Server

\* Once nothing is under way, the row of a node is what the broker retains, if the server
\* is subscribed and lost no status to its database, however node, broker and server were
\* cut off or restarted before; against an "offline" only a heartbeat taken after it
\* makes it "online".
THEOREM RowAsRetained == Spec => []RowFollowsRetained
PROOF
  <1>1. Init => FollowInv BY DEF Init, FollowInv
  <1>2. FollowInv => RowFollowsRetained
    BY EmptySeq DEF FollowInv, RowFollowsRetained, Announces, Shows
  <1>3. TypeOK /\ [Next]_vars => TypeOK' BY NetNext, RowNext, PlainNext, TypePartsNext
  <1> QED BY TypeInit, <1>1, <1>2, <1>3, FollowNext, PTL DEF Spec
=============================================================================
