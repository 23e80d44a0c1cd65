------------------------- MODULE MqttPublisherProofs -------------------------
(* Theorems of MqttPublisher, for every set of scanners and queue size. *)
EXTENDS MqttPublisher, FiniteSetTheorems, SequenceTheorems, TLAPS

\* The message a producer has just created is a message.
LEMMA CurrentIsMessage ==
  ASSUME NEW p \in Producers, NEW n \in Nat, 1 <= n, n <= MaxMsgs[p]
  PROVE  [src |-> p, n |-> n] \in Message
<1>1. n \in 1..MaxMsgs[p]
  BY PublisherAssumption
<1>2. [src |-> p, n |-> n] \in [src: {p}, n: 1..MaxMsgs[p]]
  BY <1>1
<1> QED
  BY <1>2 DEF Message

\* What a put appends is a message: the one just created keeps within MaxMsgs.
LEMMA PutCreatesMessage ==
  ASSUME TypeOK, NEW p \in Producers, PutNowait(p)
  PROVE  Current(p)' \in Message
<1>1. /\ made \in [Producers -> Nat] /\ \A r \in Producers : made[r] <= MaxMsgs[r]
      /\ MaxMsgs \in [Producers -> Nat] /\ made[p] < MaxMsgs[p]
      /\ made' = [made EXCEPT ![p] = @ + 1]
  BY PublisherAssumption DEF TypeOK, PutNowait, MayProduce
<1> QED
  BY <1>1, CurrentIsMessage DEF Current

\* Type correctness: the variables keep their types and the queue its bound
\* under every interleaving of the threads.
THEOREM TypeCorrect == Spec => []TypeOK
<1>1. Init => TypeOK
  <2> SUFFICES ASSUME Init PROVE TypeOK
    OBVIOUS
  <2>1. q \in Seq(Message) /\ sent \in Seq(Message) /\ Len(q) = 0
    BY DEF Init
  <2>2. \A p \in Producers : MaxMsgs[p] \in Nat
    BY PublisherAssumption
  <2>3. ~Holding /\ held \in Seq(Message) /\ Len(held) = 0
    BY DEF Init, Holding
  <2>4. /\ pc \in [Producers -> {"idle", "full", "evicted", "ended"}]
        /\ made \in [Producers -> Nat] /\ \A p \in Producers : made[p] <= MaxMsgs[p]
        /\ \A p \in Producers : pc[p] \in {"full", "evicted"} => made[p] > 0
    BY <2>2 DEF Init
  <2>5. Len(q) <= MaxQueue
    BY <2>1, PublisherAssumption
  <2> QED
    BY <2>1, <2>3, <2>4, <2>5, Zenon DEF Init, TypeOK
<1>2. TypeOK /\ [Next]_vars => TypeOK'
  <2> SUFFICES ASSUME TypeOK, [Next]_vars PROVE TypeOK'
    OBVIOUS
  <2> USE DEF queueVars, netVars, stopVars, fateVars
  <2>q. q \in Seq(Message) /\ Len(q) <= MaxQueue /\ MaxQueue \in Nat
    BY PublisherAssumption DEF TypeOK
  <2>h. held \in Seq(Message) /\ (Holding => Len(held) = 1)
    BY DEF TypeOK, Holding
  <2>s. sent \in Seq(Message)
    BY DEF TypeOK, Holding
  <2>f. evicted \subseteq Message /\ requeued \subseteq Message /\ failed \subseteq Message
    BY DEF TypeOK, Holding
  <2>1. ASSUME NEW p \in Producers, PutNowait(p) PROVE TypeOK'
    <3>1. /\ made \in [Producers -> Nat] /\ \A r \in Producers : made[r] <= MaxMsgs[r]
          /\ MaxMsgs \in [Producers -> Nat] /\ made[p] < MaxMsgs[p]
          /\ made' = [made EXCEPT ![p] = @ + 1]
      BY <2>1, PublisherAssumption DEF TypeOK, PutNowait, MayProduce
    <3>2. Current(p)' \in Message
      BY <2>1, PutCreatesMessage
    <3>3. q' \in Seq(Message) /\ Len(q') <= MaxQueue
      BY <2>q, <2>1, <3>2 DEF PutNowait, HasRoom, Stored
    <3>4. /\ made' \in [Producers -> Nat] /\ \A r \in Producers : made'[r] <= MaxMsgs[r]
          /\ made'[p] > 0 /\ \A r \in Producers : made'[r] >= made[r]
      BY <3>1
    <3>5. /\ pc \in [Producers -> {"idle", "full", "evicted", "ended"}]
          /\ \A r \in Producers : pc[r] \in {"full", "evicted"} => made[r] > 0
          /\ pc' = pc \/ pc' = [pc EXCEPT ![p] = "full"]
      BY <2>1 DEF TypeOK, PutNowait
    <3>6. pc' \in [Producers -> {"idle", "full", "evicted", "ended"}]
      BY <3>5
    <3>7. ASSUME NEW r \in Producers, pc'[r] \in {"full", "evicted"} PROVE made'[r] > 0
      <4>1. CASE r = p
        BY <3>4, <4>1
      <4>2. CASE r # p
        <5>1. pc'[r] = pc[r] /\ made'[r] = made[r]
          BY <3>1, <3>5, <4>2
        <5> QED
          BY <3>5, <3>7, <5>1
      <4> QED
        BY <4>1, <4>2
    <3>8. UNCHANGED <<dpc, held, netVars, stopVars, fateVars>>
      BY <2>1 DEF PutNowait
    <3> QED
      BY <3>3, <3>4, <3>6, <3>7, <3>8 DEF TypeOK, Holding
  <2>2. ASSUME NEW p \in Producers, Evict(p) PROVE TypeOK'
    <3>1. q' \in Seq(Message) /\ Len(q') <= MaxQueue /\ evicted' \subseteq Message
      BY <2>q, <2>f, <2>2 DEF Evict
    <3>2. /\ pc' \in [Producers -> {"idle", "full", "evicted", "ended"}]
          /\ \A r \in Producers : pc'[r] \in {"full", "evicted"} => made'[r] > 0
      BY <2>2 DEF TypeOK, Holding, Evict
    <3>3. UNCHANGED <<made, dpc, held, netVars, stopVars, sent, raised, failed, requeued>>
      BY <2>2 DEF Evict
    <3> QED
      BY <3>1, <3>2, <3>3 DEF TypeOK, Holding
  <2>3. ASSUME NEW p \in Producers, RetryPut(p) PROVE TypeOK'
    <3>1. Current(p) \in Message
      BY <2>3, CurrentIsMessage DEF TypeOK, Holding, RetryPut, Current
    <3>2. q' \in Seq(Message) /\ Len(q') <= MaxQueue
      BY <2>q, <2>3, <3>1 DEF RetryPut, HasRoom, Stored
    <3>3. UNCHANGED <<made, dpc, held, netVars, stopVars, fateVars>>
      BY <2>3 DEF RetryPut
    <3>4. /\ pc' \in [Producers -> {"idle", "full", "evicted", "ended"}]
          /\ \A r \in Producers : pc'[r] \in {"full", "evicted"} => made'[r] > 0
      BY <2>3 DEF TypeOK, Holding, RetryPut
    <3> QED
      BY <3>2, <3>3, <3>4 DEF TypeOK, Holding
  <2>4. ASSUME NEW p \in Producers, RetryRaises(p) PROVE TypeOK'
    <3>1. Current(p) \in Message
      BY <2>4, CurrentIsMessage DEF TypeOK, Holding, RetryRaises, Current
    <3>2. raised' \subseteq Message
      BY <2>4, <3>1 DEF TypeOK, Holding, RetryRaises
    <3>3. /\ pc' \in [Producers -> {"idle", "full", "evicted", "ended"}]
          /\ \A r \in Producers : pc'[r] \in {"full", "evicted"} => made'[r] > 0
          /\ mpc' \in {"loop", "join", "status", "loopstop", "client", "done"}
          /\ agentStop' \in BOOLEAN
      BY <2>4, PublisherAssumption DEF TypeOK, Holding, RetryRaises
    <3> QED
      BY <2>4, <3>2, <3>3 DEF TypeOK, Holding, RetryRaises
  <2>5. ASSUME NEW p \in Producers, ScannerEnds(p) PROVE TypeOK'
    BY <2>5 DEF TypeOK, Holding, ScannerEnds
  <2>6. CASE Drain
    <3>1. CASE DrainCheck BY <3>1 DEF TypeOK, Holding, DrainCheck
    <3>2. CASE DrainGet
      <4>1. q' \in Seq(Message) /\ Len(q') <= MaxQueue
        BY <2>q, <3>2 DEF DrainGet
      <4>2. UNCHANGED <<pc, made, netVars, stopVars, fateVars>>
        BY <3>2 DEF DrainGet
      <4>3. CASE q # <<>>
        <5>1. Head(q) \in Message
          BY <2>q, <4>3
        <5>2. held' = <<Head(q)>> /\ dpc' = "wait"
          BY <4>3, <3>2 DEF DrainGet
        <5>3. held' \in Seq(Message) /\ Len(held') = 1
          BY <5>1, <5>2
        <5> QED
          BY <4>1, <4>2, <5>2, <5>3 DEF TypeOK, Holding
      <4>4. CASE q = <<>>
        <5>1. held' = held /\ dpc = "get" /\ dpc' = "check"
          BY <4>4, <3>2 DEF DrainGet, AfterEmpty
        <5> QED
          BY <4>1, <4>2, <5>1 DEF TypeOK, Holding
      <4> QED
        BY <4>3, <4>4
    <3>3. CASE DrainWait BY <3>3 DEF TypeOK, Holding, DrainWait
    <3>4. CASE DrainRequeue
      <4>1. held[1] \in Message
        <5>1. held \in Seq(Message) /\ 1 \in 1..Len(held)
          BY <2>h, <3>4 DEF DrainRequeue, Holding
        <5> QED
          BY <5>1, ElementOfSeq
      <4>2. q' \in Seq(Message) /\ Len(q') <= MaxQueue /\ requeued' \subseteq Message
        BY <2>q, <2>f, <3>4, <4>1 DEF DrainRequeue, HasRoom, PutBack, Stored
      <4>3. UNCHANGED <<pc, made, netVars, stopVars, sent, evicted, raised, failed>>
        BY <3>4 DEF DrainRequeue
      <4>4. CASE HasRoom
        <5>1. held' = <<>> /\ dpc' = "check"
          BY <4>4, <3>4 DEF DrainRequeue
        <5>2. held' \in Seq(Message) /\ Len(held') = 0
          BY <5>1
        <5> QED
          BY <4>2, <4>3, <5>1, <5>2 DEF TypeOK, Holding
      <4>5. CASE ~HasRoom
        <5>1. held' = held /\ dpc = "requeue" /\ dpc' = "blocked"
          BY <4>5, <3>4 DEF DrainRequeue
        <5> QED
          BY <4>2, <4>3, <5>1 DEF TypeOK, Holding
      <4> QED
        BY <4>4, <4>5
    <3>5. CASE DrainPublish
      <4>0. held[1] \in Message
        <5>1. Holding
          BY <3>5 DEF DrainPublish, Holding
        <5>2. held \in Seq(Message) /\ 1 \in 1..Len(held)
          BY <2>h, <5>1
        <5> QED
          BY <5>2, ElementOfSeq
      <4>1. held[1] \in Message /\ sent \o held \in Seq(Message)
        BY <2>h, <2>s, <4>0
      <4>2. sent' \in Seq(Message) /\ failed' \subseteq Message
        BY <2>s, <2>f, <3>5, <4>1 DEF DrainPublish
      <4>3. held' \in Seq(Message) /\ Len(held') = 0 /\ dpc' = "check"
        BY <3>5 DEF DrainPublish
      <4>4. UNCHANGED <<q, pc, made, netVars, stopVars, evicted, raised, requeued>>
        BY <3>5 DEF DrainPublish
      <4> QED
        BY <4>2, <4>3, <4>4 DEF TypeOK, Holding
    <3> QED BY <2>6, <3>1, <3>2, <3>3, <3>4, <3>5 DEF Drain
  <2>7. CASE OnConnect \/ SessionLost \/ OnDisconnect
    <3>1. CASE OnConnect BY <3>1, ZenonT(40) DEF TypeOK, Holding, OnConnect
    <3>2. CASE SessionLost BY <3>2, ZenonT(40) DEF TypeOK, Holding, SessionLost
    <3>3. CASE OnDisconnect BY <3>3, ZenonT(40) DEF TypeOK, Holding, OnDisconnect
    <3> QED BY <2>7, <3>1, <3>2, <3>3
  <2>8. CASE HandleSignal \/ Shutdown
    <3>1. CASE HandleSignal BY <3>1 DEF TypeOK, Holding, HandleSignal
    <3>2. CASE LeaveLoop BY <3>2 DEF TypeOK, Holding, LeaveLoop
    <3>3. CASE StopDrain BY <3>3 DEF TypeOK, Holding, StopDrain
    <3>4. CASE PublishOffline BY <3>4 DEF TypeOK, Holding, PublishOffline
    <3>5. CASE LoopStop BY <3>5 DEF TypeOK, Holding, LoopStop
    <3>6. CASE ClientDisconnect BY <3>6 DEF TypeOK, Holding, ClientDisconnect
    <3> QED BY <2>8, <3>1, <3>2, <3>3, <3>4, <3>5, <3>6 DEF Shutdown
  <2>9. CASE UNCHANGED vars
    BY <2>9 DEF TypeOK, Holding, vars
  <2> QED
    BY <2>1, <2>2, <2>3, <2>4, <2>5, <2>6, <2>7, <2>8, <2>9 DEF Next, Enqueue
<1> QED
  BY <1>1, <1>2, PTL DEF Spec

-----------------------------------------------------------------------------
(* A blocked drain thread.  The slots of the queue it could take are counted *)
(* against the producers that are between their two calls: each one that     *)
(* evicts frees one slot, and gives it up only by filling the queue or by    *)
(* finding it full.                                                          *)

SlotsOwed == dpc = "blocked" => Len(q) + Cardinality(Evicting) >= MaxQueue

\* Finitely many producers are evicting at a time.
LEMMA EvictingFinite ==
  /\ IsFiniteSet(Evicting) /\ Cardinality(Evicting) \in Nat
  /\ (IsFiniteSet(Evicting) /\ Cardinality(Evicting) \in Nat)'
<1>1. IsFiniteSet(Producers)
  BY PublisherAssumption, FS_AddElement DEF Producers
<1>2. Evicting \subseteq Producers /\ Evicting' \subseteq Producers
  BY DEF Evicting
<1> QED
  BY <1>1, <1>2, FS_Subset, FS_CardinalityType

\* A step of one producer that ends its eviction takes one off the count.
LEMMA EvictingLoses ==
  ASSUME TypeOK, NEW p \in Producers, pc[p] = "evicted",
         NEW v \in {"idle", "ended"}, pc' = [pc EXCEPT ![p] = v]
  PROVE  Cardinality(Evicting') = Cardinality(Evicting) - 1
<1>1. Evicting' = Evicting \ {p} /\ p \in Evicting
  BY DEF Evicting, TypeOK
<1> QED
  BY <1>1, EvictingFinite, FS_RemoveElement

\* A step of one producer that begins its retry adds one to the count.
LEMMA EvictingGains ==
  ASSUME TypeOK, NEW p \in Producers, pc[p] = "full", pc' = [pc EXCEPT ![p] = "evicted"]
  PROVE  Cardinality(Evicting') = Cardinality(Evicting) + 1
<1>1. Evicting' = Evicting \cup {p} /\ p \notin Evicting
  BY DEF Evicting, TypeOK
<1> QED
  BY <1>1, EvictingFinite, FS_AddElement

\* A drain thread blocked on its own full queue finds a slot only while some
\* producer has taken a message off and not yet put its own (_enqueue 172-176).
THEOREM SlotsBelongToProducers == Spec => []SlotBelongsToProducer
<1>1. Init => SlotsOwed
  BY DEF Init, SlotsOwed
<1>2. TypeOK /\ SlotsOwed /\ [Next]_vars => SlotsOwed'
  <2> SUFFICES ASSUME TypeOK, SlotsOwed, [Next]_vars, dpc' = "blocked"
               PROVE  Len(q') + Cardinality(Evicting') >= MaxQueue
    BY DEF SlotsOwed
  <2> USE DEF queueVars, netVars, stopVars, fateVars
  <2>q. /\ q \in Seq(Message) /\ Len(q) \in Nat /\ Len(q) <= MaxQueue /\ MaxQueue \in Nat
        /\ Cardinality(Evicting) \in Nat /\ Cardinality(Evicting') \in Nat
    BY PublisherAssumption, EvictingFinite DEF TypeOK
  <2>b. dpc = "blocked" => Len(q) + Cardinality(Evicting) >= MaxQueue
    BY DEF SlotsOwed
  <2>p. pc \in [Producers -> {"idle", "full", "evicted", "ended"}]
    BY DEF TypeOK
  <2>0. CASE dpc = "blocked" /\ UNCHANGED <<q, pc>>
    <3>1. Evicting' = Evicting
      BY <2>0 DEF Evicting
    <3> QED
      BY <2>0, <3>1, <2>b
  <2>1. ASSUME NEW p \in Producers, PutNowait(p)
        PROVE  Len(q') + Cardinality(Evicting') >= MaxQueue
    <3>1. dpc = "blocked" /\ pc[p] = "idle"
      BY <2>1 DEF PutNowait, MayProduce
    <3>2. Len(q') >= Len(q) /\ Len(q') \in Nat
      <4>1. CASE q' = q
        BY <4>1, <2>q
      <4>2. CASE q' = Append(q, Current(p)')
        <5>1. Current(p)' \in Message
          BY <2>1, PutCreatesMessage
        <5> QED
          BY <4>2, <5>1, <2>q
      <4> QED
        BY <2>1, <4>1, <4>2 DEF PutNowait, Stored
    <3>3. pc' = pc \/ pc' = [pc EXCEPT ![p] = "full"]
      BY <2>1 DEF PutNowait
    <3>4. Evicting' = Evicting
      BY <3>1, <3>3, <2>p DEF Evicting
    <3> QED
      BY <3>1, <3>2, <3>4, <2>q, <2>b
  <2>2. ASSUME NEW p \in Producers, Evict(p)
        PROVE  Len(q') + Cardinality(Evicting') >= MaxQueue
    <3>1. dpc = "blocked" /\ pc[p] = "full" /\ pc' = [pc EXCEPT ![p] = "evicted"]
      BY <2>2 DEF Evict
    <3>2. Len(q') >= Len(q) - 1 /\ Len(q') \in Nat
      BY <2>2, <2>q DEF Evict
    <3>3. Cardinality(Evicting') = Cardinality(Evicting) + 1
      BY <3>1, EvictingGains
    <3> QED
      BY <3>1, <3>2, <3>3, <2>q, <2>b
  <2>3. ASSUME NEW p \in Producers, RetryPut(p)
        PROVE  Len(q') + Cardinality(Evicting') >= MaxQueue
    <3>1. /\ dpc = "blocked" /\ pc[p] = "evicted"
          /\ pc' = [pc EXCEPT ![p] = "idle"] /\ q' = Append(q, Current(p))
      BY <2>3 DEF RetryPut, Stored
    <3>2. Len(q') = Len(q) + 1
      <4>1. Current(p) \in Message
        BY <3>1, CurrentIsMessage DEF TypeOK, Current
      <4> QED
        BY <3>1, <4>1, <2>q
    <3>3. Cardinality(Evicting') = Cardinality(Evicting) - 1
      BY <3>1, EvictingLoses
    <3> QED
      BY <3>1, <3>2, <3>3, <2>q, <2>b
  <2>4. ASSUME NEW p \in Producers, RetryRaises(p)
        PROVE  Len(q') + Cardinality(Evicting') >= MaxQueue
    <3>1. q' = q /\ ~(Len(q) < MaxQueue)
      BY <2>4 DEF RetryRaises, HasRoom
    <3> QED
      BY <3>1, <2>q
  <2>5. ASSUME NEW p \in Producers, ScannerEnds(p)
        PROVE  Len(q') + Cardinality(Evicting') >= MaxQueue
    <3>1. q' = q /\ dpc = "blocked" /\ pc[p] = "idle" /\ pc' = [pc EXCEPT ![p] = "ended"]
      BY <2>5 DEF ScannerEnds
    <3>2. Evicting' = Evicting
      BY <3>1, <2>p DEF Evicting
    <3> QED
      BY <3>1, <3>2, <2>b
  <2>6. CASE Drain
    <3>1. CASE DrainRequeue
      <4>1. CASE HasRoom
        BY <3>1, <4>1 DEF DrainRequeue
      <4>2. CASE ~HasRoom
        <5>1. q' = q /\ ~(Len(q) < MaxQueue)
          BY <3>1, <4>2 DEF DrainRequeue, HasRoom
        <5> QED
          BY <5>1, <2>q
      <4> QED
        BY <4>1, <4>2
    <3>2. CASE DrainCheck \/ DrainGet \/ DrainWait \/ DrainPublish
      BY <3>2 DEF DrainCheck, DrainGet, DrainWait, DrainPublish, AfterEmpty
    <3> QED
      BY <2>6, <3>1, <3>2 DEF Drain
  <2>7. CASE OnConnect \/ SessionLost \/ OnDisconnect
    BY <2>7, <2>0 DEF OnConnect, SessionLost, OnDisconnect
  <2>8. CASE HandleSignal \/ Shutdown
    BY <2>8, <2>0 DEF HandleSignal, Shutdown, LeaveLoop, StopDrain, PublishOffline,
                      LoopStop, ClientDisconnect
  <2>9. CASE UNCHANGED vars
    BY <2>9, <2>0 DEF vars
  <2> QED
    BY <2>1, <2>2, <2>3, <2>4, <2>5, <2>6, <2>7, <2>8, <2>9 DEF Next, Enqueue
<1>3. TypeOK /\ SlotsOwed => SlotBelongsToProducer
  <2> SUFFICES ASSUME TypeOK, SlotsOwed, dpc = "blocked", HasRoom, Evicting = {}
               PROVE  FALSE
    BY DEF SlotBelongsToProducer
  <2>1. Cardinality(Evicting) = 0
    BY FS_EmptySet
  <2>2. Len(q) \in Nat /\ MaxQueue \in Nat
    BY PublisherAssumption DEF TypeOK
  <2> QED
    BY <2>1, <2>2 DEF SlotsOwed, HasRoom
<1> QED
  BY <1>1, <1>2, <1>3, TypeCorrect, PTL DEF Spec

-----------------------------------------------------------------------------
(* After "offline".  The stop event is set before it is published, so the     *)
(* drain thread can finish one turn and not begin another.                    *)

MayStillPublish == dpc \in {"get", "wait", "publish"}

LastTurn ==
  /\ mpc \in {"status", "loopstop", "client", "done"} => stop
  /\ mpc \in {"loopstop", "client", "done"} =>
       /\ Len(sent) <= sentBefore + 1
       /\ MayStillPublish => Len(sent) <= sentBefore

\* At most one message of the queue follows the node's "offline" (disconnect
\* 79-83 against _drain_queue 181).
THEOREM OneAfterOffline == Spec => []AtMostOneAfterOffline
<1>1. Init => LastTurn
  BY DEF Init, LastTurn
<1>2. TypeOK /\ LastTurn /\ [Next]_vars => LastTurn'
  <2> SUFFICES ASSUME TypeOK, LastTurn, [Next]_vars PROVE LastTurn'
    OBVIOUS
  <2> USE DEF queueVars, netVars, stopVars, fateVars
  <2>t. sent \in Seq(Message) /\ Len(sent) \in Nat /\ sentBefore \in Nat
    BY DEF TypeOK
  <2>0. CASE UNCHANGED <<mpc, stop, sent, sentBefore, dpc>>
    BY <2>0 DEF LastTurn, MayStillPublish
  <2>1. ASSUME NEW p \in Producers, PutNowait(p) \/ Enqueue(p) \/ ScannerEnds(p)
        PROVE  LastTurn'
    <3>1. CASE RetryRaises(p) /\ p = Main
      BY <3>1 DEF RetryRaises, LastTurn
    <3>2. CASE RetryRaises(p) /\ p # Main
      BY <3>2, <2>0 DEF RetryRaises
    <3>3. CASE PutNowait(p) \/ Evict(p) \/ RetryPut(p) \/ ScannerEnds(p)
      BY <3>3, <2>0 DEF PutNowait, Evict, RetryPut, ScannerEnds
    <3> QED
      BY <2>1, <3>1, <3>2, <3>3 DEF Enqueue
  <2>2. CASE Drain
    <3>1. CASE DrainCheck
      BY <3>1 DEF DrainCheck, LastTurn, MayStillPublish
    <3>2. CASE DrainGet
      BY <3>2 DEF DrainGet, AfterEmpty, LastTurn, MayStillPublish
    <3>3. CASE DrainWait
      BY <3>3 DEF DrainWait, LastTurn, MayStillPublish
    <3>4. CASE DrainRequeue
      BY <3>4 DEF DrainRequeue, LastTurn, MayStillPublish
    <3>5. CASE DrainPublish
      <4>1. held \in Seq(Message) /\ Len(held) = 1
        BY <3>5 DEF TypeOK, Holding, DrainPublish
      <4>2. Len(sent') <= Len(sent) + 1 /\ Len(sent') \in Nat
        <5>1. sent' = sent \o held \/ sent' = sent
          BY <3>5 DEF DrainPublish
        <5>2. Len(sent \o held) = Len(sent) + 1
          BY <2>t, <4>1, ConcatProperties
        <5> QED
          BY <2>t, <5>1, <5>2
      <4>3. dpc = "publish" /\ dpc' = "check" /\ UNCHANGED <<mpc, stop, sentBefore>>
        BY <3>5 DEF DrainPublish
      <4> QED
        BY <2>t, <4>2, <4>3 DEF LastTurn, MayStillPublish
    <3> QED
      BY <2>2, <3>1, <3>2, <3>3, <3>4, <3>5 DEF Drain
  <2>3. CASE OnConnect \/ SessionLost \/ OnDisconnect \/ HandleSignal
    BY <2>3, <2>0 DEF OnConnect, SessionLost, OnDisconnect, HandleSignal
  <2>4. CASE Shutdown
    <3>1. CASE LeaveLoop BY <3>1 DEF LeaveLoop, LastTurn
    <3>2. CASE StopDrain BY <3>2 DEF StopDrain, LastTurn
    <3>3. CASE PublishOffline BY <2>t, <3>3 DEF PublishOffline, LastTurn
    <3>4. CASE LoopStop BY <3>4 DEF LoopStop, LastTurn, MayStillPublish
    <3>5. CASE ClientDisconnect BY <3>5 DEF ClientDisconnect, LastTurn, MayStillPublish
    <3> QED BY <2>4, <3>1, <3>2, <3>3, <3>4, <3>5 DEF Shutdown
  <2>5. CASE UNCHANGED vars
    BY <2>5, <2>0 DEF vars
  <2> QED
    BY <2>1, <2>2, <2>3, <2>4, <2>5 DEF Next
<1>3. LastTurn => AtMostOneAfterOffline
  BY DEF LastTurn, AtMostOneAfterOffline
<1> QED
  BY <1>1, <1>2, <1>3, TypeCorrect, PTL DEF Spec

-----------------------------------------------------------------------------
(* What becomes of a message: NoLossNoDuplicate, and that MqttPublisher      *)
(* implements Outbox.  The sequences are first reduced to the sets of their  *)
(* elements; a step then moves one message from one set to another.          *)

Distinct(s) == \A i, j \in DOMAIN s : i # j => s[i] # s[j]

\* The elements of a sequence are indexed by 1 up to its length.
LEMMA ElementsByIndex ==
  ASSUME NEW S, NEW s \in Seq(S)
  PROVE  /\ Elements(s) = {s[i] : i \in 1..Len(s)}
         /\ Distinct(s) <=> \A i, j \in 1..Len(s) : i # j => s[i] # s[j]
         /\ Len(s) \in Nat
         /\ Elements(s) \subseteq S
PROOF BY LenProperties, ElementOfSeq DEF Elements, Distinct

\* Concatenation (sent and held, held and q) unites the elements.
LEMMA ElementsConcat ==
  ASSUME NEW S, NEW s \in Seq(S), NEW t \in Seq(S)
  PROVE  Elements(s \o t) = Elements(s) \cup Elements(t)
PROOF
  <1>1. /\ s \o t \in Seq(S) /\ Len(s \o t) = Len(s) + Len(t)
        /\ \A i \in 1..Len(s) + Len(t) :
             (s \o t)[i] = IF i <= Len(s) THEN s[i] ELSE t[i - Len(s)]
    BY ConcatProperties
  <1>2. /\ Len(s) \in Nat /\ Len(t) \in Nat
        /\ Elements(s) = {s[i] : i \in 1..Len(s)}
        /\ Elements(t) = {t[i] : i \in 1..Len(t)}
    BY ElementsByIndex
  <1>3. Elements(s \o t) = {(s \o t)[i] : i \in 1..Len(s) + Len(t)}
    BY <1>1, ElementsByIndex
  <1>4. ASSUME NEW i \in 1..Len(s) PROVE s[i] \in Elements(s \o t)
    <2>1. i \in 1..Len(s) + Len(t) /\ (s \o t)[i] = s[i] BY <1>1, <1>2
    <2> QED BY <1>3, <2>1
  <1>5. ASSUME NEW i \in 1..Len(t) PROVE t[i] \in Elements(s \o t)
    <2>1. i + Len(s) \in 1..Len(s) + Len(t) /\ ~(i + Len(s) <= Len(s)) /\ (i + Len(s)) - Len(s) = i
      BY <1>2
    <2>2. (s \o t)[i + Len(s)] = t[i] BY <1>1, <2>1
    <2> QED BY <1>3, <2>1, <2>2
  <1>6. ASSUME NEW i \in 1..Len(s) + Len(t) PROVE (s \o t)[i] \in Elements(s) \cup Elements(t)
    <2>1. CASE i <= Len(s)
      <3>1. i \in 1..Len(s) /\ (s \o t)[i] = s[i] BY <1>1, <1>2, <2>1
      <3> QED BY <1>2, <3>1
    <2>2. CASE ~(i <= Len(s))
      <3>1. i - Len(s) \in 1..Len(t) /\ (s \o t)[i] = t[i - Len(s)] BY <1>1, <1>2, <2>2
      <3> QED BY <1>2, <3>1
    <2> QED BY <2>1, <2>2
  <1> QED BY <1>2, <1>3, <1>4, <1>5, <1>6

\* A concatenation repeats nothing if its parts do not and have nothing in common.
LEMMA DistinctConcat ==
  ASSUME NEW S, NEW s \in Seq(S), NEW t \in Seq(S),
         Distinct(s), Distinct(t), Elements(s) \cap Elements(t) = {}
  PROVE  Distinct(s \o t)
PROOF
  <1>1. /\ s \o t \in Seq(S) /\ Len(s \o t) = Len(s) + Len(t)
        /\ \A i \in 1..Len(s) + Len(t) :
             (s \o t)[i] = IF i <= Len(s) THEN s[i] ELSE t[i - Len(s)]
    BY ConcatProperties
  <1>2. /\ Len(s) \in Nat /\ Len(t) \in Nat
        /\ Elements(s) = {s[i] : i \in 1..Len(s)}
        /\ Elements(t) = {t[i] : i \in 1..Len(t)}
        /\ \A i, j \in 1..Len(s) : i # j => s[i] # s[j]
        /\ \A i, j \in 1..Len(t) : i # j => t[i] # t[j]
    BY ElementsByIndex
  <1>3. SUFFICES ASSUME NEW i \in 1..Len(s) + Len(t), NEW j \in 1..Len(s) + Len(t), i < j
                 PROVE  (s \o t)[i] # (s \o t)[j]
    <2>1. Distinct(s \o t) <=> \A i, j \in 1..Len(s) + Len(t) : i # j => (s \o t)[i] # (s \o t)[j]
      BY <1>1, ElementsByIndex
    <2>2. \A i, j \in 1..Len(s) + Len(t) : i < j => (s \o t)[i] # (s \o t)[j]
      BY <1>3
    <2>3. \A i, j \in 1..Len(s) + Len(t) : i # j => i < j \/ j < i
      BY <1>2
    <2> QED BY <2>1, <2>2, <2>3
  <1>4. CASE j <= Len(s)
    <2>1. i \in 1..Len(s) /\ j \in 1..Len(s) /\ i # j BY <1>2, <1>3, <1>4
    <2>2. (s \o t)[i] = s[i] /\ (s \o t)[j] = s[j] BY <1>1, <1>2, <2>1
    <2> QED BY <1>2, <2>1, <2>2
  <1>5. CASE i <= Len(s) /\ ~(j <= Len(s))
    <2>1. i \in 1..Len(s) /\ j - Len(s) \in 1..Len(t) BY <1>2, <1>5
    <2>2. (s \o t)[i] = s[i] /\ (s \o t)[j] = t[j - Len(s)] BY <1>1, <1>5
    <2>3. s[i] \in Elements(s) /\ t[j - Len(s)] \in Elements(t) BY <1>2, <2>1
    <2> QED BY <2>2, <2>3
  <1>6. CASE ~(i <= Len(s))
    <2>1. /\ i - Len(s) \in 1..Len(t) /\ j - Len(s) \in 1..Len(t) /\ i - Len(s) # j - Len(s)
          /\ ~(j <= Len(s))
      BY <1>2, <1>3, <1>6
    <2>2. (s \o t)[i] = t[i - Len(s)] /\ (s \o t)[j] = t[j - Len(s)] BY <1>1, <1>6, <2>1
    <2> QED BY <1>2, <2>1, <2>2
  <1> QED BY <1>2, <1>3, <1>4, <1>5, <1>6

\* One message alone, and none.
LEMMA ElementsOne ==
  /\ Elements(<<>>) = {} /\ Distinct(<<>>)
  /\ \A m : Elements(<<m>>) = {m} /\ Distinct(<<m>>)
PROOF
  <1>1. DOMAIN <<>> = {} OBVIOUS
  <1>2. Elements(<<>>) = {} /\ Distinct(<<>>) BY <1>1 DEF Elements, Distinct
  <1>3. ASSUME NEW m PROVE Elements(<<m>>) = {m} /\ Distinct(<<m>>)
    <2>1. <<m>> \in Seq({m}) /\ Len(<<m>>) = 1 /\ <<m>>[1] = m OBVIOUS
    <2>2. /\ Elements(<<m>>) = {<<m>>[i] : i \in 1..1}
          /\ Distinct(<<m>>) <=> \A i, j \in 1..1 : i # j => <<m>>[i] # <<m>>[j]
      BY <2>1, ElementsByIndex
    <2> QED BY <2>1, <2>2
  <1> QED BY <1>2, <1>3

\* A put (Stored, PutBack) adds one element.
LEMMA ElementsAppend ==
  ASSUME NEW S, NEW s \in Seq(S), NEW m \in S
  PROVE  /\ Elements(Append(s, m)) = Elements(s) \cup {m}
         /\ Distinct(s) /\ m \notin Elements(s) => Distinct(Append(s, m))
PROOF
  <1>1. Append(s, m) = s \o <<m>> BY AppendIsConcat
  <1>2. <<m>> \in Seq(S) OBVIOUS
  <1>3. Elements(s \o <<m>>) = Elements(s) \cup {m}
    <2>1. Elements(<<m>>) = {m} BY ElementsOne
    <2>2. Elements(s \o <<m>>) = Elements(s) \cup Elements(<<m>>) BY <1>2, ElementsConcat
    <2> QED BY <2>1, <2>2
  <1>4. ASSUME Distinct(s), m \notin Elements(s) PROVE Distinct(s \o <<m>>)
    <2>1. Elements(<<m>>) = {m} /\ Distinct(<<m>>) BY ElementsOne
    <2>2. Elements(s) \cap Elements(<<m>>) = {} BY <1>4, <2>1
    <2> QED BY <1>2, <1>4, <2>1, <2>2, DistinctConcat
  <1> QED BY <1>1, <1>3, <1>4

\* A get takes the head away and nothing else.
LEMMA ElementsTail ==
  ASSUME NEW S, NEW s \in Seq(S), s # <<>>
  PROVE  /\ Head(s) \in S /\ Tail(s) \in Seq(S)
         /\ Elements(s) = {Head(s)} \cup Elements(Tail(s))
         /\ Distinct(s) => Distinct(Tail(s)) /\ Head(s) \notin Elements(Tail(s))
PROOF
  <1>1. /\ Head(s) \in S /\ Tail(s) \in Seq(S) /\ Len(Tail(s)) = Len(s) - 1
        /\ \A i \in 1..Len(Tail(s)) : Tail(s)[i] = s[i + 1]
        /\ Head(s) = s[1]
    BY HeadTailProperties
  <1>2. /\ Len(s) \in Nat \ {0}
        /\ Elements(s) = {s[i] : i \in 1..Len(s)}
        /\ Elements(Tail(s)) = {Tail(s)[i] : i \in 1..Len(s) - 1}
        /\ Distinct(s) <=> \A i, j \in 1..Len(s) : i # j => s[i] # s[j]
        /\ Distinct(Tail(s)) <=> \A i, j \in 1..Len(s) - 1 : i # j => Tail(s)[i] # Tail(s)[j]
    <2>1. Len(s) \in Nat \ {0} BY EmptySeq
    <2>2. /\ Elements(s) = {s[i] : i \in 1..Len(s)}
          /\ Distinct(s) <=> \A i, j \in 1..Len(s) : i # j => s[i] # s[j]
      BY ElementsByIndex
    <2> DEFINE t == Tail(s)
    <2>3. t \in Seq(S) /\ Len(t) = Len(s) - 1 BY <1>1
    <2> HIDE DEF t
    <2>4. /\ Elements(t) = {t[i] : i \in 1..Len(t)}
          /\ Distinct(t) <=> \A i, j \in 1..Len(t) : i # j => t[i] # t[j]
      BY <2>3, ElementsByIndex
    <2>5. /\ Elements(t) = {t[i] : i \in 1..Len(s) - 1}
          /\ Distinct(t) <=> \A i, j \in 1..Len(s) - 1 : i # j => t[i] # t[j]
      BY <2>3, <2>4, Zenon
    <2> QED BY <2>1, <2>2, <2>5, Zenon DEF t
  <1>3. \A i \in 1..Len(s) - 1 : Tail(s)[i] = s[i + 1] /\ i + 1 \in 1..Len(s) /\ i + 1 # 1
    BY <1>1, <1>2
  <1>4. \A i \in 1..Len(s) : i = 1 \/ (i - 1 \in 1..Len(s) - 1 /\ s[i] = Tail(s)[i - 1])
    <2> TAKE i \in 1..Len(s)
    <2>1. i = 1 \/ (i - 1 \in 1..Len(s) - 1 /\ (i - 1) + 1 = i) BY <1>2
    <2> QED BY <1>3, <2>1
  <1>5. Elements(s) = {Head(s)} \cup Elements(Tail(s))
    <2>1. Head(s) \in Elements(s) BY <1>1, <1>2
    <2>2. Elements(Tail(s)) \subseteq Elements(s) BY <1>2, <1>3
    <2>3. ASSUME NEW i \in 1..Len(s) PROVE s[i] \in {Head(s)} \cup Elements(Tail(s))
      <3>1. CASE i = 1 BY <1>1, <3>1
      <3>2. CASE i # 1 BY <1>2, <1>4, <3>2
      <3> QED BY <3>1, <3>2
    <2> QED BY <1>2, <2>1, <2>2, <2>3
  <1>6. ASSUME Distinct(s) PROVE Distinct(Tail(s)) /\ Head(s) \notin Elements(Tail(s))
    <2>1. ASSUME NEW i \in 1..Len(s) - 1, NEW j \in 1..Len(s) - 1, i # j
          PROVE  Tail(s)[i] # Tail(s)[j]
      <3>1. i + 1 # j + 1 BY <2>1, <1>2
      <3> QED BY <1>2, <1>3, <1>6, <3>1
    <2>2. ASSUME NEW i \in 1..Len(s) - 1 PROVE Tail(s)[i] # s[1]
      BY <1>2, <1>3, <1>6
    <2> QED BY <1>1, <1>2, <2>1, <2>2
  <1> QED BY <1>1, <1>5, <1>6
-----------------------------------------------------------------------------
(* The places a message can be at, as sets. *)

\* The sets S, H, Q, P, E, R and F have nothing in common and make up C.
Partition(C, S, H, Q, P, E, R, F) ==
  /\ C = S \cup H \cup Q \cup P \cup E \cup R \cup F
  /\ S \cap (H \cup Q \cup P \cup E \cup R \cup F) = {}
  /\ H \cap (Q \cup P \cup E \cup R \cup F) = {}
  /\ Q \cap (P \cup E \cup R \cup F) = {}
  /\ P \cap (E \cup R \cup F) = {}
  /\ E \cap (R \cup F) = {}
  /\ R \cap F = {}

\* A new message goes to one of the places (PutNowait 166-169).
LEMMA PartitionGrows ==
  ASSUME NEW C, NEW S, NEW H, NEW Q, NEW P, NEW E, NEW R, NEW F,
         Partition(C, S, H, Q, P, E, R, F), NEW m, m \notin C
  PROVE  /\ Partition(C \cup {m}, S, H, Q \cup {m}, P, E, R, F)
         /\ Partition(C \cup {m}, S, H, Q, P \cup {m}, E, R, F)
PROOF BY DEF Partition

\* What leaves the queue is evicted or held.
LEMMA PartitionFromQueue ==
  ASSUME NEW C, NEW S, NEW H, NEW Q, NEW P, NEW E, NEW R, NEW F, NEW m, m \notin Q,
         Partition(C, S, H, {m} \cup Q, P, E, R, F)
  PROVE  /\ Partition(C, S, H, Q, P, E \cup {m}, R, F)
         /\ Partition(C, S, H \cup {m}, Q, P, E, R, F)
PROOF BY DEF Partition

\* What leaves _enqueue is on the queue or raised (RetryPut, RetryRaises).
LEMMA PartitionFromPending ==
  ASSUME NEW C, NEW S, NEW H, NEW Q, NEW P, NEW E, NEW R, NEW F, NEW m, m \in P,
         Partition(C, S, H, Q, P, E, R, F)
  PROVE  /\ Partition(C, S, H, Q \cup {m}, P \ {m}, E, R, F)
         /\ Partition(C, S, H, Q, P \ {m}, E, R \cup {m}, F)
PROOF BY DEF Partition

\* What the drain thread had is put back, sent or failed (_drain_queue 188-200).
LEMMA PartitionFromHand ==
  ASSUME NEW C, NEW S, NEW Q, NEW P, NEW E, NEW R, NEW F, NEW m,
         Partition(C, S, {m}, Q, P, E, R, F)
  PROVE  /\ Partition(C, S, {}, Q \cup {m}, P, E, R, F)
         /\ Partition(C, S \cup {m}, {}, Q, P, E, R, F)
         /\ Partition(C, S, {}, Q, P, E, R, F \cup {m})
PROOF BY DEF Partition

-----------------------------------------------------------------------------
(* The sets of messages the steps of a producer change. *)

\* A message is a record of its producer and its number.
LEMMA MessageFields ==
  ASSUME NEW m \in Message
  PROVE  m.src \in Producers /\ m.n \in 1..MaxMsgs[m.src] /\ m = [src |-> m.src, n |-> m.n]
PROOF
  <1>1. PICK p \in Producers : m \in [src: {p}, n: 1..MaxMsgs[p]] BY DEF Message
  <1> QED BY <1>1

\* Creating a message adds it, and it was not there before.
LEMMA CreatedGrows ==
  ASSUME TypeOK, NEW p \in Producers, made[p] < MaxMsgs[p],
         made' = [made EXCEPT ![p] = @ + 1]
  PROVE  /\ Current(p)' \in Message /\ Current(p)' \notin Created
         /\ Created' = Created \cup {Current(p)'}
PROOF
  <1> DEFINE c == [src |-> p, n |-> made[p] + 1]
  <1>1. /\ made \in [Producers -> Nat] /\ MaxMsgs \in [Producers -> Nat]
        /\ made[p] \in Nat /\ MaxMsgs[p] \in Nat
    BY PublisherAssumption DEF TypeOK
  <1>2. Current(p)' = c BY <1>1 DEF Current
  <1>3. c \in Message BY <1>1, CurrentIsMessage
  <1>4. c.src = p /\ c.n = made[p] + 1 OBVIOUS
  <1>5. c \notin Created BY <1>1, <1>4 DEF Created
  <1>6. ASSUME NEW m \in Message PROVE m.n <= made'[m.src] <=> m.n <= made[m.src] \/ m = c
    <2>1. m.src \in Producers /\ m.n \in Int /\ m = [src |-> m.src, n |-> m.n]
      BY <1>1, MessageFields
    <2>2. CASE m.src = p
      <3>1. made'[m.src] = made[p] + 1 BY <1>1, <2>2
      <3>2. m = c <=> m.n = made[p] + 1 BY <1>4, <2>1, <2>2
      <3>3. m.n <= made[p] + 1 <=> m.n <= made[p] \/ m.n = made[p] + 1 BY <1>1, <2>1
      <3> QED BY <2>2, <3>1, <3>2, <3>3
    <2>3. CASE m.src # p
      <3>1. made'[m.src] = made[m.src] /\ m # c BY <1>1, <1>4, <2>1, <2>3
      <3> QED BY <3>1
    <2> QED BY <2>2, <2>3
  <1>7. Created' = Created \cup {c} BY <1>3, <1>6 DEF Created
  <1> QED BY <1>2, <1>3, <1>5, <1>7

Waiting(p) == pc[p] \in {"full", "evicted"}

\* What is inside _enqueue depends on where each producer is, and on what it made.
LEMMA PendingIs == Pending = {Current(p) : p \in {r \in Producers : Waiting(r)}}
PROOF BY DEF Pending, Waiting

\* A step that leaves those inside where they are, and their messages, leaves the set.
LEMMA PendingSame ==
  ASSUME \A r \in Producers : Waiting(r)' <=> Waiting(r),
         \A r \in Producers : Waiting(r) => made'[r] = made[r]
  PROVE  Pending' = Pending
PROOF BY DEF Pending, Waiting, Current

\* A producer that enters _enqueue for good adds its message.
LEMMA PendingGrows ==
  ASSUME NEW p \in Producers, ~Waiting(p), Waiting(p)',
         \A r \in Producers \ {p} : (Waiting(r)' <=> Waiting(r)) /\ made'[r] = made[r]
  PROVE  Pending' = Pending \cup {Current(p)'}
PROOF BY DEF Pending, Waiting, Current

\* A producer that leaves _enqueue takes its message away and no other's.
LEMMA PendingShrinks ==
  ASSUME NEW p \in Producers, Waiting(p), ~Waiting(p)', made' = made,
         \A r \in Producers \ {p} : Waiting(r)' <=> Waiting(r)
  PROVE  Current(p) \in Pending /\ Pending' = Pending \ {Current(p)}
PROOF
  <1>1. Current(p) \in Pending BY PendingIs
  <1>2. ASSUME NEW r \in Producers \ {p} PROVE Current(r) # Current(p) BY DEF Current
  <1>3. \A r \in Producers : Current(r)' = Current(r) BY DEF Current
  <1>4. Pending' = {Current(r) : r \in {x \in Producers : Waiting(x)'}}
    BY <1>3 DEF Pending, Waiting
  <1>5. {x \in Producers : Waiting(x)'} = {x \in Producers : Waiting(x)} \ {p} OBVIOUS
  <1>6. Pending' = {Current(r) : r \in {x \in Producers : Waiting(x)} \ {p}} BY <1>4, <1>5
  <1> QED BY <1>1, <1>2, <1>6, PendingIs

-----------------------------------------------------------------------------
(* The invariant, and what a step of the abstract Outbox looks like here. *)

FateInv ==
  /\ Distinct(sent) /\ Distinct(q)
  /\ Partition(Created, Elements(sent), Elements(held), Elements(q), Pending,
               evicted, raised, failed)

Unsettled == Pending \cup Elements(held) \cup Elements(q)
Lost      == evicted \cup raised \cup failed
BoxStep   == [Box!Next]_(Box!vars)

\* The waiting messages of the Outbox are the unsettled ones.
LEMMA UnsettledIsWaiting ==
  ASSUME held \in Seq(Message), q \in Seq(Message)
  PROVE  Pending \cup Elements(held \o q) = Unsettled
PROOF
  <1>1. Elements(held \o q) = Elements(held) \cup Elements(q) BY ElementsConcat
  <1> QED BY <1>1 DEF Unsettled

\* The same of the next state.
LEMMA UnsettledIsWaitingNext ==
  ASSUME held' \in Seq(Message), q' \in Seq(Message)
  PROVE  (Pending \cup Elements(held \o q))' = Unsettled'
PROOF
  <1>1. Elements(held' \o q') = Elements(held') \cup Elements(q') BY ElementsConcat
  <1>2. Elements(held \o q)' = Elements(held' \o q') BY DEF Elements
  <1>3. Elements(held)' = Elements(held') /\ Elements(q)' = Elements(q') BY DEF Elements
  <1> QED BY <1>1, <1>2, <1>3 DEF Unsettled

\* A step that settles nothing and hands in nothing is a stutter of the Outbox.
LEMMA StepStutters ==
  ASSUME TypeOK, TypeOK', Unsettled' = Unsettled, Lost' = Lost, sent' = sent
  PROVE  BoxStep
PROOF
  <1>1. (Pending \cup Elements(held \o q))' = Pending \cup Elements(held \o q)
    BY UnsettledIsWaiting, UnsettledIsWaitingNext DEF TypeOK
  <1> QED BY <1>1 DEF BoxStep, Box!vars, Lost

\* A message that is new is handed in.
LEMMA StepHandsIn ==
  ASSUME TypeOK, TypeOK', NEW m \in Message,
         m \notin Unsettled \cup Elements(sent) \cup Lost,
         Unsettled' = Unsettled \cup {m}, Lost' = Lost, sent' = sent
  PROVE  BoxStep
PROOF
  <1>1. (Pending \cup Elements(held \o q))' = (Pending \cup Elements(held \o q)) \cup {m}
    BY UnsettledIsWaiting, UnsettledIsWaitingNext DEF TypeOK
  <1>2. m \notin (Pending \cup Elements(held \o q)) \cup Box!Elements(sent)
                   \cup (evicted \cup raised \cup failed)
    BY UnsettledIsWaiting DEF TypeOK, Lost, Elements, Box!Elements
  <1>3. Box!HandIn(m) BY <1>1, <1>2 DEF Box!HandIn, Lost
  <1> QED BY <1>3 DEF BoxStep, Box!Next

\* A message that was waiting is sent.
LEMMA StepSends ==
  ASSUME TypeOK, TypeOK', NEW m \in Message, m \in Unsettled,
         Unsettled' = Unsettled \ {m}, Lost' = Lost, sent' = Append(sent, m)
  PROVE  BoxStep
PROOF
  <1>1. (Pending \cup Elements(held \o q))' = (Pending \cup Elements(held \o q)) \ {m}
    BY UnsettledIsWaiting, UnsettledIsWaitingNext DEF TypeOK
  <1>2. m \in Pending \cup Elements(held \o q)
    BY UnsettledIsWaiting DEF TypeOK
  <1>3. Box!Send(m) BY <1>1, <1>2 DEF Box!Send, Lost
  <1> QED BY <1>3 DEF BoxStep, Box!Next

\* A message that was waiting is lost.
LEMMA StepLoses ==
  ASSUME TypeOK, TypeOK', NEW m \in Message, m \in Unsettled,
         Unsettled' = Unsettled \ {m}, Lost' = Lost \cup {m}, sent' = sent
  PROVE  BoxStep
PROOF
  <1>1. (Pending \cup Elements(held \o q))' = (Pending \cup Elements(held \o q)) \ {m}
    BY UnsettledIsWaiting, UnsettledIsWaitingNext DEF TypeOK
  <1>2. m \in Pending \cup Elements(held \o q)
    BY UnsettledIsWaiting DEF TypeOK
  <1>3. Box!Lose(m) BY <1>1, <1>2 DEF Box!Lose, Lost
  <1> QED BY <1>3 DEF BoxStep, Box!Next

-----------------------------------------------------------------------------
(* The steps. *)

\* A step that touches none of the places a message can be at.
LEMMA FateUnchanged ==
  ASSUME TypeOK, TypeOK', FateInv,
         UNCHANGED <<q, held, sent, made, evicted, raised, failed>>,
         \A r \in Producers : Waiting(r)' <=> Waiting(r)
  PROVE  FateInv' /\ BoxStep
PROOF
  <1>1. Pending' = Pending BY PendingSame
  <1>2. Created' = Created BY DEF Created
  <1>3. /\ Elements(q)' = Elements(q) /\ Elements(held)' = Elements(held)
        /\ Elements(sent)' = Elements(sent) /\ Distinct(sent)' /\ Distinct(q)'
    BY DEF FateInv, Elements, Distinct
  <1>4. FateInv' BY <1>1, <1>2, <1>3 DEF FateInv, Partition
  <1>5. Unsettled' = Unsettled /\ Lost' = Lost /\ sent' = sent
    BY <1>1, <1>3 DEF Unsettled, Lost
  <1> QED BY <1>4, <1>5, StepStutters

\* A message enters _enqueue: it is on the queue, or inside until there is room.
LEMMA PutNowaitFate ==
  ASSUME TypeOK, TypeOK', FateInv, NEW p \in Producers, PutNowait(p)
  PROVE  FateInv' /\ BoxStep
PROOF
  <1> DEFINE m == Current(p)'
  <1>1. /\ made[p] < MaxMsgs[p] /\ made' = [made EXCEPT ![p] = @ + 1] /\ pc[p] = "idle"
        /\ UNCHANGED <<held, sent, evicted, raised, failed>>
    BY DEF PutNowait, MayProduce, fateVars
  <1>2. m \in Message /\ m \notin Created /\ Created' = Created \cup {m}
    BY <1>1, CreatedGrows
  <1>3. \A r \in Producers \ {p} : made'[r] = made[r] BY <1>1 DEF TypeOK
  <1>4. q \in Seq(Message) BY DEF TypeOK
  <1>5. Partition(Created, Elements(sent), Elements(held), Elements(q), Pending,
                  evicted, raised, failed)
    BY DEF FateInv
  <1>6. m \notin Unsettled \cup Elements(sent) \cup Lost
    BY <1>2, <1>5 DEF Partition, Unsettled, Lost
  <1>7. Elements(held)' = Elements(held) /\ Elements(sent)' = Elements(sent) /\ Distinct(sent)'
    BY <1>1 DEF Elements, Distinct, FateInv
  <1> HIDE DEF m
  <1>8. CASE HasRoom
    <2>1. q' = Append(q, m) /\ pc' = pc BY <1>8 DEF PutNowait, Stored, m
    <2>2. Pending' = Pending
      <3>1. \A r \in Producers : Waiting(r)' <=> Waiting(r) BY <2>1 DEF Waiting
      <3>2. \A r \in Producers : Waiting(r) => made'[r] = made[r] BY <1>1, <1>3 DEF Waiting
      <3> QED BY <3>1, <3>2, PendingSame
    <2>3. Elements(Append(q, m)) = Elements(q) \cup {m} /\ Distinct(Append(q, m))
      BY <1>2, <1>4, <1>6, ElementsAppend DEF FateInv, Unsettled
    <2>4. Elements(q)' = Elements(q) \cup {m} /\ Distinct(q)' BY <2>1, <2>3 DEF Elements, Distinct
    <2>p. Partition(Created \cup {m}, Elements(sent), Elements(held), Elements(q) \cup {m},
                    Pending, evicted, raised, failed)
      BY <1>2, <1>5, PartitionGrows
    <2>5. FateInv' BY <1>1, <1>2, <1>7, <2>2, <2>4, <2>p DEF FateInv
    <2>6. Unsettled' = Unsettled \cup {m} /\ Lost' = Lost /\ sent' = sent
      BY <1>1, <1>7, <2>2, <2>4 DEF Unsettled, Lost
    <2> QED BY <1>2, <1>6, <2>5, <2>6, StepHandsIn
  <1>9. CASE ~HasRoom
    <2>1. q' = q /\ pc' = [pc EXCEPT ![p] = "full"] BY <1>9 DEF PutNowait
    <2>2. Pending' = Pending \cup {m}
      <3>1. ~Waiting(p) /\ Waiting(p)' BY <1>1, <2>1 DEF Waiting, TypeOK
      <3>2. \A r \in Producers \ {p} : Waiting(r)' <=> Waiting(r) BY <2>1 DEF Waiting, TypeOK
      <3> QED BY <1>3, <3>1, <3>2, PendingGrows DEF m
    <2>3. Elements(q)' = Elements(q) /\ Distinct(q)' BY <2>1 DEF Elements, Distinct, FateInv
    <2>p. Partition(Created \cup {m}, Elements(sent), Elements(held), Elements(q),
                    Pending \cup {m}, evicted, raised, failed)
      BY <1>2, <1>5, PartitionGrows
    <2>4. FateInv' BY <1>1, <1>2, <1>7, <2>2, <2>3, <2>p DEF FateInv
    <2>5. Unsettled' = Unsettled \cup {m} /\ Lost' = Lost /\ sent' = sent
      BY <1>1, <1>7, <2>2, <2>3 DEF Unsettled, Lost
    <2> QED BY <1>2, <1>6, <2>4, <2>5, StepHandsIn
  <1> QED BY <1>8, <1>9

\* The head of a full queue is evicted.
LEMMA EvictFate ==
  ASSUME TypeOK, TypeOK', FateInv, NEW p \in Producers, Evict(p)
  PROVE  FateInv' /\ BoxStep
PROOF
  <1>1. /\ pc[p] = "full" /\ pc' = [pc EXCEPT ![p] = "evicted"]
        /\ UNCHANGED <<held, sent, made, raised, failed>>
    BY DEF Evict
  <1>2. \A r \in Producers : Waiting(r)' <=> Waiting(r) BY <1>1 DEF Waiting, TypeOK
  <1>3. CASE q = <<>>
    <2>1. UNCHANGED <<q, evicted>> BY <1>3 DEF Evict
    <2> QED BY <1>1, <1>2, <2>1, FateUnchanged
  <1>4. CASE q # <<>>
    <2> DEFINE m == Head(q)
    <2>1. q' = Tail(q) /\ evicted' = evicted \cup {m} BY <1>4 DEF Evict
    <2>2. /\ m \in Message /\ Elements(q) = {m} \cup Elements(Tail(q))
          /\ Distinct(Tail(q)) /\ m \notin Elements(Tail(q))
      BY <1>4, ElementsTail DEF TypeOK, FateInv
    <2> HIDE DEF m
    <2>3. Elements(q)' = Elements(Tail(q)) /\ Distinct(q)' BY <2>1, <2>2 DEF Elements, Distinct
    <2>4. Pending' = Pending BY <1>1, <1>2, PendingSame
    <2>5. /\ Created' = Created /\ Elements(held)' = Elements(held)
          /\ Elements(sent)' = Elements(sent) /\ Distinct(sent)'
      BY <1>1 DEF Created, Elements, Distinct, FateInv
    <2>6. Partition(Created, Elements(sent), Elements(held), {m} \cup Elements(Tail(q)),
                    Pending, evicted, raised, failed)
      BY <2>2 DEF FateInv
    <2>7. Partition(Created, Elements(sent), Elements(held), Elements(Tail(q)),
                    Pending, evicted \cup {m}, raised, failed)
      BY <2>2, <2>6, PartitionFromQueue
    <2>8. FateInv' BY <1>1, <2>1, <2>3, <2>4, <2>5, <2>7 DEF FateInv
    <2>9. m \in Unsettled /\ Unsettled' = Unsettled \ {m} /\ Lost' = Lost \cup {m}
      BY <1>1, <2>1, <2>2, <2>3, <2>4, <2>5, <2>6, <2>7 DEF Unsettled, Lost, Partition
    <2> QED BY <1>1, <2>2, <2>8, <2>9, StepLoses
  <1> QED BY <1>3, <1>4

\* The second put succeeds: the message was inside and is on the queue.
LEMMA RetryPutFate ==
  ASSUME TypeOK, TypeOK', FateInv, NEW p \in Producers, RetryPut(p)
  PROVE  FateInv' /\ BoxStep
PROOF
  <1> DEFINE m == Current(p)
  <1>1. /\ pc[p] = "evicted" /\ pc' = [pc EXCEPT ![p] = "idle"] /\ q' = Append(q, m)
        /\ UNCHANGED <<made, held, sent, evicted, raised, failed>>
    BY DEF RetryPut, Stored, fateVars
  <1>2. m \in Pending /\ Pending' = Pending \ {m}
    <2>1. Waiting(p) /\ ~Waiting(p)' BY <1>1 DEF Waiting, TypeOK
    <2>2. \A r \in Producers \ {p} : Waiting(r)' <=> Waiting(r) BY <1>1 DEF Waiting, TypeOK
    <2> QED BY <1>1, <2>1, <2>2, PendingShrinks
  <1> HIDE DEF m
  <1>3. Partition(Created, Elements(sent), Elements(held), Elements(q), Pending,
                  evicted, raised, failed)
    BY DEF FateInv
  <1>4. m \notin Elements(q) /\ m \in Created BY <1>2, <1>3 DEF Partition
  <1>5. m \in Message /\ q \in Seq(Message) BY <1>4 DEF Created, TypeOK
  <1>6. Elements(Append(q, m)) = Elements(q) \cup {m} /\ Distinct(Append(q, m))
    BY <1>4, <1>5, ElementsAppend DEF FateInv
  <1>7. Elements(q)' = Elements(q) \cup {m} /\ Distinct(q)' BY <1>1, <1>6 DEF Elements, Distinct
  <1>8. /\ Created' = Created /\ Elements(held)' = Elements(held)
        /\ Elements(sent)' = Elements(sent) /\ Distinct(sent)'
    BY <1>1 DEF Created, Elements, Distinct, FateInv
  <1>9. Partition(Created, Elements(sent), Elements(held), Elements(q) \cup {m}, Pending \ {m},
                  evicted, raised, failed)
    BY <1>2, <1>3, PartitionFromPending
  <1>10. FateInv' BY <1>1, <1>2, <1>7, <1>8, <1>9 DEF FateInv
  <1>11. Unsettled' = Unsettled /\ Lost' = Lost /\ sent' = sent
    BY <1>1, <1>2, <1>7, <1>8 DEF Unsettled, Lost
  <1> QED BY <1>10, <1>11, StepStutters

\* The second put raises: the message was inside and is lost.
LEMMA RetryRaisesFate ==
  ASSUME TypeOK, TypeOK', FateInv, NEW p \in Producers, RetryRaises(p)
  PROVE  FateInv' /\ BoxStep
PROOF
  <1> DEFINE m == Current(p)
  <1>1. /\ pc[p] = "evicted"
        /\ pc' = [pc EXCEPT ![p] = "idle"] \/ pc' = [pc EXCEPT ![p] = "ended"]
        /\ raised' = raised \cup {m}
        /\ UNCHANGED <<q, made, held, sent, evicted, failed>>
    BY DEF RetryRaises
  <1>2. m \in Pending /\ Pending' = Pending \ {m}
    <2>1. Waiting(p) /\ ~Waiting(p)' BY <1>1 DEF Waiting, TypeOK
    <2>2. \A r \in Producers \ {p} : Waiting(r)' <=> Waiting(r) BY <1>1 DEF Waiting, TypeOK
    <2> QED BY <1>1, <2>1, <2>2, PendingShrinks
  <1> HIDE DEF m
  <1>3. Partition(Created, Elements(sent), Elements(held), Elements(q), Pending,
                  evicted, raised, failed)
    BY DEF FateInv
  <1>4. m \in Message BY <1>2, <1>3 DEF Partition, Created
  <1>5. /\ Created' = Created /\ Elements(held)' = Elements(held) /\ Elements(q)' = Elements(q)
        /\ Elements(sent)' = Elements(sent) /\ Distinct(sent)' /\ Distinct(q)'
    BY <1>1 DEF Created, Elements, Distinct, FateInv
  <1>6. Partition(Created, Elements(sent), Elements(held), Elements(q), Pending \ {m},
                  evicted, raised \cup {m}, failed)
    BY <1>2, <1>3, PartitionFromPending
  <1>7. FateInv' BY <1>1, <1>2, <1>5, <1>6 DEF FateInv
  <1>8. m \in Unsettled /\ Unsettled' = Unsettled \ {m} /\ Lost' = Lost \cup {m} /\ sent' = sent
    BY <1>1, <1>2, <1>3, <1>5 DEF Unsettled, Lost, Partition
  <1> QED BY <1>4, <1>7, <1>8, StepLoses

\* The drain thread takes the head of the queue.
LEMMA DrainGetFate ==
  ASSUME TypeOK, TypeOK', FateInv, DrainGet
  PROVE  FateInv' /\ BoxStep
PROOF
  <1>1. UNCHANGED <<pc, made, sent, evicted, raised, failed>> /\ dpc = "get"
    BY DEF DrainGet, fateVars
  <1>2. \A r \in Producers : Waiting(r)' <=> Waiting(r) BY <1>1 DEF Waiting
  <1>3. CASE q = <<>>
    <2>1. UNCHANGED <<q, held>> BY <1>3 DEF DrainGet
    <2> QED BY <1>1, <1>2, <2>1, FateUnchanged
  <1>4. CASE q # <<>>
    <2> DEFINE m == Head(q)
    <2>1. q' = Tail(q) /\ held' = <<m>> BY <1>4 DEF DrainGet
    <2>2. /\ m \in Message /\ Elements(q) = {m} \cup Elements(Tail(q))
          /\ Distinct(Tail(q)) /\ m \notin Elements(Tail(q))
      BY <1>4, ElementsTail DEF TypeOK, FateInv
    <2> HIDE DEF m
    <2>3. Elements(held) = {}
      <3>1. held \in Seq(Message) /\ Len(held) = 0 BY <1>1 DEF TypeOK, Holding
      <3>2. held = <<>> BY <3>1
      <3> QED BY <3>2, ElementsOne
    <2>4. Elements(held)' = {m}
      <3>1. Elements(<<m>>) = {m} BY ElementsOne
      <3> QED BY <2>1, <3>1 DEF Elements
    <2>5. Elements(q)' = Elements(Tail(q)) /\ Distinct(q)' BY <2>1, <2>2 DEF Elements, Distinct
    <2>6. Pending' = Pending BY <1>1, <1>2, PendingSame
    <2>7. Created' = Created /\ Elements(sent)' = Elements(sent) /\ Distinct(sent)'
      BY <1>1 DEF Created, Elements, Distinct, FateInv
    <2>8. Partition(Created, Elements(sent), {}, {m} \cup Elements(Tail(q)),
                    Pending, evicted, raised, failed)
      BY <2>2, <2>3 DEF FateInv
    <2>9. Partition(Created, Elements(sent), {} \cup {m}, Elements(Tail(q)),
                    Pending, evicted, raised, failed)
      BY <2>2, <2>8, PartitionFromQueue
    <2>10. {} \cup {m} = {m} OBVIOUS
    <2>11. FateInv' BY <1>1, <2>4, <2>5, <2>6, <2>7, <2>9, <2>10 DEF FateInv
    <2>12. Unsettled' = Unsettled /\ Lost' = Lost /\ sent' = sent
      BY <1>1, <2>2, <2>3, <2>4, <2>5, <2>6 DEF Unsettled, Lost
    <2> QED BY <2>11, <2>12, StepStutters
  <1> QED BY <1>3, <1>4

\* The message the drain thread has in hand.
LEMMA InHand ==
  ASSUME TypeOK, Holding
  PROVE  held[1] \in Message /\ held = <<held[1]>> /\ Elements(held) = {held[1]}
PROOF
  <1>1. held \in Seq(Message) /\ Len(held) = 1 BY DEF TypeOK
  <1>2. held[1] \in Message BY <1>1, ElementOfSeq
  <1>3. held = <<held[1]>> BY <1>1, <1>2, SeqEqual
  <1>4. Elements(<<held[1]>>) = {held[1]} BY ElementsOne
  <1> QED BY <1>2, <1>3, <1>4

\* The drain thread puts its message back, or waits for room.
LEMMA DrainRequeueFate ==
  ASSUME TypeOK, TypeOK', FateInv, DrainRequeue
  PROVE  FateInv' /\ BoxStep
PROOF
  <1>1. UNCHANGED <<pc, made, sent, evicted, raised, failed>> /\ Holding
    BY DEF DrainRequeue, Holding
  <1>2. \A r \in Producers : Waiting(r)' <=> Waiting(r) BY <1>1 DEF Waiting
  <1>3. CASE ~HasRoom
    <2>1. UNCHANGED <<q, held>> BY <1>3 DEF DrainRequeue
    <2> QED BY <1>1, <1>2, <2>1, FateUnchanged
  <1>4. CASE HasRoom
    <2> DEFINE m == held[1]
    <2>1. q' = Append(q, m) /\ held' = <<>> BY <1>4 DEF DrainRequeue, PutBack, Stored
    <2>2. m \in Message /\ Elements(held) = {m} BY <1>1, InHand
    <2> HIDE DEF m
    <2>3. Partition(Created, Elements(sent), {m}, Elements(q), Pending, evicted, raised, failed)
      BY <2>2 DEF FateInv
    <2>4. m \notin Elements(q) BY <2>3 DEF Partition
    <2>5. Elements(Append(q, m)) = Elements(q) \cup {m} /\ Distinct(Append(q, m))
      <3>1. q \in Seq(Message) BY DEF TypeOK
      <3> QED BY <2>2, <2>4, <3>1, ElementsAppend DEF FateInv
    <2>6. Elements(q)' = Elements(q) \cup {m} /\ Distinct(q)' BY <2>1, <2>5 DEF Elements, Distinct
    <2>7. Elements(held)' = {} BY <2>1, ElementsOne DEF Elements
    <2>8. Pending' = Pending BY <1>1, <1>2, PendingSame
    <2>9. Created' = Created /\ Elements(sent)' = Elements(sent) /\ Distinct(sent)'
      BY <1>1 DEF Created, Elements, Distinct, FateInv
    <2>10. Partition(Created, Elements(sent), {}, Elements(q) \cup {m}, Pending,
                     evicted, raised, failed)
      BY <2>3, PartitionFromHand
    <2>11. FateInv' BY <1>1, <2>6, <2>7, <2>8, <2>9, <2>10 DEF FateInv
    <2>12. Unsettled' = Unsettled /\ Lost' = Lost /\ sent' = sent
      BY <1>1, <2>2, <2>6, <2>7, <2>8 DEF Unsettled, Lost
    <2> QED BY <2>11, <2>12, StepStutters
  <1> QED BY <1>3, <1>4

\* The drain thread hands its message to the client, which takes it or does not.
LEMMA DrainPublishFate ==
  ASSUME TypeOK, TypeOK', FateInv, DrainPublish
  PROVE  FateInv' /\ BoxStep
PROOF
  <1> DEFINE m == held[1]
  <1>1. UNCHANGED <<q, pc, made, evicted, raised>> /\ held' = <<>> /\ Holding
    BY DEF DrainPublish, Holding
  <1>2. m \in Message /\ held = <<m>> /\ Elements(held) = {m} BY <1>1, InHand
  <1>3. (sent' = sent \o held /\ failed' = failed) \/ (failed' = failed \cup {m} /\ sent' = sent)
    BY DEF DrainPublish
  <1> HIDE DEF m
  <1>4. Pending' = Pending
    <2>1. \A r \in Producers : Waiting(r)' <=> Waiting(r) BY <1>1 DEF Waiting
    <2> QED BY <1>1, <2>1, PendingSame
  <1>5. /\ Created' = Created /\ Elements(q)' = Elements(q) /\ Distinct(q)'
    BY <1>1 DEF Created, Elements, Distinct, FateInv
  <1>6. Elements(held)' = {} BY <1>1, ElementsOne DEF Elements
  <1>7. Partition(Created, Elements(sent), {m}, Elements(q), Pending, evicted, raised, failed)
    BY <1>2 DEF FateInv
  <1>8. m \in Unsettled /\ Unsettled' = Unsettled \ {m}
    BY <1>2, <1>4, <1>5, <1>6, <1>7 DEF Unsettled, Partition
  <1>9. CASE sent' = sent \o held /\ failed' = failed
    <2>1. sent \in Seq(Message) BY DEF TypeOK
    <2>2. sent' = Append(sent, m) BY <1>2, <1>9, <2>1, AppendIsConcat
    <2>3. m \notin Elements(sent) BY <1>7 DEF Partition
    <2>4. Elements(Append(sent, m)) = Elements(sent) \cup {m} /\ Distinct(Append(sent, m))
      BY <1>2, <2>1, <2>3, ElementsAppend DEF FateInv
    <2>5. Elements(sent)' = Elements(sent) \cup {m} /\ Distinct(sent)'
      BY <2>2, <2>4 DEF Elements, Distinct
    <2>6. Partition(Created, Elements(sent) \cup {m}, {}, Elements(q), Pending,
                    evicted, raised, failed)
      BY <1>7, PartitionFromHand
    <2>7. FateInv' BY <1>1, <1>4, <1>5, <1>6, <1>9, <2>5, <2>6 DEF FateInv
    <2>8. Lost' = Lost BY <1>1, <1>9 DEF Lost
    <2> QED BY <1>2, <1>8, <2>2, <2>7, <2>8, StepSends
  <1>10. CASE failed' = failed \cup {m} /\ sent' = sent
    <2>1. Elements(sent)' = Elements(sent) /\ Distinct(sent)'
      BY <1>10 DEF Elements, Distinct, FateInv
    <2>2. Partition(Created, Elements(sent), {}, Elements(q), Pending,
                    evicted, raised, failed \cup {m})
      BY <1>7, PartitionFromHand
    <2>3. FateInv' BY <1>1, <1>4, <1>5, <1>6, <1>10, <2>1, <2>2 DEF FateInv
    <2>4. Lost' = Lost \cup {m} BY <1>1, <1>10 DEF Lost
    <2> QED BY <1>2, <1>8, <1>10, <2>3, <2>4, StepLoses
  <1> QED BY <1>3, <1>9, <1>10

\* Every step keeps the invariant and is a step of the Outbox or a stutter.
LEMMA FateNext ==
  TypeOK /\ TypeOK' /\ FateInv /\ [Next]_vars => FateInv' /\ BoxStep
PROOF
  <1> SUFFICES ASSUME TypeOK, TypeOK', FateInv, [Next]_vars
               PROVE  FateInv' /\ BoxStep
    OBVIOUS
  <1>1. ASSUME NEW p \in Producers, PutNowait(p) PROVE FateInv' /\ BoxStep
    BY <1>1, PutNowaitFate
  <1>2. ASSUME NEW p \in Producers, Enqueue(p) PROVE FateInv' /\ BoxStep
    BY <1>2, EvictFate, RetryPutFate, RetryRaisesFate DEF Enqueue
  <1>3. ASSUME NEW p \in Producers, ScannerEnds(p) PROVE FateInv' /\ BoxStep
    <2>1. \A r \in Producers : Waiting(r)' <=> Waiting(r)
      BY <1>3 DEF ScannerEnds, Waiting, TypeOK
    <2>2. UNCHANGED <<q, held, sent, made, evicted, raised, failed>>
      BY <1>3 DEF ScannerEnds, fateVars
    <2> QED BY <2>1, <2>2, FateUnchanged
  <1>4. CASE Drain
    <2>1. CASE DrainCheck \/ DrainWait
      <3>1. UNCHANGED <<pc, q, held, sent, made, evicted, raised, failed>>
        BY <2>1 DEF DrainCheck, DrainWait, fateVars
      <3>2. \A r \in Producers : Waiting(r)' <=> Waiting(r) BY <3>1 DEF Waiting
      <3> QED BY <3>1, <3>2, FateUnchanged
    <2> QED BY <1>4, <2>1, DrainGetFate, DrainRequeueFate, DrainPublishFate DEF Drain
  <1>5. CASE OnConnect \/ SessionLost \/ OnDisconnect \/ HandleSignal \/ Shutdown \/ UNCHANGED vars
    <2>1. UNCHANGED <<pc, q, held, sent, made, evicted, raised, failed>>
      BY <1>5 DEF OnConnect, SessionLost, OnDisconnect, HandleSignal, Shutdown, LeaveLoop,
        StopDrain, PublishOffline, LoopStop, ClientDisconnect, vars, queueVars, fateVars
    <2>2. \A r \in Producers : Waiting(r)' <=> Waiting(r) BY <2>1 DEF Waiting
    <2> QED BY <2>1, <2>2, FateUnchanged
  <1> QED BY <1>1, <1>2, <1>3, <1>4, <1>5 DEF Next

\* Nothing has been created at the start.
LEMMA FateInit == Init => FateInv /\ Box!Init
PROOF
  <1> SUFFICES ASSUME Init PROVE FateInv /\ Box!Init
    OBVIOUS
  <1>1. /\ q = <<>> /\ held = <<>> /\ sent = <<>>
        /\ evicted = {} /\ raised = {} /\ failed = {}
    BY DEF Init
  <1>2. /\ Elements(q) = {} /\ Elements(held) = {} /\ Elements(sent) = {}
        /\ Distinct(q) /\ Distinct(sent)
    BY <1>1, ElementsOne
  <1>3. Pending = {} BY DEF Init, Pending
  <1>4. Created = {}
    <2>1. ASSUME NEW m \in Message PROVE ~(m.n <= made[m.src])
      <3>1. m.src \in Producers /\ m.n \in 1..MaxMsgs[m.src] BY MessageFields
      <3>2. made[m.src] = 0 BY <3>1 DEF Init
      <3>3. MaxMsgs[m.src] \in Nat BY <3>1, PublisherAssumption
      <3> QED BY <3>1, <3>2, <3>3
    <2> QED BY <2>1 DEF Created
  <1>5. FateInv BY <1>1, <1>2, <1>3, <1>4 DEF FateInv, Partition
  <1>6. Pending \cup Elements(held \o q) = {}
    <2>1. held \in Seq(Message) /\ q \in Seq(Message) BY <1>1
    <2>2. Elements(held \o q) = Elements(held) \cup Elements(q) BY <2>1, ElementsConcat
    <2> QED BY <1>2, <1>3, <2>2
  <1> QED BY <1>1, <1>5, <1>6 DEF Box!Init

\* The sets say of the sequences what NoLossNoDuplicate says of the flow.
LEMMA FateImplies == TypeOK /\ FateInv => NoLossNoDuplicate
PROOF
  <1> SUFFICES ASSUME TypeOK, FateInv PROVE NoLossNoDuplicate
    OBVIOUS
  <1>1. sent \in Seq(Message) /\ held \in Seq(Message) /\ q \in Seq(Message) BY DEF TypeOK
  <1>2. sent \o held \in Seq(Message) BY <1>1, ConcatProperties
  <1>3. /\ Elements(sent \o held) = Elements(sent) \cup Elements(held)
        /\ Elements(Flow) = Elements(sent \o held) \cup Elements(q)
    <2>1. Elements(sent \o held) = Elements(sent) \cup Elements(held) BY <1>1, ElementsConcat
    <2>2. Elements((sent \o held) \o q) = Elements(sent \o held) \cup Elements(q)
      <3> DEFINE front == sent \o held
      <3>1. front \in Seq(Message) BY <1>2
      <3> HIDE DEF front
      <3>2. Elements(front \o q) = Elements(front) \cup Elements(q) BY <1>1, <3>1, ElementsConcat
      <3> QED BY <3>2, Zenon DEF front
    <2>3. Flow = (sent \o held) \o q BY Zenon DEF Flow
    <2> QED BY <2>1, <2>2, <2>3, Zenon
  <1>4. Partition(Created, Elements(sent), Elements(held), Elements(q), Pending,
                  evicted, raised, failed)
    BY DEF FateInv
  <1>5. Distinct(held)
    <2>1. CASE Holding BY <2>1, InHand, ElementsOne
    <2>2. CASE ~Holding
      <3>1. held = <<>> BY <1>1, <2>2, EmptySeq DEF TypeOK
      <3> QED BY <3>1, ElementsOne
    <2> QED BY <2>1, <2>2
  <1>6. Distinct(sent \o held)
    <2>1. Elements(sent) \cap Elements(held) = {} BY <1>4 DEF Partition
    <2> QED BY <1>1, <1>5, <2>1, DistinctConcat DEF FateInv
  <1>7. Distinct(Flow)
    <2>1. Elements(sent \o held) \cap Elements(q) = {} BY <1>3, <1>4 DEF Partition
    <2> QED BY <1>1, <1>2, <1>6, <2>1, DistinctConcat DEF FateInv, Flow
  <1>8. Created = Elements(Flow) \cup Pending \cup evicted \cup raised \cup failed
    BY <1>3, <1>4 DEF Partition
  <1>9. Elements(Flow) \cap (Pending \cup evicted \cup raised \cup failed) = {}
    BY <1>3, <1>4 DEF Partition
  <1>10. /\ Pending \cap (evicted \cup raised \cup failed) = {}
         /\ evicted \cap (raised \cup failed) = {} /\ raised \cap failed = {}
    BY <1>4 DEF Partition
  <1> QED BY <1>7, <1>8, <1>9, <1>10 DEF NoLossNoDuplicate, Distinct

-----------------------------------------------------------------------------
(* The theorems. *)

\* Each message a producer created is at exactly one place: on its way, out, or
\* lost in one way (_enqueue 166-176, _drain_queue 178-200).
THEOREM OneFateEach == Spec => []NoLossNoDuplicate
PROOF
  <1>1. Init => FateInv BY FateInit
  <1>2. TypeOK /\ TypeOK' /\ FateInv /\ [Next]_vars => FateInv' BY FateNext
  <1>3. TypeOK /\ FateInv => NoLossNoDuplicate BY FateImplies
  <1> QED BY <1>1, <1>2, <1>3, TypeCorrect, PTL DEF Spec

\* The publisher implements the Outbox: a message is sent once or lost, never
\* both, and neither is taken back, under every interleaving of the threads.
THEOREM PublisherIsOutbox == Spec => ImplementsOutbox
PROOF
  <1>1. Init => FateInv /\ Box!Init BY FateInit
  <1>2. TypeOK /\ TypeOK' /\ FateInv /\ [Next]_vars => FateInv' /\ [Box!Next]_(Box!vars)
    BY FateNext DEF BoxStep
  <1> QED BY <1>1, <1>2, TypeCorrect, PTL DEF Spec, ImplementsOutbox, Box!Spec

-----------------------------------------------------------------------------
(* The order in which messages leave.  R stands for `requeued'. *)

Behind(a, b, R)     == a.src = b.src /\ a.n > b.n => b \in R
InOrder(s, R)       == \A i, j \in DOMAIN s : i < j => Behind(s[i], s[j], R)
AllBehind(A, B, R)  == \A a \in A, b \in B : Behind(a, b, R)

\* Requeueing more messages excuses more.
LEMMA OrderGrows ==
  ASSUME NEW R, NEW T, R \subseteq T
  PROVE  /\ \A s : InOrder(s, R) => InOrder(s, T)
         /\ \A A, B : AllBehind(A, B, R) => AllBehind(A, B, T)
PROOF BY DEF InOrder, AllBehind, Behind

\* Two sequences in order, the second behind the first, are in order together.
LEMMA OrderConcat ==
  ASSUME NEW S, NEW R, NEW s \in Seq(S), NEW t \in Seq(S), InOrder(s, R), InOrder(t, R),
         AllBehind(Elements(s), Elements(t), R)
  PROVE  InOrder(s \o t, R)
PROOF
  <1>1. /\ s \o t \in Seq(S) /\ Len(s \o t) = Len(s) + Len(t)
        /\ \A i \in 1..Len(s) + Len(t) :
             (s \o t)[i] = IF i <= Len(s) THEN s[i] ELSE t[i - Len(s)]
    BY ConcatProperties
  <1>2. /\ Len(s) \in Nat /\ Len(t) \in Nat
        /\ DOMAIN s = 1..Len(s) /\ DOMAIN t = 1..Len(t)
        /\ DOMAIN (s \o t) = 1..Len(s) + Len(t)
    BY <1>1, LenProperties
  <1>3. SUFFICES ASSUME NEW i \in 1..Len(s) + Len(t), NEW j \in 1..Len(s) + Len(t), i < j
                 PROVE  Behind((s \o t)[i], (s \o t)[j], R)
    BY <1>2 DEF InOrder
  <1>4. CASE j <= Len(s)
    <2>1. i \in DOMAIN s /\ j \in DOMAIN s BY <1>2, <1>3, <1>4
    <2>2. (s \o t)[i] = s[i] /\ (s \o t)[j] = s[j] BY <1>1, <1>2, <2>1
    <2> QED BY <1>3, <2>1, <2>2 DEF InOrder
  <1>5. CASE i <= Len(s) /\ ~(j <= Len(s))
    <2>1. i \in DOMAIN s /\ j - Len(s) \in DOMAIN t BY <1>2, <1>5
    <2>2. (s \o t)[i] = s[i] /\ (s \o t)[j] = t[j - Len(s)] BY <1>1, <1>5
    <2>3. s[i] \in Elements(s) /\ t[j - Len(s)] \in Elements(t) BY <2>1 DEF Elements
    <2> QED BY <2>2, <2>3 DEF AllBehind
  <1>6. CASE ~(i <= Len(s))
    <2>1. /\ i - Len(s) \in DOMAIN t /\ j - Len(s) \in DOMAIN t /\ i - Len(s) < j - Len(s)
          /\ ~(j <= Len(s))
      BY <1>2, <1>3, <1>6
    <2>2. (s \o t)[i] = t[i - Len(s)] /\ (s \o t)[j] = t[j - Len(s)] BY <1>1, <1>6, <2>1
    <2> QED BY <2>1, <2>2 DEF InOrder
  <1> QED BY <1>2, <1>3, <1>4, <1>5, <1>6

\* A message put behind all others keeps the order.
LEMMA OrderAppend ==
  ASSUME NEW S, NEW R, NEW s \in Seq(S), NEW m \in S, InOrder(s, R),
         AllBehind(Elements(s), {m}, R)
  PROVE  InOrder(Append(s, m), R)
PROOF
  <1>1. Append(s, m) = s \o <<m>> BY AppendIsConcat
  <1>2. <<m>> \in Seq(S) /\ DOMAIN <<m>> = {1}
    <2>1. <<m>> \in Seq(S) /\ Len(<<m>>) = 1 OBVIOUS
    <2>2. 1..1 = {1} OBVIOUS
    <2> QED BY <2>1, <2>2, LenProperties
  <1>3. InOrder(<<m>>, R) BY <1>2 DEF InOrder
  <1>4. AllBehind(Elements(s), Elements(<<m>>), R)
    <2>1. Elements(<<m>>) = {m} BY ElementsOne
    <2> QED BY <2>1
  <1> QED BY <1>1, <1>2, <1>3, <1>4, OrderConcat

\* What follows the head is behind it and in order.
LEMMA OrderTail ==
  ASSUME NEW S, NEW R, NEW s \in Seq(S), s # <<>>, InOrder(s, R)
  PROVE  InOrder(Tail(s), R) /\ AllBehind({Head(s)}, Elements(Tail(s)), R)
PROOF
  <1>1. /\ Tail(s) \in Seq(S) /\ Len(Tail(s)) = Len(s) - 1
        /\ \A i \in 1..Len(Tail(s)) : Tail(s)[i] = s[i + 1]
        /\ Head(s) = s[1]
    BY HeadTailProperties
  <1>2. /\ Len(s) \in Nat \ {0}
        /\ DOMAIN s = 1..Len(s) /\ DOMAIN Tail(s) = 1..Len(s) - 1
    BY <1>1, LenProperties, EmptySeq
  <1>3. \A i \in 1..Len(s) - 1 : Tail(s)[i] = s[i + 1] /\ i + 1 \in DOMAIN s
    BY <1>1, <1>2
  <1>4. ASSUME NEW i \in 1..Len(s) - 1, NEW j \in 1..Len(s) - 1, i < j
        PROVE  Behind(Tail(s)[i], Tail(s)[j], R)
    <2>1. i + 1 < j + 1 BY <1>2, <1>4
    <2> QED BY <1>3, <2>1 DEF InOrder
  <1>5. ASSUME NEW i \in 1..Len(s) - 1 PROVE Behind(s[1], Tail(s)[i], R)
    <2>1. 1 < i + 1 /\ 1 \in DOMAIN s BY <1>2
    <2> QED BY <1>3, <2>1 DEF InOrder
  <1>6. InOrder(Tail(s), R) BY <1>2, <1>4 DEF InOrder
  <1>7. AllBehind({Head(s)}, Elements(Tail(s)), R) BY <1>1, <1>2, <1>5 DEF AllBehind, Elements
  <1> QED BY <1>6, <1>7

OrderInv ==
  /\ InOrder(sent, requeued) /\ InOrder(q, requeued)
  /\ AllBehind(Elements(sent), Elements(held), requeued)
  /\ AllBehind(Elements(sent), Elements(q), requeued)
  /\ AllBehind(Elements(held), Elements(q), requeued)

\* A producer's newest message may be put behind everything on its way.
LEMMA NewestBehind ==
  ASSUME TypeOK, FateInv, NEW p \in Producers, NEW m, m.src = p,
         m.n \in Nat, m.n >= made[p], NEW R
  PROVE  /\ AllBehind(Elements(sent), {m}, R) /\ AllBehind(Elements(held), {m}, R)
         /\ AllBehind(Elements(q), {m}, R)
PROOF
  <1>1. Elements(sent) \cup Elements(held) \cup Elements(q) \subseteq Created
    BY DEF FateInv, Partition
  <1>2. ASSUME NEW a \in Created PROVE Behind(a, m, R)
    <2>1. a \in Message /\ a.n <= made[a.src] BY DEF Created
    <2>2. a.src \in Producers /\ a.n \in 1..MaxMsgs[a.src] BY <2>1, MessageFields
    <2>3. made[p] \in Nat /\ a.n \in Int BY <2>2 DEF TypeOK
    <2>4. a.src = p => ~(a.n > m.n) BY <2>1, <2>3
    <2> QED BY <2>4 DEF Behind
  <1> QED BY <1>1, <1>2 DEF AllBehind

\* A put of a producer's newest message keeps the order.
LEMMA PutKeepsOrder ==
  ASSUME TypeOK, FateInv, OrderInv, NEW p \in Producers, NEW m \in Message, m.src = p,
         m.n >= made[p], q' = Append(q, m), UNCHANGED <<held, sent, requeued>>
  PROVE  OrderInv'
PROOF
  <1>1. m.n \in Nat
    <2>1. m.n \in 1..MaxMsgs[p] /\ MaxMsgs[p] \in Nat BY MessageFields, PublisherAssumption
    <2> QED BY <2>1
  <1>2. /\ AllBehind(Elements(sent), {m}, requeued) /\ AllBehind(Elements(held), {m}, requeued)
        /\ AllBehind(Elements(q), {m}, requeued)
    BY <1>1, NewestBehind
  <1>3. q \in Seq(Message) BY DEF TypeOK
  <1>4. InOrder(Append(q, m), requeued) BY <1>2, <1>3, OrderAppend DEF OrderInv
  <1>5. Elements(Append(q, m)) = Elements(q) \cup {m} BY <1>3, ElementsAppend
  <1>6. /\ AllBehind(Elements(sent), Elements(q) \cup {m}, requeued)
        /\ AllBehind(Elements(held), Elements(q) \cup {m}, requeued)
    BY <1>2 DEF OrderInv, AllBehind
  <1> QED BY <1>4, <1>5, <1>6 DEF OrderInv, InOrder, AllBehind, Elements

\* Every step keeps the order.
LEMMA OrderNext ==
  TypeOK /\ FateInv /\ OrderInv /\ [Next]_vars => OrderInv'
PROOF
  <1> SUFFICES ASSUME TypeOK, FateInv, OrderInv, [Next]_vars PROVE OrderInv'
    OBVIOUS
  <1>0. q \in Seq(Message) /\ sent \in Seq(Message) /\ held \in Seq(Message) BY DEF TypeOK
  <1>u. ASSUME UNCHANGED <<q, held, sent, requeued>> PROVE OrderInv'
    BY <1>u DEF OrderInv, InOrder, AllBehind, Elements
  <1>t. ASSUME q # <<>>, q' = Tail(q)
        PROVE  /\ InOrder(q', requeued) /\ Elements(q) = {Head(q)} \cup Elements(q')
               /\ AllBehind({Head(q)}, Elements(q'), requeued)
    BY <1>0, <1>t, OrderTail, ElementsTail DEF OrderInv
  <1>1. ASSUME NEW p \in Producers, PutNowait(p) PROVE OrderInv'
    <2>1. UNCHANGED <<held, sent, requeued>> BY <1>1 DEF PutNowait, fateVars
    <2>2. CASE ~HasRoom BY <1>1, <1>u, <2>1, <2>2 DEF PutNowait
    <2>3. CASE HasRoom
      <3>1. q' = Append(q, Current(p)') BY <1>1, <2>3 DEF PutNowait, Stored
      <3>2. Current(p)' \in Message BY <1>1, CreatedGrows DEF PutNowait, MayProduce
      <3>3. Current(p)'.src = p /\ Current(p)'.n >= made[p]
        <4>1. made'[p] = made[p] + 1 /\ made[p] \in Nat BY <1>1 DEF PutNowait, TypeOK
        <4> QED BY <4>1 DEF Current
      <3> QED BY <2>1, <3>1, <3>2, <3>3, PutKeepsOrder
    <2> QED BY <2>2, <2>3
  <1>2. ASSUME NEW p \in Producers, Evict(p) PROVE OrderInv'
    <2>1. UNCHANGED <<held, sent, requeued>> BY <1>2 DEF Evict
    <2>2. CASE q = <<>> BY <1>2, <1>u, <2>1, <2>2 DEF Evict
    <2>3. CASE q # <<>>
      <3>1. q' = Tail(q) BY <1>2, <2>3 DEF Evict
      <3>2. InOrder(q', requeued) /\ Elements(q') \subseteq Elements(q) BY <1>t, <2>3, <3>1
      <3> QED BY <2>1, <3>2 DEF OrderInv, InOrder, AllBehind, Elements
    <2> QED BY <2>2, <2>3
  <1>3. ASSUME NEW p \in Producers, RetryPut(p) PROVE OrderInv'
    <2>1. UNCHANGED <<held, sent, requeued>> /\ q' = Append(q, Current(p)) /\ pc[p] = "evicted"
      BY <1>3 DEF RetryPut, Stored, fateVars
    <2>2. Current(p) \in Pending BY <2>1 DEF Pending
    <2>3. Current(p) \in Message BY <2>2 DEF FateInv, Partition, Created
    <2>4. Current(p).src = p /\ Current(p).n >= made[p]
      <3>1. made[p] \in Nat BY DEF TypeOK
      <3> QED BY <3>1 DEF Current
    <2> QED BY <2>1, <2>3, <2>4, PutKeepsOrder
  <1>4. CASE DrainGet
    <2>1. UNCHANGED <<sent, requeued>> BY <1>4 DEF DrainGet, fateVars
    <2>2. CASE q = <<>> BY <1>4, <1>u, <2>1, <2>2 DEF DrainGet
    <2>3. CASE q # <<>>
      <3>1. q' = Tail(q) /\ held' = <<Head(q)>> BY <1>4, <2>3 DEF DrainGet
      <3>2. /\ InOrder(q', requeued) /\ Elements(q) = {Head(q)} \cup Elements(q')
            /\ AllBehind({Head(q)}, Elements(q'), requeued)
        BY <1>t, <2>3, <3>1
      <3>3. Elements(held') = {Head(q)} BY <3>1, ElementsOne
      <3>4. /\ AllBehind(Elements(sent), Elements(held'), requeued)
            /\ AllBehind(Elements(sent), Elements(q'), requeued)
            /\ AllBehind(Elements(held'), Elements(q'), requeued)
        BY <3>2, <3>3 DEF OrderInv, AllBehind
      <3> QED BY <2>1, <3>2, <3>4 DEF OrderInv, InOrder, AllBehind, Elements
    <2> QED BY <2>2, <2>3
  <1>5. CASE DrainRequeue
    <2>1. sent' = sent /\ Holding BY <1>5 DEF DrainRequeue, Holding
    <2>2. CASE ~HasRoom BY <1>5, <1>u, <2>1, <2>2 DEF DrainRequeue
    <2>3. CASE HasRoom
      <3> DEFINE m == held[1]
                 R == requeued \cup {m}
      <3>1. q' = Append(q, m) /\ held' = <<>> /\ requeued' = R
        BY <1>5, <2>3 DEF DrainRequeue, PutBack, Stored
      <3>2. m \in Message BY <2>1, InHand
      <3> HIDE DEF m
      <3>3. /\ InOrder(sent, R) /\ InOrder(q, R) /\ AllBehind(Elements(sent), Elements(q), R)
        BY OrderGrows DEF OrderInv
      <3>4. AllBehind(Elements(sent), {m}, R) /\ AllBehind(Elements(q), {m}, R)
        BY DEF AllBehind, Behind
      <3>5. InOrder(q', R) BY <1>0, <3>1, <3>2, <3>3, <3>4, OrderAppend
      <3>6. Elements(q') = Elements(q) \cup {m} BY <1>0, <3>1, <3>2, ElementsAppend
      <3>7. AllBehind(Elements(sent), Elements(q'), R) BY <3>3, <3>4, <3>6 DEF AllBehind
      <3>8. Elements(held') = {} BY <3>1, ElementsOne
      <3>9. /\ AllBehind(Elements(sent), Elements(held'), R)
            /\ AllBehind(Elements(held'), Elements(q'), R)
        BY <3>8 DEF AllBehind
      <3> HIDE DEF R
      <3> QED BY <2>1, <3>1, <3>3, <3>5, <3>7, <3>9 DEF OrderInv, InOrder, AllBehind, Elements
    <2> QED BY <2>2, <2>3
  <1>6. CASE DrainPublish
    <2>1. UNCHANGED <<q, requeued>> /\ held' = <<>> /\ Holding BY <1>6 DEF DrainPublish, Holding
    <2>2. Elements(held') = {} BY <2>1, ElementsOne
    <2>3. AllBehind(Elements(sent'), Elements(held'), requeued)
          /\ AllBehind(Elements(held'), Elements(q), requeued)
      BY <2>2 DEF AllBehind
    <2>4. CASE sent' = sent
      BY <2>1, <2>3, <2>4 DEF OrderInv, InOrder, AllBehind, Elements
    <2>5. CASE sent' = sent \o held
      <3>1. InOrder(held, requeued)
        <4>1. DOMAIN held = 1..1 BY <2>1, LenProperties DEF TypeOK
        <4>2. \A i, j \in 1..1 : ~(i < j) OBVIOUS
        <4> QED BY <4>1, <4>2 DEF InOrder
      <3>2. InOrder(sent', requeued) BY <1>0, <2>5, <3>1, OrderConcat DEF OrderInv
      <3>3. Elements(sent') = Elements(sent) \cup Elements(held) BY <1>0, <2>5, ElementsConcat
      <3>4. AllBehind(Elements(sent'), Elements(q), requeued) BY <3>3 DEF OrderInv, AllBehind
      <3> QED BY <2>1, <2>3, <3>2, <3>4 DEF OrderInv, InOrder, AllBehind, Elements
    <2> QED BY <1>6, <2>4, <2>5 DEF DrainPublish
  <1>7. ASSUME NEW p \in Producers, RetryRaises(p) \/ ScannerEnds(p) PROVE OrderInv'
    BY <1>7, <1>u DEF RetryRaises, ScannerEnds, fateVars
  <1>8. CASE \/ DrainCheck \/ DrainWait \/ OnConnect \/ SessionLost \/ OnDisconnect
             \/ HandleSignal \/ Shutdown \/ UNCHANGED vars
    <2>1. UNCHANGED <<q, held, sent, requeued>>
      BY <1>8 DEF DrainCheck, DrainWait, OnConnect, SessionLost, OnDisconnect, HandleSignal,
        Shutdown, LeaveLoop, StopDrain, PublishOffline, LoopStop, ClientDisconnect, vars,
        queueVars, fateVars
    <2> QED BY <1>u, <2>1
  <1> QED
    BY <1>1, <1>2, <1>3, <1>4, <1>5, <1>6, <1>7, <1>8 DEF Next, Enqueue, Drain

\* The messages of one producer leave in order, except for those that were put
\* back after an outage (_drain_queue 188-189).
THEOREM OnlyRequeueReorders == Spec => []ReorderOnlyByRequeue
PROOF
  <1>1. Init => FateInv BY FateInit
  <1>2. TypeOK /\ TypeOK' /\ FateInv /\ [Next]_vars => FateInv' BY FateNext
  <1>3. Init => OrderInv
    <2> SUFFICES ASSUME Init PROVE OrderInv
      OBVIOUS
    <2>1. q = <<>> /\ held = <<>> /\ sent = <<>> BY DEF Init
    <2>2. Elements(<<>>) = {} /\ DOMAIN <<>> = {} BY ElementsOne
    <2> QED BY <2>1, <2>2 DEF OrderInv, InOrder, AllBehind
  <1>4. TypeOK /\ FateInv /\ OrderInv /\ [Next]_vars => OrderInv' BY OrderNext
  <1>5. TypeOK /\ OrderInv => ReorderOnlyByRequeue
    <2> SUFFICES ASSUME TypeOK, OrderInv PROVE ReorderOnlyByRequeue
      OBVIOUS
    <2>1. sent \in Seq(Message) /\ held \in Seq(Message) /\ q \in Seq(Message) BY DEF TypeOK
    <2>2. InOrder(held, requeued)
      <3>1. DOMAIN held \in {1..0, 1..1} BY <2>1, LenProperties DEF TypeOK
      <3>2. \A i, j \in 1..1 : ~(i < j) OBVIOUS
      <3>3. \A i, j \in 1..0 : ~(i < j) OBVIOUS
      <3> QED BY <3>1, <3>2, <3>3 DEF InOrder
    <2>3. InOrder(sent \o held, requeued) /\ sent \o held \in Seq(Message)
      BY <2>1, <2>2, OrderConcat, ConcatProperties DEF OrderInv
    <2>4. AllBehind(Elements(sent \o held), Elements(q), requeued)
      <3>1. Elements(sent \o held) = Elements(sent) \cup Elements(held)
        BY <2>1, ElementsConcat
      <3> QED BY <3>1 DEF OrderInv, AllBehind
    <2>5. InOrder(Flow, requeued) BY <2>1, <2>3, <2>4, OrderConcat DEF OrderInv, Flow
    <2> QED BY <2>5 DEF ReorderOnlyByRequeue, InOrder, Behind
  <1> QED BY <1>1, <1>2, <1>3, <1>4, <1>5, TypeCorrect, PTL DEF Spec
=============================================================================
