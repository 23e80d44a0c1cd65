---------------------------- MODULE MqttPublisher ----------------------------
(***************************************************************************)
(* The publisher of a sensor node (argus-node/publisher/mqtt_client.py)    *)
(* and the agent's main loop around it (argus-node/agent.py).              *)
(*                                                                         *)
(* Scanner threads and the main thread put messages on one bounded queue;  *)
(* a drain thread takes them off and hands them to the MQTT client; the    *)
(* client's network thread raises and lowers the `connected' event.  An    *)
(* action is one step between two points at which another thread can run:  *)
(* queue.Queue and threading.Event are atomic per call, _enqueue and       *)
(* _drain_queue are not.                                                   *)
(*                                                                         *)
(* Left out: the payloads, the length of the drain thread's backoff sleep, *)
(* and exceptions out of paho's publish, which that thread logs.           *)
(***************************************************************************)
EXTENDS Integers, Sequences, FiniteSets

CONSTANTS
  Scanners,  \* threads that publish what they receive
  Guarded,   \* the scanners whose packet callback swallows every exception
  Durable,   \* the producers whose messages have QoS 1 (detections)
  Main,      \* the main thread: heartbeats, then shutdown
  MaxQueue,  \* cfg.max_queue_size
  MaxMsgs    \* bound of the model: messages each producer creates

Producers == Scanners \cup {Main}

ASSUME PublisherAssumption ==
  /\ Main \notin Scanners
  /\ IsFiniteSet(Scanners)
  /\ Guarded \subseteq Scanners
  /\ Durable \subseteq Producers
  /\ MaxQueue \in Nat \ {0}
  /\ MaxMsgs \in [Producers -> Nat]

Message == UNION {[src: {p}, n: 1..MaxMsgs[p]] : p \in Producers}

VARIABLES
  q,           \* self._q
  pc,          \* where each producer is in _enqueue
  made,        \* how many messages each producer has created
  dpc,         \* where the drain thread is in _drain_queue
  held,        \* what the drain thread has taken off the queue: <<>> or <<m>>
  sock,        \* the client has a session with the broker
  connected,   \* self._connected
  stop,        \* self._stop
  agentStop,   \* the agent's _stop_event
  mpc,         \* where the main thread is in main() and disconnect()
  status,      \* the last status message handed to the client
  \* What became of the messages (history).
  sent,        \* handed to the client, in order
  evicted,     \* taken off a full queue by a producer
  raised,      \* their _enqueue ended with queue.Full
  failed,      \* QoS 0, handed to a client without a session
  requeued,    \* put back on the queue by the drain thread at least once
  sentBefore   \* Len(sent) when disconnect() published "offline"

queueVars == <<q, pc, made, dpc, held>>
netVars   == <<sock, connected, status>>
stopVars  == <<stop, agentStop, mpc, sentBefore>>
fateVars  == <<sent, evicted, raised, failed, requeued>>
vars      == <<queueVars, netVars, stopVars, fateVars>>

Current(p) == [src |-> p, n |-> made[p]]

\* Mutant: one message too many fits.
HasRoom_OffByOne == Len(q) <= MaxQueue

HasRoom == Len(q) < MaxQueue

\* Mutant: a LIFO queue.
Stored_AtHead(m) == <<m>> \o q

\* The queue after a put.
Stored(m) == Append(q, m)

Init ==
  /\ q = <<>> /\ held = <<>> /\ sent = <<>>
  /\ pc = [p \in Producers |-> "idle"]
  /\ made = [p \in Producers |-> 0]
  /\ dpc = "check"
  /\ sock = FALSE /\ connected = FALSE /\ stop = FALSE /\ agentStop = FALSE
  /\ mpc = "loop"
  /\ status = "none"
  /\ evicted = {} /\ raised = {} /\ failed = {} /\ requeued = {}
  /\ sentBefore = 0

-----------------------------------------------------------------------------
(* Producers: _enqueue. *)

\* A thread enters _enqueue.  The main loop re-reads _stop_event before each
\* heartbeat; a scanner may still have a packet in hand when it is set.
MayProduce(p) ==
  /\ pc[p] = "idle"
  /\ made[p] < MaxMsgs[p]
  /\ p = Main => mpc = "loop" /\ ~agentStop

\* The first put_nowait: it stores the message or raises queue.Full.
PutNowait(p) ==
  /\ MayProduce(p)
  /\ made' = [made EXCEPT ![p] = @ + 1]
  /\ \/ HasRoom /\ q' = Stored(Current(p)') /\ UNCHANGED pc
     \/ ~HasRoom /\ pc' = [pc EXCEPT ![p] = "full"] /\ UNCHANGED q
  /\ UNCHANGED <<dpc, held, netVars, stopVars, fateVars>>

\* get_nowait: drops the head.  queue.Empty is passed over.
Evict(p) ==
  /\ pc[p] = "full"
  /\ pc' = [pc EXCEPT ![p] = "evicted"]
  /\ \/ q # <<>> /\ q' = Tail(q) /\ evicted' = evicted \cup {Head(q)}
     \/ q = <<>> /\ UNCHANGED <<q, evicted>>
  /\ UNCHANGED <<made, dpc, held, netVars, stopVars, sent, raised, failed, requeued>>

\* Mutant: the producer gives up its message once it has made room for it.
RetryPut_Forgotten(p) ==
  /\ pc[p] = "evicted" /\ HasRoom
  /\ pc' = [pc EXCEPT ![p] = "idle"]
  /\ UNCHANGED <<q, made, dpc, held, netVars, stopVars, fateVars>>

\* Second put_nowait, nobody having taken the slot.
RetryPut(p) ==
  /\ pc[p] = "evicted" /\ HasRoom
  /\ q' = Stored(Current(p))
  /\ pc' = [pc EXCEPT ![p] = "idle"]
  /\ UNCHANGED <<made, dpc, held, netVars, stopVars, fateVars>>

\* Second put_nowait on a queue that is full again: queue.Full leaves _enqueue.
\* A guarded scanner goes on, another one's thread ends, and the main thread
\* enters the finally block of main().
RetryRaises(p) ==
  /\ pc[p] = "evicted" /\ ~HasRoom
  /\ raised' = raised \cup {Current(p)}
  /\ pc' = [pc EXCEPT ![p] = IF p \in Guarded THEN "idle" ELSE "ended"]
  /\ IF p = Main THEN mpc' = "join" /\ agentStop' = TRUE
                 ELSE UNCHANGED <<mpc, agentStop>>
  /\ UNCHANGED <<q, made, dpc, held, netVars, stop, sentBefore,
                 sent, evicted, failed, requeued>>

\* A scanner's loop sees _stop_event.
ScannerEnds(p) ==
  /\ p # Main /\ pc[p] = "idle" /\ agentStop
  /\ pc' = [pc EXCEPT ![p] = "ended"]
  /\ UNCHANGED <<q, made, dpc, held, netVars, stopVars, fateVars>>

-----------------------------------------------------------------------------
(* The drain thread: _drain_queue. *)

\* while not self._stop.is_set()
DrainCheck ==
  /\ dpc = "check"
  /\ dpc' = IF stop THEN "ended" ELSE "get"
  /\ UNCHANGED <<q, pc, made, held, netVars, stopVars, fateVars>>

\* Mutant: an empty queue ends the thread.
AfterEmpty_Ended == "ended"

\* After queue.Empty: continue.
AfterEmpty == "check"

\* self._q.get(timeout=1): a message, or queue.Empty and another turn.
DrainGet ==
  /\ dpc = "get"
  /\ \/ /\ q # <<>>
        /\ held' = <<Head(q)>> /\ q' = Tail(q)
        /\ dpc' = "wait"
     \/ q = <<>> /\ dpc' = AfterEmpty /\ UNCHANGED <<q, held>>
  /\ UNCHANGED <<pc, made, netVars, stopVars, fateVars>>

\* self._connected.wait(timeout=10)
DrainWait ==
  /\ dpc = "wait"
  /\ dpc' = IF connected THEN "publish" ELSE "requeue"
  /\ UNCHANGED <<q, pc, made, held, netVars, stopVars, fateVars>>

\* Mutant: the message that could not be sent is not put back.
PutBack_Forgotten == q

\* The queue after the drain thread's put: the message goes to the tail.
PutBack == Stored(held[1])

\* self._q.put(...): blocks while the queue is full.
DrainRequeue ==
  /\ dpc \in {"requeue", "blocked"}
  /\ \/ /\ HasRoom
        /\ q' = PutBack
        /\ requeued' = requeued \cup {held[1]}
        /\ held' = <<>> /\ dpc' = "check"
     \/ /\ ~HasRoom /\ dpc = "requeue"
        /\ dpc' = "blocked"
        /\ UNCHANGED <<q, held, requeued>>
  /\ UNCHANGED <<pc, made, netVars, stopVars, sent, evicted, raised, failed>>

\* The client takes a message if it has a session; one of QoS 1 it also keeps
\* without a session and sends when it is back.
DrainPublish ==
  /\ dpc = "publish"
  /\ IF sock \/ held[1].src \in Durable
       THEN sent' = sent \o held /\ UNCHANGED failed
       ELSE failed' = failed \cup {held[1]} /\ UNCHANGED sent
  /\ held' = <<>> /\ dpc' = "check"
  /\ UNCHANGED <<q, pc, made, netVars, stopVars, evicted, raised, requeued>>

-----------------------------------------------------------------------------
(* The client's network thread, which runs until loop_stop. *)

\* CONNACK with rc = 0.  (Another rc clears an event that is already clear.)
OnConnect ==
  /\ ~sock /\ ~connected /\ mpc \notin {"client", "done"}
  /\ sock' = TRUE /\ connected' = TRUE /\ status' = "online"
  /\ UNCHANGED <<queueVars, stopVars, fateVars>>

\* The session is gone before the callback clears the event.
SessionLost ==
  /\ sock /\ mpc # "done"
  /\ sock' = FALSE
  /\ UNCHANGED <<queueVars, connected, status, stopVars, fateVars>>

OnDisconnect ==
  /\ ~sock /\ connected
  /\ connected' = FALSE
  /\ UNCHANGED <<queueVars, sock, status, stopVars, fateVars>>

-----------------------------------------------------------------------------
(* The main thread: signals, the end of main(), disconnect(). *)

HandleSignal ==
  /\ ~agentStop
  /\ agentStop' = TRUE
  /\ UNCHANGED <<queueVars, netVars, stop, mpc, sentBefore, fateVars>>

LeaveLoop ==
  /\ mpc = "loop" /\ agentStop /\ pc[Main] = "idle"
  /\ mpc' = "join"
  /\ UNCHANGED <<queueVars, netVars, stop, agentStop, sentBefore, fateVars>>

\* Mutant: the drain thread is not told to stop.
StopDrain_NotSet ==
  /\ mpc = "join"
  /\ mpc' = "status"
  /\ UNCHANGED <<queueVars, netVars, stop, agentStop, sentBefore, fateVars>>

\* The scanners are joined for at most 5 s each, finished or not; then
\* disconnect() sets the drain thread's stop event.
StopDrain ==
  /\ mpc = "join"
  /\ stop' = TRUE /\ mpc' = "status"
  /\ UNCHANGED <<queueVars, netVars, agentStop, sentBefore, fateVars>>

PublishOffline ==
  /\ mpc = "status"
  /\ status' = "offline" /\ sentBefore' = Len(sent) /\ mpc' = "loopstop"
  /\ UNCHANGED <<queueVars, sock, connected, stop, agentStop, fateVars>>

LoopStop ==
  /\ mpc = "loopstop"
  /\ mpc' = "client"
  /\ UNCHANGED <<queueVars, netVars, stop, agentStop, sentBefore, fateVars>>

ClientDisconnect ==
  /\ mpc = "client"
  /\ sock' = FALSE /\ connected' = FALSE /\ mpc' = "done"
  /\ UNCHANGED <<queueVars, status, stop, agentStop, sentBefore, fateVars>>

-----------------------------------------------------------------------------
Enqueue(p) == Evict(p) \/ RetryPut(p) \/ RetryRaises(p)
Drain      == DrainCheck \/ DrainGet \/ DrainWait \/ DrainRequeue \/ DrainPublish
Shutdown   == LeaveLoop \/ StopDrain \/ PublishOffline \/ LoopStop \/ ClientDisconnect

Next ==
  \/ \E p \in Producers : PutNowait(p) \/ Enqueue(p) \/ ScannerEnds(p)
  \/ Drain
  \/ OnConnect \/ SessionLost \/ OnDisconnect
  \/ HandleSignal \/ Shutdown

Spec == Init /\ [][Next]_vars

\* A thread inside _enqueue, the drain thread, the callbacks and the shutdown
\* go on; nothing makes a scanner receive, a session form or a signal arrive.
Fairness ==
  /\ \A p \in Producers : WF_vars(Enqueue(p))
  /\ WF_vars(Drain) /\ WF_vars(OnDisconnect) /\ WF_vars(Shutdown)

FairSpec == Spec /\ Fairness
-----------------------------------------------------------------------------
(* Properties. *)

\* The drain thread has a message in hand.
Holding == dpc \in {"wait", "publish", "requeue", "blocked"}

TypeOK ==
  /\ q \in Seq(Message) /\ Len(q) <= MaxQueue
  /\ pc \in [Producers -> {"idle", "full", "evicted", "ended"}]
  /\ made \in [Producers -> Nat] /\ \A p \in Producers : made[p] <= MaxMsgs[p]
  /\ \A p \in Producers : pc[p] \in {"full", "evicted"} => made[p] > 0
  /\ dpc \in {"check", "get", "wait", "publish", "requeue", "blocked", "ended"}
  /\ held \in Seq(Message)
  /\ Holding => Len(held) = 1
  /\ ~Holding => Len(held) = 0
  /\ sock \in BOOLEAN /\ connected \in BOOLEAN
  /\ stop \in BOOLEAN /\ agentStop \in BOOLEAN
  /\ mpc \in {"loop", "join", "status", "loopstop", "client", "done"}
  /\ status \in {"none", "online", "offline"}
  /\ sent \in Seq(Message)
  /\ evicted \subseteq Message /\ raised \subseteq Message
  /\ failed \subseteq Message /\ requeued \subseteq Message
  /\ sentBefore \in Nat

\* Every message on its way out or out, oldest first.
Flow == sent \o held \o q

Elements(s) == {s[i] : i \in DOMAIN s}
Pending     == {Current(p) : p \in {r \in Producers : pc[r] \in {"full", "evicted"}}}
Created     == {m \in Message : m.n <= made[m.src]}

\* No message is handed to the client twice or vanishes: each one a producer
\* created is at one place of the queue, the drain thread or the client, or
\* still inside _enqueue, or accounted for by exactly one way of being lost.
\* (_enqueue 166-176 against _drain_queue 178-200, all interleavings.)
NoLossNoDuplicate ==
  /\ \A i, j \in DOMAIN Flow : i # j => Flow[i] # Flow[j]
  /\ Created = Elements(Flow) \cup Pending \cup evicted \cup raised \cup failed
  /\ Elements(Flow) \cap (Pending \cup evicted \cup raised \cup failed) = {}
  /\ Pending \cap (evicted \cup raised \cup failed) = {}
  /\ evicted \cap (raised \cup failed) = {} /\ raised \cap failed = {}

\* The publisher is an Outbox: a message waits inside _enqueue, on the queue or
\* in the drain thread, and each step of a thread settles the fate of at most
\* one, by sending it or by one of the three ways of losing it.
Box == INSTANCE Outbox WITH
  waiting <- Pending \cup Elements(held \o q),
  lost    <- evicted \cup raised \cup failed

ImplementsOutbox == Box!Spec

\* The messages of one producer leave in the order it created them, except for
\* those the drain thread put back at the tail after an outage (_drain_queue
\* 188): a message is behind a newer one only if it was requeued.
ReorderOnlyByRequeue ==
  \A i, j \in DOMAIN Flow :
    i < j /\ Flow[i].src = Flow[j].src /\ Flow[i].n > Flow[j].n
      => Flow[j] \in requeued

\* What frees a drain thread blocked on its own full queue (_drain_queue 188).
\* It is the queue's only consumer, so a slot it could take exists only while a
\* producer is between its get_nowait and its second put_nowait (_enqueue
\* 172-176), and the thread goes on at that producer's expense.
Evicting == {p \in Producers : pc[p] = "evicted"}

SlotBelongsToProducer ==
  dpc = "blocked" /\ HasRoom => Evicting # {}

\* disconnect() (79-83) stops the drain thread before it publishes "offline":
\* at most the one message that thread had in hand follows it.
AtMostOneAfterOffline ==
  mpc \in {"loopstop", "client", "done"} => Len(sent) <= sentBefore + 1

\* If the session stays up and the agent is not stopped, each message leaves the queue and
\* the drain thread's hand, however many are put behind it, unless the thread is blocked for
\* good on its own full queue (_drain_queue 178-200).  Nothing is said of the queue as a
\* whole: producers that never pause may keep it from being empty.
DrainsUnlessBlocked ==
  <>[](connected /\ sock /\ ~stop)
    => <>[](dpc = "blocked") \/ \A m \in Message : <>[](m \notin Elements(held \o q))

\* Documented: `Enqueue a drone detection event. Non-blocking.' (101) and, when
\* the queue is full, `dropping oldest message' (171): a full queue costs its
\* oldest message, and _enqueue does not fail.
EnqueueNeverFails == raised = {}
=============================================================================
