----------------------------- MODULE RidAssembler -----------------------------
(***************************************************************************)
(* RIDAssembler of argus-node (parser/assembler.py), fed by the Bluetooth  *)
(* scanner with what transmitters send: it merges messages that arrive in  *)
(* separate packets and returns a snapshot to publish now and then.  The   *)
(* choice between the several IDs of a drone is OpenDroneIDParser's        *)
(* (parser/opendroneid.py).                                                *)
(*                                                                         *)
(* A payload is the sequence of the messages in it, a pack or a single     *)
(* one; without any it is not usable.  Of the messages, only a BasicID     *)
(* with an ID matters to what is published and when; the others (Message)  *)
(* stand for Location, System, OperatorID, Self-ID, and for AUTH and a     *)
(* BasicID without an ID, which change nothing.  Times are ages, each      *)
(* counted up to the value from which its comparison treats all alike.     *)
(*                                                                         *)
(* Left out: the fields of the other messages; a clock that is set back.   *)
(***************************************************************************)
EXTENDS Integers, Sequences, FiniteSets, SequencesExt

CONSTANTS
  Transmitters, IDs,
  Ranks,         \* of the ID types that are sent, 0..4 in _ID_PRIORITY
  Sends,         \* the BasicIDs that each transmitter sends
  MaxPack,       \* messages in a payload (9 in the code)
  Interval,      \* publish_interval, id_grace, ttl and the 5 s between two
  Grace,         \* expiries, in ticks
  TTL,
  ExpireEvery

None   == "none"
Serial == 4

BasicIDs == [id: IDs, rank: Ranks]

ASSUME AssemblerAssumption ==
  /\ None \notin IDs \cup Transmitters /\ Ranks \subseteq 0..Serial
  /\ Sends \in [Transmitters -> SUBSET BasicIDs]
  /\ MaxPack \in Nat \ {0}
  /\ Interval \in Nat \ {0} /\ Grace \in Nat \ {0} /\ ExpireEvery \in Nat \ {0}
  /\ TTL \in Nat /\ Interval <= TTL

Message == [id |-> None, rank |-> 0]
Payloads(t) == BoundedSeq(Sends[t] \cup {Message}, MaxPack)

VARIABLES
  states,     \* _states: per known transmitter, the ID and its rank in its
              \* frame, the ages of first_seen, last_seen and last_publish
  expired,    \* age of _last_expire
  out,        \* what the last feed() returned: a snapshot's key, id and rank
  \* History.
  silence,    \* age of the last usable message of each transmitter
  shown,      \* age of its last snapshot
  filled,     \* transmitters with a usable message since they are known
  heard,      \* BasicIDs merged since the transmitter is known
  inGrace,    \* those of them before the grace period was over
  published   \* IDs of its snapshots since it is known

history == <<silence, shown, filled, heard, inGrace, published>>
vars    == <<states, expired, out, history>>

\* The longest silence that something known may survive is shorter.
Long == TTL + ExpireEvery

\* The _State of a transmitter that is not known; no publication is long ago.
NewState == [frame |-> Message, first |-> 0, last |-> 0, published |-> Interval]
NoSnapshot == [key |-> None, id |-> None, rank |-> 0]

Init ==
  /\ states = <<>> /\ expired = ExpireEvery /\ out = NoSnapshot
  /\ silence = [t \in Transmitters |-> Long]
  /\ shown = [t \in Transmitters |-> Interval]
  /\ filled = {}
  /\ heard = [t \in Transmitters |-> {}] /\ inGrace = [t \in Transmitters |-> {}]
  /\ published = [t \in Transmitters |-> {}]

Older(age, most) == IF age < most THEN age + 1 ELSE age

Tick ==
  /\ states' = [t \in DOMAIN states |->
       [states[t] EXCEPT !.first = Older(@, Grace), !.last = Older(@, TTL + 1),
                         !.published = Older(@, Interval)]]
  /\ expired' = Older(expired, ExpireEvery)
  /\ silence' = [t \in Transmitters |-> Older(silence[t], Long)]
  /\ shown' = [t \in Transmitters |-> Older(shown[t], Interval)]
  /\ out' = NoSnapshot
  /\ UNCHANGED <<filled, heard, inGrace, published>>

-----------------------------------------------------------------------------
(* The parser. *)

\* Mutant: the last ID wins.
Keeps_Last(f, m) == FALSE

\* The frame keeps its ID when another one of a lower rank arrives.
Keeps(f, m) == f.id # None /\ m.id # f.id /\ m.rank < f.rank

Apply(f, m) == IF m = Message \/ Keeps(f, m) THEN f ELSE m

\* What the messages of a payload, one after the other, make of a frame.
Applied(f, p) ==
  LET after[i \in 0..Len(p)] == IF i = 0 THEN f ELSE Apply(after[i - 1], p[i])
  IN  after[Len(p)]

-----------------------------------------------------------------------------
(* feed(). *)

Kept(t) == states[t].last <= TTL

\* What _expire leaves.
Survivors ==
  IF expired < ExpireEvery THEN DOMAIN states ELSE {t \in DOMAIN states : Kept(t)}

State(t) == IF t \in Survivors THEN states[t] ELSE NewState

\* Mutant: first_seen is written at each message.
Merged_First(t, p) ==
  [State(t) EXCEPT !.frame = Applied(@, p), !.last = 0, !.first = 0]

Merged(t, p) == [State(t) EXCEPT !.frame = Applied(@, p), !.last = 0]

\* Mutant: an ID that is not a serial number is published at once.
Waits_Not(s) == FALSE

\* Another type of ID waits for a serial number.
Waits(s) == s.frame.rank # Serial /\ s.first < Grace

\* Mutant: what has no ID is published.
Due_Nameless(s) == ~Waits(s) /\ s.published >= Interval

\* Mutant: the interval is not kept.
Due_AtOnce(s) == s.frame.id # None /\ ~Waits(s)

Due(s) == s.frame.id # None /\ ~Waits(s) /\ s.published >= Interval

Store(t, s) ==
  /\ states' = [x \in Survivors \cup {t} |-> IF x = t THEN s ELSE states[x]]
  /\ expired' = IF expired < ExpireEvery THEN expired ELSE 0

Named(p) == {m \in BasicIDs : \E i \in DOMAIN p : p[i] = m}

\* The history of a feed: a transmitter that is not known has none.
Note(t, p) ==
  LET past(h) == [x \in Transmitters |-> IF x \in Survivors THEN h[x] ELSE {}]
      early   == IF State(t).first < Grace THEN Named(p) ELSE {}
  IN  /\ filled' = (filled \cap Survivors) \cup (IF p # <<>> THEN {t} ELSE {})
      /\ heard' = [past(heard) EXCEPT ![t] = @ \cup Named(p)]
      /\ inGrace' = [past(inGrace) EXCEPT ![t] = @ \cup early]
      /\ published' =
           [past(published) EXCEPT ![t] = @ \cup IF out'.key = t THEN {out'.id} ELSE {}]

\* Mutant: what cannot be used counts as heard.
FeedUnusable_Heard(t) ==
  /\ Store(t, [State(t) EXCEPT !.last = 0])
  /\ out' = NoSnapshot
  /\ Note(t, <<>>)
  /\ UNCHANGED <<silence, shown>>

\* apply() returns False; a transmitter becomes known all the same.
FeedUnusable(t) ==
  /\ Store(t, State(t))
  /\ out' = NoSnapshot
  /\ Note(t, <<>>)
  /\ UNCHANGED <<silence, shown>>

FeedMerged(t, p) ==
  /\ p # <<>>
  /\ ~Due(Merged(t, p))
  /\ Store(t, Merged(t, p))
  /\ out' = NoSnapshot
  /\ Note(t, p)
  /\ silence' = [silence EXCEPT ![t] = 0]
  /\ UNCHANGED shown

FeedDue(t, p) ==
  /\ p # <<>>
  /\ Due(Merged(t, p))
  /\ Store(t, [Merged(t, p) EXCEPT !.published = 0])
  /\ out' = [key |-> t, id |-> Merged(t, p).frame.id,
             rank |-> Merged(t, p).frame.rank]
  /\ Note(t, p)
  /\ silence' = [silence EXCEPT ![t] = 0]
  /\ shown' = [shown EXCEPT ![t] = 0]

Feed(t) ==
  \/ FeedUnusable(t)
  \/ \E p \in Payloads(t) : FeedMerged(t, p) \/ FeedDue(t, p)

Next == Tick \/ \E t \in Transmitters : Feed(t)

Spec == Init /\ [][Next]_vars

\* Time passes.  That a transmitter is heard is a premise where it is needed.
FairSpec == Spec /\ WF_vars(Tick)
-----------------------------------------------------------------------------
(* Properties. *)

TypeOK ==
  /\ DOMAIN states \subseteq Transmitters
  /\ \A t \in DOMAIN states :
       states[t] \in [frame: Sends[t] \cup {Message}, first: 0..Grace, last: 0..TTL + 1,
                      published: 0..Interval]
  /\ expired \in 0..ExpireEvery
  /\ out \in [key: Transmitters, id: IDs, rank: 0..Serial] \cup {NoSnapshot}
  /\ silence \in [Transmitters -> 0..Long] /\ shown \in [Transmitters -> 0..Interval]
  /\ filled \subseteq Transmitters
  /\ heard \in [Transmitters -> SUBSET BasicIDs]
  /\ inGrace \in [Transmitters -> SUBSET BasicIDs]
  /\ published \in [Transmitters -> SUBSET IDs]

\* Two snapshots of a transmitter are an interval apart, even when it was
\* forgotten in between and its last_publish with it (feed 77-79, _expire).
SnapshotsApart ==
  [][\A t \in Transmitters : out'.key = t => shown[t] >= Interval]_vars

\* A transmitter that was silent for the TTL and an expiry more starts afresh,
\* whoever's feed it is that expires it, so nothing from before the silence is
\* published with what comes after (feed 59-64, _expire 85-90).
SilenceForgets ==
  [][\A t \in Transmitters :
       silence[t] >= Long /\ silence'[t] = 0 => t \notin Survivors \cap filled]_vars

\* One ID per rank, and no ID under two ranks.
Unambiguous(t) == \A a, b \in heard[t] : a.id = b.id <=> a.rank = b.rank

\* What is published is the most specific ID heard (_parse_basic_id 268-275),
\* across packs and packets, unless the same ID came under two types.
BestIdPublished ==
  \A t \in Transmitters :
    out.key = t /\ Unambiguous(t) => \A m \in heard[t] : m.rank <= out.rank

\* A drone that sends its serial number within the grace period has one track,
\* whatever else it sends (__init__ 44-46, feed 75).
OneTrack ==
  \A t \in Transmitters :
    Unambiguous(t) /\ (\E m \in inGrace[t] : m.rank = Serial)
      => \A i, j \in published[t] : i = j

HasId(t) == t \in DOMAIN states /\ states[t].frame.id # None

\* A drone that is named, and never silent for longer than the TTL, is published
\* again and again: neither the grace period nor the interval starves it, nor
\* the expiry (feed 68-79).  One that is silent for longer may wait out its grace
\* period each time anew.
KeepsPublishing ==
  \A t \in Transmitters :
    <>[](silence[t] <= TTL) /\ []<>HasId(t) => []<>(out.key = t)
=============================================================================
