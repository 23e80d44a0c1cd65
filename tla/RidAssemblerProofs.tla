-------------------------- MODULE RidAssemblerProofs --------------------------
(* Proofs about the assembler, for any number of transmitters, any payloads   *)
(* and any times: its ages, and with them when it publishes and forgets; and  *)
(* the frames, and with them which IDs it publishes.  What a payload makes of *)
(* a frame is a recursive function, met by induction over a set of numbers.   *)
EXTENDS RidAssembler, FiniteSetTheorems, TLAPS

\* The times are natural numbers; an interval is not longer than the TTL.
LEMMA Times ==
  /\ Interval \in Nat /\ Interval > 0 /\ Grace \in Nat /\ TTL \in Nat
  /\ ExpireEvery \in Nat /\ ExpireEvery > 0 /\ Interval <= TTL
  /\ Long \in Nat /\ Long = TTL + ExpireEvery
BY AssemblerAssumption DEF Long

\* The ages that the invariant is about, and their types.
LastAge(t)    == states[t].last
PublishAge(t) == states[t].published

TimesOK ==
  /\ DOMAIN states \subseteq Transmitters
  /\ \A t \in DOMAIN states :
       /\ states[t] = [frame |-> states[t].frame, first |-> states[t].first,
                       last |-> LastAge(t), published |-> PublishAge(t)]
       /\ LastAge(t) \in 0..TTL + 1 /\ PublishAge(t) \in 0..Interval
  /\ expired \in 0..ExpireEvery
  /\ silence \in [Transmitters -> 0..Long] /\ shown \in [Transmitters -> 0..Interval]
  /\ filled \subseteq DOMAIN states

\* last_publish is never newer than the last snapshot, nor is that older than it
\* says unless an interval is over: a transmitter that was forgotten was silent
\* for longer than an interval, and so was not published for as long.
ShownInv ==
  \A t \in Transmitters :
    shown[t] < Interval =>
      t \in DOMAIN states /\ PublishAge(t) <= shown[t] /\ LastAge(t) <= shown[t]

\* A transmitter that is known by a message was heard as long ago as last_seen
\* says, and since the last expiry no such silence has outgrown the TTL by more
\* than the time that has passed.
SilenceInv ==
  \A t \in filled :
    /\ LastAge(t) = silence[t] \/ (LastAge(t) = TTL + 1 /\ silence[t] > TTL)
    /\ expired < ExpireEvery => silence[t] <= TTL + expired

Inv == TimesOK /\ ShownInv /\ SilenceInv

\* The assembler starts with nothing known.
LEMMA InitInv == Init => Inv
PROOF
  <1> SUFFICES ASSUME Init PROVE Inv OBVIOUS
  <1>1. DOMAIN states = {} /\ filled = {} BY DEF Init
  <1>2. TimesOK BY <1>1, Times DEF Init, TimesOK
  <1>3. \A t \in Transmitters : ~(shown[t] < Interval) BY Times DEF Init
  <1> QED BY <1>1, <1>2, <1>3 DEF Inv, ShownInv, SilenceInv

\* Time passes for all ages alike.
LEMMA TickInv ==
  ASSUME Inv, Tick
  PROVE  Inv'
PROOF
  <1>1. /\ DOMAIN states' = DOMAIN states /\ filled' = filled
        /\ \A t \in Transmitters :
             silence'[t] = Older(silence[t], Long) /\ shown'[t] = Older(shown[t], Interval)
        /\ expired' = Older(expired, ExpireEvery)
    BY DEF Tick
  <1>2. ASSUME NEW t \in DOMAIN states
        PROVE  /\ states'[t] = [frame |-> states'[t].frame, first |-> states'[t].first,
                                last |-> LastAge(t)', published |-> PublishAge(t)']
               /\ LastAge(t)' = Older(LastAge(t), TTL + 1)
               /\ PublishAge(t)' = Older(PublishAge(t), Interval)
    <2>1. states'[t] = [states[t] EXCEPT !.first = Older(@, Grace), !.last = Older(@, TTL + 1),
                                         !.published = Older(@, Interval)]
      BY DEF Tick
    <2>2. states[t] = [frame |-> states[t].frame, first |-> states[t].first,
                       last |-> LastAge(t), published |-> PublishAge(t)]
      BY DEF Inv, TimesOK
    <2> QED BY <2>1, <2>2 DEF LastAge, PublishAge
  <1>3. TimesOK'
    <2>1. \A t \in DOMAIN states' : LastAge(t)' \in 0..TTL + 1 /\ PublishAge(t)' \in 0..Interval
      BY <1>1, <1>2, Times DEF Inv, TimesOK, Older
    <2>2. expired' \in 0..ExpireEvery BY <1>1, Times DEF Inv, TimesOK, Older
    <2>3. silence' \in [Transmitters -> 0..Long] /\ shown' \in [Transmitters -> 0..Interval]
      <3>1. ASSUME NEW n \in Nat, NEW a \in 0..n PROVE Older(a, n) \in 0..n BY DEF Older
      <3>2. \A t \in Transmitters : silence[t] \in 0..Long /\ shown[t] \in 0..Interval
        BY DEF Inv, TimesOK
      <3>3. /\ silence' = [t \in Transmitters |-> Older(silence[t], Long)]
            /\ shown' = [t \in Transmitters |-> Older(shown[t], Interval)]
        BY DEF Tick
      <3> QED BY <3>1, <3>2, <3>3, Times
    <2> QED BY <1>1, <1>2, <2>1, <2>2, <2>3 DEF Inv, TimesOK
  <1>4. ShownInv'
    <2> SUFFICES ASSUME NEW t \in Transmitters, shown'[t] < Interval
                 PROVE  /\ t \in DOMAIN states' /\ PublishAge(t)' <= shown'[t]
                        /\ LastAge(t)' <= shown'[t]
      BY DEF ShownInv
    <2>1. shown[t] \in 0..Interval BY DEF Inv, TimesOK
    <2>2. shown[t] < Interval /\ shown'[t] = shown[t] + 1 BY <1>1, <2>1, Times DEF Older
    <2>3. t \in DOMAIN states /\ PublishAge(t) <= shown[t] /\ LastAge(t) <= shown[t]
      BY <2>2 DEF Inv, ShownInv
    <2>4. LastAge(t) \in Int /\ PublishAge(t) \in Int BY <2>3, Times DEF Inv, TimesOK
    <2> QED BY <1>1, <1>2, <2>1, <2>2, <2>3, <2>4, Times DEF Older
  <1>5. SilenceInv'
    <2> SUFFICES ASSUME NEW t \in filled
                 PROVE  /\ \/ LastAge(t)' = silence'[t]
                           \/ LastAge(t)' = TTL + 1 /\ silence'[t] > TTL
                        /\ expired' < ExpireEvery => silence'[t] <= TTL + expired'
      BY <1>1 DEF SilenceInv
    <2>1. t \in DOMAIN states /\ t \in Transmitters /\ LastAge(t) \in 0..TTL + 1
          /\ silence[t] \in 0..Long /\ expired \in 0..ExpireEvery
      BY DEF Inv, TimesOK
    <2>2. /\ LastAge(t) = silence[t] \/ (LastAge(t) = TTL + 1 /\ silence[t] > TTL)
          /\ expired < ExpireEvery => silence[t] <= TTL + expired
      BY DEF Inv, SilenceInv
    <2>3. LastAge(t)' = Older(LastAge(t), TTL + 1) /\ silence'[t] = Older(silence[t], Long)
      BY <1>1, <1>2, <2>1
    <2>4. LastAge(t)' = silence'[t] \/ (LastAge(t)' = TTL + 1 /\ silence'[t] > TTL)
      BY <2>1, <2>2, <2>3, Times DEF Older
    <2>5. expired' < ExpireEvery => silence'[t] <= TTL + expired'
      BY <1>1, <2>1, <2>2, <2>3, Times DEF Older
    <2> QED BY <2>4, <2>5
  <1> QED BY <1>3, <1>4, <1>5 DEF Inv

\* A feed that stores s for t, with ages that are those of t or new, keeps what
\* is said of the others, and of t if s says it.
LEMMA StoreInv ==
  ASSUME Inv, NEW t \in Transmitters, NEW s, Store(t, s),
         s = [frame |-> s.frame, first |-> s.first, last |-> s.last,
              published |-> s.published],
         s.last \in 0..TTL + 1, s.published \in 0..Interval,
         silence' \in [Transmitters -> 0..Long], shown' \in [Transmitters -> 0..Interval],
         \A x \in Transmitters : x # t => silence'[x] = silence[x] /\ shown'[x] = shown[x],
         filled' \subseteq Survivors \cup {t},
         \A x \in filled' : x # t => x \in filled,
         shown'[t] < Interval => s.published <= shown'[t] /\ s.last <= shown'[t],
         t \in filled' =>
           \/ s.last = 0 /\ silence'[t] = 0
           \/ t \in Survivors /\ t \in filled /\ s.last = LastAge(t) /\ silence'[t] = silence[t]
  PROVE  Inv'
PROOF
  <1>1. /\ states' = [x \in Survivors \cup {t} |-> IF x = t THEN s ELSE states[x]]
        /\ expired' = IF expired < ExpireEvery THEN expired ELSE 0
    BY DEF Store
  <1>2. /\ DOMAIN states' = Survivors \cup {t} /\ states'[t] = s
        /\ \A x \in Survivors : x # t => states'[x] = states[x]
    BY <1>1
  <1>3. Survivors \subseteq DOMAIN states
    BY DEF Survivors
  <1>4. LastAge(t)' = s.last /\ PublishAge(t)' = s.published
    BY <1>2 DEF LastAge, PublishAge
  <1>5. ASSUME NEW x \in Survivors, x # t
        PROVE  LastAge(x)' = LastAge(x) /\ PublishAge(x)' = PublishAge(x) /\ x \in Transmitters
    BY <1>2, <1>3, <1>5 DEF LastAge, PublishAge, Inv, TimesOK
  <1>6. expired' \in 0..ExpireEvery BY <1>1, Times DEF Inv, TimesOK
  <1>7. TimesOK'
    <2>1. DOMAIN states' \subseteq Transmitters BY <1>2, <1>3 DEF Inv, TimesOK
    <2>2. ASSUME NEW x \in DOMAIN states'
          PROVE  /\ states'[x] = [frame |-> states'[x].frame, first |-> states'[x].first,
                                  last |-> LastAge(x)', published |-> PublishAge(x)']
                 /\ LastAge(x)' \in 0..TTL + 1 /\ PublishAge(x)' \in 0..Interval
      <3>1. CASE x = t BY <1>2, <1>4, <3>1
      <3>2. CASE x # t
        <4>1. x \in Survivors /\ states'[x] = states[x] BY <1>2, <3>2
        <4>2. /\ states[x] = [frame |-> states[x].frame, first |-> states[x].first,
                              last |-> LastAge(x), published |-> PublishAge(x)]
              /\ LastAge(x) \in 0..TTL + 1 /\ PublishAge(x) \in 0..Interval
          BY <1>3, <4>1 DEF Inv, TimesOK
        <4> QED BY <1>5, <3>2, <4>1, <4>2
      <3> QED BY <3>1, <3>2
    <2>3. filled' \subseteq DOMAIN states' BY <1>2
    <2> QED BY <1>6, <2>1, <2>2, <2>3 DEF TimesOK
  <1>8. ShownInv'
    <2> SUFFICES ASSUME NEW x \in Transmitters, shown'[x] < Interval
                 PROVE  /\ x \in DOMAIN states' /\ PublishAge(x)' <= shown'[x]
                        /\ LastAge(x)' <= shown'[x]
      BY DEF ShownInv
    <2>1. CASE x = t BY <1>2, <1>4, <2>1
    <2>2. CASE x # t
      <3>1. shown'[x] = shown[x] BY <2>2
      <3>2. x \in DOMAIN states /\ PublishAge(x) <= shown[x] /\ LastAge(x) <= shown[x]
        BY <3>1 DEF Inv, ShownInv
      <3>3. shown[x] \in Int /\ LastAge(x) \in Int BY <3>2 DEF Inv, TimesOK
      <3>4. LastAge(x) <= TTL BY <3>1, <3>2, <3>3, Times
      <3>5. x \in Survivors BY <3>2, <3>4 DEF Survivors, Kept, LastAge
      <3> QED BY <1>2, <1>5, <2>2, <3>1, <3>2, <3>5
    <2> QED BY <2>1, <2>2
  <1>9. SilenceInv'
    <2> SUFFICES ASSUME NEW x \in filled'
                 PROVE  /\ \/ LastAge(x)' = silence'[x]
                           \/ LastAge(x)' = TTL + 1 /\ silence'[x] > TTL
                        /\ expired' < ExpireEvery => silence'[x] <= TTL + expired'
      BY DEF SilenceInv
    <2>1. CASE x = t /\ s.last = 0 /\ silence'[t] = 0
      BY <1>4, <1>6, <2>1, Times
    <2>2. CASE /\ x \in Survivors /\ x \in filled /\ LastAge(x)' = LastAge(x)
               /\ silence'[x] = silence[x]
      <3>1. /\ LastAge(x) = silence[x] \/ (LastAge(x) = TTL + 1 /\ silence[x] > TTL)
            /\ expired < ExpireEvery => silence[x] <= TTL + expired
        BY <2>2 DEF Inv, SilenceInv
      <3>2. expired < ExpireEvery \/ LastAge(x) <= TTL
        BY <2>2 DEF Survivors, Kept, LastAge
      <3>3. silence[x] \in Int BY <1>3, <2>2 DEF Inv, TimesOK
      <3> QED BY <1>1, <2>2, <3>1, <3>2, <3>3, Times
    <2>3. CASE x # t
      <3>1. x \in filled /\ x \in Survivors BY <2>3
      <3>2. LastAge(x)' = LastAge(x) /\ silence'[x] = silence[x] BY <1>5, <2>3, <3>1
      <3> QED BY <2>2, <3>1, <3>2
    <2> QED BY <1>4, <2>1, <2>2, <2>3
  <1> QED BY <1>7, <1>8, <1>9 DEF Inv

\* What feed() works on: what it knows of t, or what it makes up for it.
LEMMA StateParts ==
  ASSUME Inv, NEW t \in Transmitters
  PROVE  /\ State(t) = [frame |-> State(t).frame, first |-> State(t).first,
                        last |-> State(t).last, published |-> State(t).published]
         /\ State(t).last \in 0..TTL + 1 /\ State(t).published \in 0..Interval
         /\ t \in Survivors => State(t).last = LastAge(t)
         /\ shown[t] < Interval =>
              State(t).published <= shown[t] /\ State(t).last <= shown[t]
PROOF
  <1>1. CASE t \in Survivors
    <2>1. t \in DOMAIN states /\ State(t) = states[t] BY <1>1 DEF Survivors, State
    <2> QED BY <2>1 DEF Inv, TimesOK, ShownInv, LastAge, PublishAge
  <1>2. CASE t \notin Survivors
    <2>1. State(t) = NewState BY <1>2 DEF State
    <2>2. shown[t] >= Interval
      <3>1. CASE shown[t] < Interval
        <4>1. t \in DOMAIN states /\ LastAge(t) <= shown[t] BY <3>1 DEF Inv, ShownInv
        <4>2. shown[t] \in Int /\ LastAge(t) \in Int BY <4>1 DEF Inv, TimesOK
        <4>3. LastAge(t) <= TTL BY <3>1, <4>1, <4>2, Times
        <4> QED BY <1>2, <4>1, <4>3 DEF Survivors, Kept, LastAge
      <3>2. shown[t] \in Int BY DEF Inv, TimesOK
      <3> QED BY <3>1, <3>2, Times
    <2>3. shown[t] \in Int BY DEF Inv, TimesOK
    <2> QED BY <1>2, <2>1, <2>2, <2>3, Times DEF NewState
  <1> QED BY <1>1, <1>2

\* The parts of a merged state that a payload does not touch.
LEMMA MergedParts ==
  ASSUME Inv, NEW t \in Transmitters, NEW p
  PROVE  /\ Merged(t, p) = [frame |-> Merged(t, p).frame, first |-> State(t).first,
                            last |-> 0, published |-> State(t).published]
         /\ Merged(t, p).first = State(t).first /\ Merged(t, p).last = 0
         /\ Merged(t, p).published = State(t).published
PROOF
  <1> DEFINE f == Applied(State(t).frame, p)
  <1>1. Merged(t, p) = [State(t) EXCEPT !.frame = f, !.last = 0] BY Zenon DEF Merged
  <1> HIDE DEF f
  <1> QED BY <1>1, StateParts

\* The history of a feed, as far as the invariant needs it.
LEMMA NoteFilled ==
  ASSUME NEW t \in Transmitters, NEW p, Note(t, p)
  PROVE  /\ filled' \subseteq Survivors \cup {t}
         /\ \A x \in filled' : x # t => x \in filled
         /\ p = <<>> => filled' = filled \cap Survivors
BY DEF Note

\* A payload that is not usable writes no age.
LEMMA UnusableInv ==
  ASSUME Inv, NEW t \in Transmitters, FeedUnusable(t)
  PROVE  Inv'
PROOF
  <1>1. Store(t, State(t)) /\ Note(t, <<>>) /\ silence' = silence /\ shown' = shown
    BY DEF FeedUnusable
  <1>2. filled' = filled \cap Survivors BY <1>1, NoteFilled
  <1>3. /\ State(t) = [frame |-> State(t).frame, first |-> State(t).first,
                       last |-> State(t).last, published |-> State(t).published]
        /\ State(t).last \in 0..TTL + 1 /\ State(t).published \in 0..Interval
        /\ t \in Survivors => State(t).last = LastAge(t)
        /\ shown[t] < Interval =>
             State(t).published <= shown[t] /\ State(t).last <= shown[t]
    BY StateParts
  <1>4. silence \in [Transmitters -> 0..Long] /\ shown \in [Transmitters -> 0..Interval]
    BY DEF Inv, TimesOK
  <1> DEFINE s == State(t)
  <1> HIDE DEF s
  <1> QED BY <1>1, <1>2, <1>3, <1>4, StoreInv DEF s

\* A usable one starts the ages of last_seen and of the silence.
LEMMA MergedInv ==
  ASSUME Inv, NEW t \in Transmitters, NEW p, FeedMerged(t, p)
  PROVE  Inv'
PROOF
  <1> DEFINE s == Merged(t, p)
  <1>1. /\ Store(t, s) /\ Note(t, p) /\ silence' = [silence EXCEPT ![t] = 0] /\ shown' = shown
    BY DEF FeedMerged
  <1>2. /\ s = [frame |-> s.frame, first |-> s.first, last |-> s.last,
                published |-> s.published]
        /\ s.last = 0 /\ s.published = State(t).published
    BY MergedParts
  <1> HIDE DEF s
  <1>3. /\ State(t).published \in 0..Interval
        /\ shown[t] < Interval => State(t).published <= shown[t]
    BY StateParts
  <1>4. silence \in [Transmitters -> 0..Long] /\ shown \in [Transmitters -> 0..Interval]
    BY DEF Inv, TimesOK
  <1>5. /\ silence' \in [Transmitters -> 0..Long] /\ silence'[t] = 0
        /\ \A x \in Transmitters : x # t => silence'[x] = silence[x] /\ shown'[x] = shown[x]
    BY <1>1, <1>4, Times
  <1>6. s.last \in 0..TTL + 1 BY <1>2, Times
  <1>7. 0 <= shown[t] BY <1>4
  <1>8. filled' \subseteq Survivors \cup {t} /\ \A x \in filled' : x # t => x \in filled
    BY <1>1, NoteFilled
  <1> QED BY <1>1, <1>2, <1>3, <1>4, <1>5, <1>6, <1>7, <1>8, StoreInv

\* A snapshot starts the ages of last_publish and of what was shown.
LEMMA DueInv ==
  ASSUME Inv, NEW t \in Transmitters, NEW p, FeedDue(t, p)
  PROVE  Inv'
PROOF
  <1> DEFINE s == [Merged(t, p) EXCEPT !.published = 0]
  <1>1. /\ Store(t, s) /\ Note(t, p) /\ silence' = [silence EXCEPT ![t] = 0]
        /\ shown' = [shown EXCEPT ![t] = 0]
    BY DEF FeedDue
  <1>2. /\ s = [frame |-> s.frame, first |-> s.first, last |-> s.last,
                published |-> s.published]
        /\ s.last = 0 /\ s.published = 0
    BY MergedParts
  <1> HIDE DEF s
  <1>3. silence \in [Transmitters -> 0..Long] /\ shown \in [Transmitters -> 0..Interval]
    BY DEF Inv, TimesOK
  <1>4. /\ silence' \in [Transmitters -> 0..Long] /\ silence'[t] = 0
        /\ shown' \in [Transmitters -> 0..Interval] /\ shown'[t] = 0
        /\ \A x \in Transmitters : x # t => silence'[x] = silence[x] /\ shown'[x] = shown[x]
    BY <1>1, <1>3, Times
  <1>5. s.last \in 0..TTL + 1 /\ s.published \in 0..Interval BY <1>2, Times
  <1>6. filled' \subseteq Survivors \cup {t} /\ \A x \in filled' : x # t => x \in filled
    BY <1>1, NoteFilled
  <1> QED BY <1>1, <1>2, <1>4, <1>5, <1>6, StoreInv

\* Every step keeps the invariant.
LEMMA StepInv == Inv /\ [Next]_vars => Inv'
PROOF
  <1> SUFFICES ASSUME Inv, [Next]_vars PROVE Inv' OBVIOUS
  <1>1. CASE Tick BY <1>1, TickInv
  <1>2. ASSUME NEW t \in Transmitters, Feed(t) PROVE Inv'
    <2>1. CASE FeedUnusable(t) BY <2>1, UnusableInv
    <2>2. ASSUME NEW p, FeedMerged(t, p) PROVE Inv' BY <2>2, MergedInv
    <2>3. ASSUME NEW p, FeedDue(t, p) PROVE Inv' BY <2>3, DueInv
    <2> QED BY <1>2, <2>1, <2>2, <2>3, Zenon DEF Feed
  <1>3. CASE UNCHANGED vars
    BY <1>3 DEF vars, history, Inv, TimesOK, ShownInv, SilenceInv, LastAge, PublishAge
  <1> QED BY <1>1, <1>2, <1>3, Zenon DEF Next

\* The invariant of the ages.
LEMMA TimesAlways == Spec => []Inv
BY InitInv, StepInv, PTL DEF Spec

\* A step that returns a snapshot is a feed that is due.
LEMMA SnapshotStep ==
  ASSUME Inv, Next, NEW t \in Transmitters, out'.key = t
  PROVE  shown[t] >= Interval
PROOF
  <1>1. NoSnapshot.key \notin Transmitters BY AssemblerAssumption DEF NoSnapshot
  <1>2. out' # NoSnapshot BY <1>1
  <1>3. PICK x \in Transmitters : \E p \in Payloads(x) : FeedDue(x, p)
    BY <1>2, Zenon DEF Next, Tick, Feed, FeedUnusable, FeedMerged
  <1> PICK p \in Payloads(x) : FeedDue(x, p) BY <1>3
  <1>4. x = t BY DEF FeedDue
  <1>5. Merged(t, p).published >= Interval BY <1>4 DEF FeedDue, Due
  <1>6. State(t).published >= Interval BY <1>5, MergedParts
  <1>7. State(t).published \in Int /\ shown[t] \in Int BY StateParts DEF Inv, TimesOK
  <1>8. CASE shown[t] < Interval
    <2>1. State(t).published <= shown[t] BY <1>8, StateParts
    <2> QED BY <1>6, <1>7, <1>8, <2>1, Times
  <1> QED BY <1>7, <1>8, Times

\* SnapshotsApart: snapshots of a transmitter are publish_interval apart, also
\* when it was forgotten in between (feed, _expire).
THEOREM IntervalKept == Spec => SnapshotsApart
PROOF
  <1>1. Inv /\ [Next]_vars
          => [\A t \in Transmitters : out'.key = t => shown[t] >= Interval]_vars
    BY SnapshotStep
  <1> QED BY <1>1, TimesAlways, PTL DEF Spec, SnapshotsApart

\* What is known by a message survives no silence of the TTL and an expiry more.
LEMMA LongSilence ==
  ASSUME Inv, NEW t \in Transmitters, silence[t] >= Long
  PROVE  t \notin Survivors \cap filled
PROOF
  <1> SUFFICES ASSUME t \in Survivors, t \in filled PROVE FALSE
    OBVIOUS
  <1>1. /\ LastAge(t) = silence[t] \/ (LastAge(t) = TTL + 1 /\ silence[t] > TTL)
        /\ expired < ExpireEvery => silence[t] <= TTL + expired
    BY DEF Inv, SilenceInv
  <1>2. expired < ExpireEvery \/ LastAge(t) <= TTL BY DEF Survivors, Kept, LastAge
  <1>3. silence[t] \in Int /\ expired \in Int BY DEF Inv, TimesOK
  <1> QED BY <1>1, <1>2, <1>3, Times

\* SilenceForgets: nothing heard before such a silence is merged with what comes
\* after it (feed, _expire), whoever is heard in between.
THEOREM SilentAreForgotten == Spec => SilenceForgets
PROOF
  <1>1. Inv /\ [Next]_vars
          => [\A t \in Transmitters :
                silence[t] >= Long /\ silence'[t] = 0 => t \notin Survivors \cap filled]_vars
    BY LongSilence
  <1> QED BY <1>1, TimesAlways, PTL DEF Spec, SilenceForgets

-----------------------------------------------------------------------------
(* The frame after a payload. *)

\* A set of numbers that is not empty has a least one.
LEMMA Least ==
  ASSUME NEW T, T \subseteq Nat, T # {}
  PROVE  \E n \in T : \A m \in T : n <= m
PROOF
  <1> DEFINE R == OpToRel(<, Nat)
  <1>1. IsWellFoundedOn(R, Nat)
    BY NatLessThanWellFounded
  <1>2. \A n, m \in Nat : <<m, n>> \in R <=> m < n
    BY DEF OpToRel
  <1> HIDE DEF R
  <1>3. \E n \in T : \A m \in T : ~(<<m, n>> \in R)
    BY <1>1, WFMin
  <1>4. PICK n \in T : \A m \in T : ~(<<m, n>> \in R)
    BY <1>3
  <1>5. \A m \in T : m \in Nat /\ n \in Nat
    OBVIOUS
  <1>6. \A m \in T : ~(m < n)
    BY <1>2, <1>4, <1>5
  <1>7. \A m \in T : n <= m
    BY <1>5, <1>6
  <1> QED BY <1>7

\* Induction, for a set.
LEMMA Induction ==
  ASSUME NEW A, 0 \in A, \A n \in A : n \in Nat => n + 1 \in A
  PROVE  \A n \in Nat : n \in A
PROOF
  <1> SUFFICES ASSUME Nat \ A # {} PROVE FALSE
    OBVIOUS
  <1>1. PICK n \in Nat \ A : \A m \in Nat \ A : n <= m
    BY Least
  <1>2. n # 0 /\ n \in Nat
    BY <1>1
  <1>3. n - 1 \in Nat /\ ~(n <= n - 1)
    BY <1>2
  <1>4. n - 1 \in A
    BY <1>1, <1>3
  <1>5. (n - 1) + 1 = n
    BY <1>2
  <1> QED BY <1>1, <1>3, <1>4, <1>5

\* What a payload makes of a frame is the last of a row of frames, of which each is what
\* a message makes of the one before.
LEMMA AppliedRow ==
  ASSUME NEW f, NEW p, Len(p) \in Nat
  PROVE  \E g : /\ g[0] = f /\ \A i \in 1..Len(p) : g[i] = Apply(g[i - 1], p[i])
                /\ Applied(f, p) = g[Len(p)]
PROOF
  <1> DEFINE Row(n, g) == g = [i \in 0..n |-> IF i = 0 THEN f ELSE Apply(g[i - 1], p[i])]
             A == {n \in Nat : \E g : Row(n, g)}
  <1>1. 0 \in A
    <2>1. Row(0, [i \in 0..0 |-> f])
      OBVIOUS
    <2> QED BY <2>1
  <1>2. ASSUME NEW n \in A PROVE n + 1 \in A
    <2>1. PICK g : Row(n, g)
      OBVIOUS
    <2> DEFINE h == [i \in 0..(n + 1) |-> IF i = n + 1 THEN Apply(g[n], p[n + 1]) ELSE g[i]]
    <2>2. ASSUME NEW i \in 0..(n + 1)
          PROVE  h[i] = IF i = 0 THEN f ELSE Apply(h[i - 1], p[i])
      <3>1. CASE i = n + 1
        <4>1. h[i] = Apply(g[n], p[n + 1]) /\ h[n] = g[n] /\ i # 0 /\ i - 1 = n
          BY <3>1
        <4> HIDE DEF h
        <4> QED BY <3>1, <4>1
      <3>2. CASE i = 0
        BY <2>1, <3>2
      <3>3. CASE i # 0 /\ i # n + 1
        <4>1. i \in 0..n /\ i - 1 \in 0..n
          BY <3>3
        <4>2. h[i] = g[i] /\ h[i - 1] = g[i - 1]
          BY <3>3, <4>1
        <4>3. g[i] = Apply(g[i - 1], p[i])
          BY <2>1, <3>3, <4>1
        <4> QED BY <3>3, <4>2, <4>3
      <3> QED BY <3>1, <3>2, <3>3
    <2>3. Row(n + 1, h)
      <3>1. h = [i \in 0..(n + 1) |-> h[i]]
        OBVIOUS
      <3> HIDE DEF h
      <3> QED BY <2>2, <3>1
    <2>4. n + 1 \in Nat
      OBVIOUS
    <2> HIDE DEF Row, h
    <2> QED BY <2>3, <2>4
  <1>3. Len(p) \in A
    <2> HIDE DEF A
    <2> QED BY <1>1, <1>2, Induction
  <1>4. PICK g : Row(Len(p), g)
    BY <1>3
  <1> DEFINE after == CHOOSE h : Row(Len(p), h)
  <1>5. Row(Len(p), after)
    BY <1>4
  <1>6. Applied(f, p) = after[Len(p)]
    BY DEF Applied
  <1>7. ASSUME NEW h, Row(Len(p), h)
        PROVE  h[0] = f /\ \A i \in 1..Len(p) : h[i] = Apply(h[i - 1], p[i])
    <2>1. \A i \in 0..Len(p) : h[i] = IF i = 0 THEN f ELSE Apply(h[i - 1], p[i])
      BY <1>7
    <2>2. \A i \in 1..Len(p) : i \in 0..Len(p) /\ i # 0
      OBVIOUS
    <2> HIDE DEF Row
    <2> QED BY <2>1, <2>2
  <1> HIDE DEF Row, after
  <1>8. after[0] = f /\ \A i \in 1..Len(p) : after[i] = Apply(after[i - 1], p[i])
    BY <1>5, <1>7
  <1> QED BY <1>6, <1>8

\* A message leaves one of the two, the frame or itself.
LEMMA ApplyOne ==
  ASSUME NEW f, NEW m
  PROVE  Apply(f, m) \in {f, m}
BY DEF Apply

\* What messages make of one another stays in a set that they are all in.
LEMMA AppliedType ==
  ASSUME NEW S, NEW f \in S, NEW p \in Seq(S)
  PROVE  Applied(f, p) \in S
PROOF
  <1>1. Len(p) \in Nat /\ \A i \in 1..Len(p) : p[i] \in S
    OBVIOUS
  <1>2. PICK g : /\ g[0] = f /\ \A i \in 1..Len(p) : g[i] = Apply(g[i - 1], p[i])
                 /\ Applied(f, p) = g[Len(p)]
    BY <1>1, AppliedRow
  <1> DEFINE A == {n \in Nat : n <= Len(p) => g[n] \in S}
  <1>3. 0 \in A
    BY <1>2
  <1>4. ASSUME NEW n \in A, n \in Nat PROVE n + 1 \in A
    <2>1. CASE n + 1 <= Len(p)
      <3>1. n + 1 \in 1..Len(p) /\ (n + 1) - 1 = n /\ n <= Len(p)
        BY <1>1, <1>4, <2>1
      <3>2. g[n + 1] = Apply(g[n], p[n + 1]) /\ g[n] \in S /\ p[n + 1] \in S
        BY <1>1, <1>2, <3>1
      <3>3. g[n + 1] \in S
        BY <3>2, ApplyOne
      <3> QED BY <1>4, <3>3
    <2>2. CASE ~(n + 1 <= Len(p))
      BY <1>4, <2>2
    <2> QED BY <2>1, <2>2
  <1>5. Len(p) \in A
    <2> HIDE DEF A
    <2> QED BY <1>1, <1>3, <1>4, Induction
  <1> QED BY <1>1, <1>2, <1>5

\* IDs that are told apart, and the frame that holds the most specific of them.
Clear(H)   == \A a, b \in H : a.id = b.id <=> a.rank = b.rank
Best(f, H) == IF f = Message THEN H = {} ELSE f \in H /\ \A m \in H : m.rank <= f.rank

\* The IDs of messages that name one, and their ranks, which are numbers.
LEMMA IdTypes ==
  /\ \A m \in BasicIDs : m.id \in IDs /\ m.id # None /\ m.rank \in 0..Serial /\ m.rank \in Int
  /\ \A m \in BasicIDs : m # Message
  /\ Message.id = None
PROOF
  <1>1. None \notin IDs /\ Ranks \subseteq 0..4
    BY AssemblerAssumption DEF Serial
  <1>2. ASSUME NEW m \in BasicIDs
        PROVE  m.id \in IDs /\ m.id # None /\ m.rank \in 0..4 /\ m.rank \in Int
    <2>1. m.id \in IDs /\ m.rank \in Ranks
      BY DEF BasicIDs
    <2>2. m.id # None
      BY <1>1, <2>1
    <2>3. m.rank \in 0..4
      BY <1>1, <2>1, Zenon
    <2>4. m.rank \in Int
      BY <2>3
    <2> QED BY <2>1, <2>2, <2>3, <2>4
  <1>3. Message.id = None
    BY DEF Message
  <1>4. \A m \in BasicIDs : m # Message
    BY <1>2, <1>3, Zenon
  <1> QED BY <1>2, <1>3, <1>4 DEF Serial

\* A message that names an ID leaves the best of the IDs heard.
LEMMA ApplyBest ==
  ASSUME NEW H, H \subseteq BasicIDs, NEW f, NEW m \in BasicIDs, Best(f, H), Clear(H \cup {m})
  PROVE  Best(Apply(f, m), H \cup {m})
PROOF
  <1>1. m # Message /\ m.rank \in Int
    BY IdTypes
  <1>2. CASE f = Message
    <2>1. H = {} /\ Apply(f, m) = m
      BY <1>1, <1>2, IdTypes DEF Best, Apply, Keeps
    <2> QED BY <1>1, <2>1 DEF Best
  <1>3. CASE f # Message
    <2>1. f \in H /\ \A x \in H : x.rank <= f.rank
      BY <1>3 DEF Best
    <2>2. f.id # None /\ f.rank \in Int /\ \A x \in H : x.rank \in Int
      BY <2>1, IdTypes
    <2>3. f.id = m.id <=> f.rank = m.rank
      BY <2>1 DEF Clear
    <2>4. CASE Keeps(f, m)
      <3>1. Apply(f, m) = f /\ m.rank < f.rank
        BY <2>4 DEF Apply, Keeps
      <3> QED BY <1>1, <1>3, <2>1, <2>2, <3>1 DEF Best
    <2>5. CASE ~Keeps(f, m)
      <3>1. Apply(f, m) = m
        BY <1>1, <2>5 DEF Apply
      <3>2. m.id = f.id \/ ~(m.rank < f.rank)
        BY <2>2, <2>5 DEF Keeps
      <3>3. f.rank <= m.rank
        BY <1>1, <2>2, <2>3, <3>2
      <3>4. \A x \in H \cup {m} : x.rank <= m.rank
        BY <1>1, <2>1, <2>2, <3>3
      <3> QED BY <1>1, <3>1, <3>4 DEF Best
    <2> QED BY <2>4, <2>5
  <1> QED BY <1>2, <1>3

\* So do the messages of a payload.
LEMMA AppliedBest ==
  ASSUME NEW H, H \subseteq BasicIDs, NEW f, NEW p \in Seq(BasicIDs \cup {Message}),
         Best(f, H), Clear(H \cup Named(p))
  PROVE  Best(Applied(f, p), H \cup Named(p))
PROOF
  <1>1. Len(p) \in Nat /\ DOMAIN p = 1..Len(p)
        /\ \A i \in 1..Len(p) : p[i] \in BasicIDs \cup {Message}
    OBVIOUS
  <1>2. PICK g : /\ g[0] = f /\ \A i \in 1..Len(p) : g[i] = Apply(g[i - 1], p[i])
                 /\ Applied(f, p) = g[Len(p)]
    BY <1>1, AppliedRow
  <1> DEFINE Upto(n) == H \cup {m \in BasicIDs : \E i \in 1..n : p[i] = m}
             A == {n \in Nat : n <= Len(p) => Best(g[n], Upto(n))}
  <1>3. 0 \in A
    <2>1. Upto(0) = H
      OBVIOUS
    <2> HIDE DEF Upto
    <2> QED BY <1>2, <2>1
  <1>4. ASSUME NEW n \in A, n \in Nat PROVE n + 1 \in A
    <2>1. CASE n + 1 <= Len(p)
      <3>1. n + 1 \in 1..Len(p) /\ (n + 1) - 1 = n /\ n <= Len(p)
        BY <1>1, <1>4, <2>1
      <3>2. g[n + 1] = Apply(g[n], p[n + 1]) /\ Best(g[n], Upto(n))
        <4> HIDE DEF Upto
        <4> QED BY <1>2, <3>1
      <3>3. \A i \in 1..(n + 1) : i \in 1..n \/ i = n + 1
        BY <1>4
      <3>4. \A i \in 1..n : i \in 1..(n + 1)
        BY <1>4
      <3>5. n + 1 \in 1..(n + 1)
        BY <1>4
      <3>6. Upto(n + 1) \subseteq H \cup Named(p)
        <4>1. \A i \in 1..(n + 1) : i \in DOMAIN p
          BY <1>1, <1>4, <2>1
        <4> QED BY <4>1 DEF Named
      <3>7. Clear(Upto(n + 1)) /\ Upto(n) \subseteq BasicIDs
        <4>1. Clear(Upto(n + 1))
          <5> HIDE DEF Upto
          <5> QED BY <3>6 DEF Clear
        <4> QED BY <4>1
      <3>8. CASE p[n + 1] = Message
        <4>1. Upto(n + 1) = Upto(n)
          BY <3>3, <3>4, <3>8, IdTypes
        <4>2. g[n + 1] = g[n]
          BY <3>2, <3>8 DEF Apply
        <4> HIDE DEF Upto
        <4> QED BY <1>4, <3>2, <4>1, <4>2
      <3>9. CASE p[n + 1] # Message
        <4>1. p[n + 1] \in BasicIDs
          BY <1>1, <3>1, <3>9
        <4>2. Upto(n + 1) = Upto(n) \cup {p[n + 1]}
          BY <3>3, <3>4, <3>5, <4>1
        <4> HIDE DEF Upto
        <4>3. Best(g[n + 1], Upto(n + 1))
          BY <3>2, <3>7, <4>1, <4>2, ApplyBest
        <4> QED BY <1>4, <4>3
      <3> QED BY <3>8, <3>9
    <2>2. CASE ~(n + 1 <= Len(p))
      <3> HIDE DEF Upto
      <3> QED BY <1>4, <2>2
    <2> QED BY <2>1, <2>2
  <1>5. Len(p) \in A
    <2> HIDE DEF A
    <2> QED BY <1>1, <1>3, <1>4, Induction
  <1>6. Upto(Len(p)) = H \cup Named(p)
    BY <1>1 DEF Named
  <1> HIDE DEF Upto
  <1>7. Best(g[Len(p)], Upto(Len(p)))
    <2>1. Len(p) <= Len(p)
      BY <1>1
    <2> QED BY <1>5, <2>1
  <1> HIDE DEF A
  <1> QED BY <1>2, <1>6, <1>7, Zenon

-----------------------------------------------------------------------------
(* Which IDs are published. *)

\* What holds of a transmitter in state s, of which the IDs in H were heard, those in G
\* within the grace period, and the IDs in P published: its frame has the best ID, and
\* what was published is a serial number, as long as the grace period lasts and, if one
\* was heard in it, ever after.
TrackOK(s, H, G, P) ==
  /\ G \subseteq H /\ H \subseteq BasicIDs /\ P \subseteq IDs
  /\ s.first \in 0..Grace
  /\ Clear(H) => Best(s.frame, H)
  /\ Clear(H) /\ (s.first < Grace \/ \E m \in G : m.rank = Serial)
       => \A i \in P : \E m \in H : m.id = i /\ m.rank = Serial

\* Of what is not known nothing is left.
TrackInv ==
  \A t \in Transmitters :
    IF t \in DOMAIN states
      THEN /\ TrackOK(states[t], heard[t], inGrace[t], published[t])
           /\ states[t].frame \in Sends[t] \cup {Message}
      ELSE heard[t] = {} /\ inGrace[t] = {} /\ published[t] = {}

\* The histories and the last snapshot.
HistoryOK ==
  /\ heard \in [Transmitters -> SUBSET BasicIDs]
  /\ inGrace \in [Transmitters -> SUBSET BasicIDs]
  /\ published \in [Transmitters -> SUBSET IDs]
  /\ out \in [key: Transmitters, id: IDs, rank: 0..Serial] \cup {NoSnapshot}

IdInv == TrackInv /\ HistoryOK /\ BestIdPublished

\* A transmitter of which nothing is known yet.
LEMMA NewTrackOK ==
  /\ TrackOK(NewState, {}, {}, {})
  /\ NewState.frame = Message
BY Times DEF TrackOK, NewState, Best

\* Heard more, distinct before if it is distinct now.
LEMMA ClearBefore ==
  ASSUME NEW H, NEW K, H \subseteq K, Clear(K)
  PROVE  Clear(H)
BY DEF Clear

\* A usable payload leaves what holds of its transmitter; what it publishes is the best
\* ID heard, and a serial number during the grace period.
LEMMA TrackFed ==
  ASSUME NEW s, NEW H, NEW G, NEW P, TrackOK(s, H, G, P),
         NEW p \in Seq(BasicIDs \cup {Message}),
         NEW r, r.frame = Applied(s.frame, p), r.first = s.first,
         NEW Q, Q \in {P, P \cup {r.frame.id}},
         Q # P => r.frame \in BasicIDs /\ ~Waits(r)
  PROVE  TrackOK(r, H \cup Named(p), G \cup (IF s.first < Grace THEN Named(p) ELSE {}), Q)
PROOF
  <1> DEFINE K == H \cup Named(p)
             E == G \cup (IF s.first < Grace THEN Named(p) ELSE {})
  <1>1. Named(p) \subseteq BasicIDs
    BY DEF Named
  <1>2. E \subseteq K /\ K \subseteq BasicIDs /\ r.first \in 0..Grace
    BY <1>1 DEF TrackOK
  <1>3. Q \subseteq IDs
    <2>1. P \subseteq IDs
      BY DEF TrackOK
    <2>2. Q # P => r.frame.id \in IDs
      BY IdTypes
    <2> QED BY <2>1, <2>2
  <1>4. ASSUME Clear(K) PROVE Best(r.frame, K)
    <2>1. Clear(H)
      BY <1>4, ClearBefore
    <2>2. Best(s.frame, H) /\ H \subseteq BasicIDs
      BY <2>1 DEF TrackOK
    <2> QED BY <1>4, <2>2, AppliedBest
  <1>5. ASSUME Clear(K), r.first < Grace \/ \E m \in E : m.rank = Serial, NEW i \in Q
        PROVE  \E m \in K : m.id = i /\ m.rank = Serial
    <2>1. Clear(H)
      BY <1>5, ClearBefore
    <2>2. s.first < Grace \/ \E m \in G : m.rank = Serial
      BY <1>5
    <2>3. CASE i \in P
      <3>1. \E m \in H : m.id = i /\ m.rank = Serial
        BY <2>1, <2>2, <2>3 DEF TrackOK
      <3> QED BY <3>1
    <2>4. CASE i \notin P
      <3>1. i = r.frame.id /\ r.frame \in BasicIDs /\ ~Waits(r)
        BY <1>5, <2>4
      <3>2. r.frame # Message /\ r.frame.rank \in 0..Serial
        BY <3>1, IdTypes
      <3>3. r.frame \in K /\ \A m \in K : m.rank <= r.frame.rank
        BY <1>4, <1>5, <3>2 DEF Best
      <3>4. CASE s.first < Grace
        BY <3>1, <3>3, <3>4 DEF Waits
      <3>5. CASE \E m \in G : m.rank = Serial
        <4>1. \E m \in K : m.rank = Serial
          BY <3>5 DEF TrackOK
        <4>2. Serial <= r.frame.rank
          BY <3>3, <4>1
        <4>3. r.frame.rank = Serial
          BY <3>2, <4>2 DEF Serial
        <4> QED BY <3>1, <3>3, <4>3
      <3> QED BY <2>2, <3>4, <3>5
    <2> QED BY <2>3, <2>4
  <1> HIDE DEF K, E
  <1>6. TrackOK(r, K, E, Q)
    BY <1>2, <1>3, <1>4, <1>5 DEF TrackOK
  <1> QED BY <1>6 DEF K, E

\* Time passing leaves what holds of a transmitter.
LEMMA TrackOlder ==
  ASSUME NEW s, NEW H, NEW G, NEW P, TrackOK(s, H, G, P),
         NEW r, r.frame = s.frame, r.first = Older(s.first, Grace)
  PROVE  TrackOK(r, H, G, P)
PROOF
  <1>1. s.first \in 0..Grace /\ Grace \in Nat
    BY Times DEF TrackOK
  <1>2. r.first \in 0..Grace /\ (r.first < Grace => s.first < Grace)
    BY <1>1 DEF Older
  <1> QED BY <1>2 DEF TrackOK

\* There are no tracks at the start.
LEMMA TrackInit == Init => IdInv
PROOF
  <1> SUFFICES ASSUME Init PROVE IdInv OBVIOUS
  <1>1. DOMAIN states = {} /\ out = NoSnapshot
    BY DEF Init
  <1>2. \A t \in Transmitters : heard[t] = {} /\ inGrace[t] = {} /\ published[t] = {}
    BY DEF Init
  <1>3. HistoryOK
    BY <1>1 DEF Init, HistoryOK
  <1>4. BestIdPublished
    BY <1>1, AssemblerAssumption DEF BestIdPublished, NoSnapshot
  <1> QED BY <1>1, <1>2, <1>3, <1>4 DEF IdInv, TrackInv

\* A tick makes the tracks and what they were fed older.
LEMMA TrackTick ==
  ASSUME Inv, IdInv, Tick
  PROVE  IdInv'
PROOF
  <1>1. /\ DOMAIN states' = DOMAIN states /\ out' = NoSnapshot
        /\ heard' = heard /\ inGrace' = inGrace /\ published' = published
    BY DEF Tick
  <1>2. ASSUME NEW t \in DOMAIN states
        PROVE  states'[t].frame = states[t].frame /\ states'[t].first = Older(states[t].first, Grace)
    <2>1. states'[t] = [states[t] EXCEPT !.first = Older(@, Grace), !.last = Older(@, TTL + 1),
                                         !.published = Older(@, Interval)]
      BY DEF Tick
    <2>2. states[t] = [frame |-> states[t].frame, first |-> states[t].first,
                       last |-> LastAge(t), published |-> PublishAge(t)]
      BY DEF Inv, TimesOK
    <2> QED BY <2>1, <2>2
  <1>3. TrackInv'
    <2> SUFFICES ASSUME NEW t \in Transmitters
                 PROVE  IF t \in DOMAIN states'
                          THEN /\ TrackOK(states'[t], heard[t], inGrace[t], published[t])
                               /\ states'[t].frame \in Sends[t] \cup {Message}
                          ELSE heard[t] = {} /\ inGrace[t] = {} /\ published[t] = {}
      BY <1>1 DEF TrackInv
    <2>1. CASE t \in DOMAIN states
      <3>1. TrackOK(states[t], heard[t], inGrace[t], published[t])
            /\ states[t].frame \in Sends[t] \cup {Message}
        BY <2>1 DEF IdInv, TrackInv
      <3>2. TrackOK(states'[t], heard[t], inGrace[t], published[t])
        BY <1>2, <2>1, <3>1, TrackOlder
      <3> QED BY <1>1, <1>2, <2>1, <3>1, <3>2
    <2>2. CASE t \notin DOMAIN states
      BY <1>1, <2>2 DEF IdInv, TrackInv
    <2> QED BY <2>1, <2>2
  <1>4. HistoryOK'
    BY <1>1 DEF IdInv, HistoryOK
  <1>5. BestIdPublished'
    BY <1>1, AssemblerAssumption DEF BestIdPublished, NoSnapshot
  <1> QED BY <1>3, <1>4, <1>5 DEF IdInv

\* What is remembered of t when a feed of t begins.
Past(h, t) == IF t \in Survivors THEN h[t] ELSE {}

\* The state that feed() works on fits what is remembered.
LEMMA TrackState ==
  ASSUME Inv, IdInv, NEW t \in Transmitters
  PROVE  /\ TrackOK(State(t), Past(heard, t), Past(inGrace, t), Past(published, t))
         /\ State(t).frame \in Sends[t] \cup {Message}
PROOF
  <1>1. CASE t \in Survivors
    <2>1. t \in DOMAIN states /\ State(t) = states[t]
      BY <1>1 DEF Survivors, State
    <2> QED BY <1>1, <2>1 DEF IdInv, TrackInv, Past
  <1>2. CASE t \notin Survivors
    BY <1>2, NewTrackOK DEF State, Past
  <1> QED BY <1>1, <1>2

\* A feed of t that stores r for it and notes payload p: if these fit one another, it
\* leaves the invariant.
LEMMA TrackStored ==
  ASSUME Inv, IdInv, NEW t \in Transmitters, NEW r, Store(t, r), NEW p, Note(t, p),
         out' \in [key: Transmitters, id: IDs, rank: 0..Serial] \cup {NoSnapshot},
         out'.key \in {t, None},
         r.frame \in Sends[t] \cup {Message},
         TrackOK(r, Past(heard, t) \cup Named(p),
                 Past(inGrace, t) \cup (IF State(t).first < Grace THEN Named(p) ELSE {}),
                 Past(published, t) \cup (IF out'.key = t THEN {out'.id} ELSE {})),
         out'.key = t => r.frame # Message /\ out'.rank = r.frame.rank
  PROVE  IdInv'
PROOF
  <1> DEFINE H == Past(heard, t) \cup Named(p)
             G == Past(inGrace, t) \cup (IF State(t).first < Grace THEN Named(p) ELSE {})
             P == Past(published, t) \cup (IF out'.key = t THEN {out'.id} ELSE {})
  <1>1. /\ DOMAIN states' = Survivors \cup {t} /\ states'[t] = r
        /\ \A x \in Survivors : x # t => states'[x] = states[x]
    BY DEF Store
  <1>2. /\ heard' = [[x \in Transmitters |-> Past(heard, x)] EXCEPT ![t] = @ \cup Named(p)]
        /\ inGrace' = [[x \in Transmitters |-> Past(inGrace, x)] EXCEPT
                         ![t] = @ \cup (IF State(t).first < Grace THEN Named(p) ELSE {})]
        /\ published' = [[x \in Transmitters |-> Past(published, x)] EXCEPT
                           ![t] = @ \cup (IF out'.key = t THEN {out'.id} ELSE {})]
    BY Zenon DEF Note, Past
  <1>3. /\ heard'[t] = H /\ inGrace'[t] = G /\ published'[t] = P
        /\ DOMAIN heard' = Transmitters /\ DOMAIN inGrace' = Transmitters
        /\ DOMAIN published' = Transmitters
    BY <1>2
  <1>4. ASSUME NEW x \in Transmitters, x # t
        PROVE  /\ heard'[x] = Past(heard, x) /\ inGrace'[x] = Past(inGrace, x)
               /\ published'[x] = Past(published, x)
    BY <1>2, <1>4
  <1>5. Survivors \subseteq DOMAIN states
    BY DEF Survivors
  <1>6. TrackOK(r, H, G, P)
    OBVIOUS
  <1> HIDE DEF H, G, P
  <1>7. TrackInv'
    <2> SUFFICES ASSUME NEW x \in Transmitters
                 PROVE  IF x \in DOMAIN states'
                          THEN /\ TrackOK(states'[x], heard'[x], inGrace'[x], published'[x])
                               /\ states'[x].frame \in Sends[x] \cup {Message}
                          ELSE heard'[x] = {} /\ inGrace'[x] = {} /\ published'[x] = {}
      BY DEF TrackInv
    <2>1. CASE x = t
      BY <1>1, <1>3, <1>6, <2>1
    <2>2. CASE x # t /\ x \in Survivors
      <3>1. /\ states'[x] = states[x] /\ x \in DOMAIN states /\ x \in DOMAIN states'
            /\ heard'[x] = heard[x] /\ inGrace'[x] = inGrace[x] /\ published'[x] = published[x]
        BY <1>1, <1>4, <1>5, <2>2 DEF Past
      <3> QED BY <3>1 DEF IdInv, TrackInv
    <2>3. CASE x # t /\ x \notin Survivors
      BY <1>1, <1>4, <2>3 DEF Past
    <2> QED BY <2>1, <2>2, <2>3
  <1>8. HistoryOK'
    <2>1. H \subseteq BasicIDs /\ G \subseteq BasicIDs /\ P \subseteq IDs
      BY <1>6 DEF TrackOK
    <2>2. \A x \in Transmitters : /\ Past(heard, x) \subseteq BasicIDs
                                  /\ Past(inGrace, x) \subseteq BasicIDs
                                  /\ Past(published, x) \subseteq IDs
      BY DEF IdInv, HistoryOK, Past
    <2>3. \A x \in Transmitters : /\ heard'[x] \subseteq BasicIDs
                                  /\ inGrace'[x] \subseteq BasicIDs
                                  /\ published'[x] \subseteq IDs
      BY <1>3, <1>4, <2>1, <2>2
    <2>4. /\ heard' = [x \in Transmitters |-> heard'[x]]
          /\ inGrace' = [x \in Transmitters |-> inGrace'[x]]
          /\ published' = [x \in Transmitters |-> published'[x]]
      BY <1>2
    <2> QED BY <2>3, <2>4 DEF HistoryOK
  <1>9. BestIdPublished'
    <2> SUFFICES ASSUME NEW x \in Transmitters, out'.key = x,
                        \A a, b \in heard'[x] : a.id = b.id <=> a.rank = b.rank,
                        NEW m \in heard'[x]
                 PROVE  m.rank <= out'.rank
      BY DEF BestIdPublished, Unambiguous
    <2>1. x = t
      BY AssemblerAssumption
    <2>2. Clear(H)
      BY <1>3, <2>1 DEF Clear
    <2>3. Best(r.frame, H)
      BY <1>6, <2>2 DEF TrackOK
    <2> QED BY <1>3, <2>1, <2>3 DEF Best
  <1> QED BY <1>7, <1>8, <1>9 DEF IdInv

\* A payload is a sequence of what its transmitter sends.
LEMMA PayloadTypes ==
  ASSUME NEW t \in Transmitters, NEW p \in Payloads(t)
  PROVE  /\ p \in Seq(Sends[t] \cup {Message}) /\ p \in Seq(BasicIDs \cup {Message})
         /\ Sends[t] \subseteq BasicIDs
PROOF
  <1>1. Sends[t] \subseteq BasicIDs /\ MaxPack \in Nat
    BY AssemblerAssumption
  <1>2. PICK n \in 0..MaxPack : p \in [1..n -> Sends[t] \cup {Message}]
    BY <1>1 DEF Payloads, BoundedSeq, SeqOf
  <1>3. n \in Nat
    BY <1>1, <1>2
  <1>4. p \in Seq(Sends[t] \cup {Message})
    BY <1>2, <1>3
  <1>5. p \in [1..n -> BasicIDs \cup {Message}]
    BY <1>1, <1>2
  <1>6. p \in Seq(BasicIDs \cup {Message})
    BY <1>3, <1>5
  <1> QED BY <1>1, <1>4, <1>6

\* The merged state's frame.
LEMMA MergedFrame ==
  ASSUME Inv, NEW t \in Transmitters, NEW p
  PROVE  Merged(t, p).frame = Applied(State(t).frame, p)
PROOF
  <1> DEFINE f == Applied(State(t).frame, p)
  <1>1. Merged(t, p) = [State(t) EXCEPT !.frame = f, !.last = 0] BY Zenon DEF Merged
  <1> HIDE DEF f
  <1>2. Merged(t, p).frame = f BY <1>1, StateParts
  <1> QED BY <1>2 DEF f

\* A payload that is not usable brings no ID.
LEMMA TrackUnusable ==
  ASSUME Inv, IdInv, NEW t \in Transmitters, FeedUnusable(t)
  PROVE  IdInv'
PROOF
  <1>1. Store(t, State(t)) /\ Note(t, <<>>) /\ out' = NoSnapshot
    BY DEF FeedUnusable
  <1>2. out'.key = None /\ None \notin Transmitters
    BY <1>1, AssemblerAssumption DEF NoSnapshot
  <1>3. Named(<<>>) = {}
    BY DEF Named
  <1>4. TrackOK(State(t), Past(heard, t), Past(inGrace, t), Past(published, t))
        /\ State(t).frame \in Sends[t] \cup {Message}
    BY TrackState
  <1> DEFINE s == State(t)
             early == IF State(t).first < Grace THEN Named(<<>>) ELSE {}
             told == IF out'.key = t THEN {out'.id} ELSE {}
  <1>5. early = {} /\ told = {}
    BY <1>2, <1>3
  <1> HIDE DEF s, early, told
  <1>6. TrackOK(s, Past(heard, t) \cup Named(<<>>), Past(inGrace, t) \cup early,
                Past(published, t) \cup told)
    <2>1. /\ Past(heard, t) \cup Named(<<>>) = Past(heard, t)
          /\ Past(inGrace, t) \cup early = Past(inGrace, t)
          /\ Past(published, t) \cup told = Past(published, t)
      BY <1>3, <1>5
    <2> QED BY <1>4, <2>1 DEF s
  <1> QED BY <1>1, <1>2, <1>4, <1>6, TrackStored, Zenon DEF s, early, told

\* A usable one that is not due.
LEMMA TrackMerged ==
  ASSUME Inv, IdInv, NEW t \in Transmitters, NEW p \in Payloads(t), FeedMerged(t, p)
  PROVE  IdInv'
PROOF
  <1>1. Store(t, Merged(t, p)) /\ Note(t, p) /\ out' = NoSnapshot
    BY DEF FeedMerged
  <1>2. out'.key = None /\ None \notin Transmitters
    BY <1>1, AssemblerAssumption DEF NoSnapshot
  <1>3. TrackOK(State(t), Past(heard, t), Past(inGrace, t), Past(published, t))
        /\ State(t).frame \in Sends[t] \cup {Message}
    BY TrackState
  <1>4. Merged(t, p).frame = Applied(State(t).frame, p) /\ Merged(t, p).first = State(t).first
    BY MergedFrame, MergedParts
  <1>5. Merged(t, p).frame \in Sends[t] \cup {Message}
    BY <1>3, <1>4, PayloadTypes, AppliedType
  <1> DEFINE r == Merged(t, p)
             early == IF State(t).first < Grace THEN Named(p) ELSE {}
             told == IF out'.key = t THEN {out'.id} ELSE {}
  <1>6. Past(published, t) \cup told = Past(published, t)
    BY <1>2
  <1>7. TrackOK(r, Past(heard, t) \cup Named(p), Past(inGrace, t) \cup early, Past(published, t))
    BY <1>3, <1>4, PayloadTypes, TrackFed
  <1> HIDE DEF r, early, told
  <1>8. TrackOK(r, Past(heard, t) \cup Named(p), Past(inGrace, t) \cup early,
                Past(published, t) \cup told)
    BY <1>6, <1>7
  <1> QED BY <1>1, <1>2, <1>5, <1>8, TrackStored, Zenon DEF r, early, told

\* One that is due publishes the ID of the frame.
LEMMA TrackDue ==
  ASSUME Inv, IdInv, NEW t \in Transmitters, NEW p \in Payloads(t), FeedDue(t, p)
  PROVE  IdInv'
PROOF
  <1> DEFINE r == [Merged(t, p) EXCEPT !.published = 0]
             early == IF State(t).first < Grace THEN Named(p) ELSE {}
             told == IF out'.key = t THEN {out'.id} ELSE {}
  <1>1. /\ Store(t, r) /\ Note(t, p) /\ Due(Merged(t, p))
        /\ out' = [key |-> t, id |-> Merged(t, p).frame.id, rank |-> Merged(t, p).frame.rank]
    BY DEF FeedDue
  <1>2. TrackOK(State(t), Past(heard, t), Past(inGrace, t), Past(published, t))
        /\ State(t).frame \in Sends[t] \cup {Message}
    BY TrackState
  <1>3. Merged(t, p).frame = Applied(State(t).frame, p) /\ Merged(t, p).first = State(t).first
    BY MergedFrame, MergedParts
  <1>4. r.frame = Merged(t, p).frame /\ r.first = Merged(t, p).first
    BY MergedParts
  <1>5. r.frame \in Sends[t] \cup {Message}
    BY <1>2, <1>3, <1>4, PayloadTypes, AppliedType
  <1>6. r.frame.id # None /\ ~Waits(r)
    <2>1. Merged(t, p).frame.id # None /\ ~Waits(Merged(t, p))
      BY <1>1 DEF Due
    <2> HIDE DEF r
    <2> QED BY <1>4, <2>1 DEF Waits
  <1>7. r.frame # Message /\ r.frame \in BasicIDs
    <2>1. r.frame # Message
      <3> HIDE DEF r
      <3> QED BY <1>6, IdTypes
    <2> QED BY <1>5, <2>1, PayloadTypes
  <1>8. out'.key = t /\ out'.id = r.frame.id /\ out'.rank = r.frame.rank
        /\ told = {r.frame.id}
    BY <1>1, <1>4
  <1>9. out' \in [key: Transmitters, id: IDs, rank: 0..Serial]
    <2>1. r.frame.id \in IDs /\ r.frame.rank \in 0..Serial
      BY <1>7, IdTypes
    <2>2. out' = [key |-> t, id |-> r.frame.id, rank |-> r.frame.rank]
      BY <1>1, <1>4
    <2> HIDE DEF r
    <2> QED BY <2>1, <2>2
  <1> HIDE DEF r, told
  <1>10. TrackOK(r, Past(heard, t) \cup Named(p), Past(inGrace, t) \cup early,
                 Past(published, t) \cup told)
    <2>1. r.frame = Applied(State(t).frame, p) /\ r.first = State(t).first
      BY <1>3, <1>4
    <2> QED BY <1>2, <1>6, <1>7, <1>8, <2>1, PayloadTypes, TrackFed
  <1> HIDE DEF early
  <1> QED BY <1>1, <1>5, <1>7, <1>8, <1>9, <1>10, TrackStored, Zenon DEF early, told

\* Each step keeps the invariant of the tracks.
LEMMA TrackStep == Inv /\ IdInv /\ [Next]_vars => IdInv'
PROOF
  <1> SUFFICES ASSUME Inv, IdInv, [Next]_vars PROVE IdInv' OBVIOUS
  <1>1. CASE Tick BY <1>1, TrackTick
  <1>2. ASSUME NEW t \in Transmitters, Feed(t) PROVE IdInv'
    <2>1. CASE FeedUnusable(t) BY <2>1, TrackUnusable
    <2>2. ASSUME NEW p \in Payloads(t), FeedMerged(t, p) PROVE IdInv' BY <2>2, TrackMerged
    <2>3. ASSUME NEW p \in Payloads(t), FeedDue(t, p) PROVE IdInv' BY <2>3, TrackDue
    <2> QED BY <1>2, <2>1, <2>2, <2>3, Zenon DEF Feed
  <1>3. CASE UNCHANGED vars
    BY <1>3 DEF vars, history, IdInv, TrackInv, HistoryOK, BestIdPublished, Unambiguous
  <1> QED BY <1>1, <1>2, <1>3, Zenon DEF Next

\* So it holds always.
LEMMA TracksAlways == Spec => []IdInv
BY TimesAlways, TrackInit, TrackStep, PTL DEF Spec

\* Every variable has its type: frames hold what their transmitter sends, and ages stay
\* within the times they are compared with.
THEOREM AssemblerTypeCorrect == Spec => []TypeOK
PROOF
  <1>1. Inv /\ IdInv => TypeOK
    <2> SUFFICES ASSUME Inv, IdInv PROVE TypeOK OBVIOUS
    <2>1. ASSUME NEW t \in DOMAIN states
          PROVE  states[t] \in [frame: Sends[t] \cup {Message}, first: 0..Grace,
                                last: 0..TTL + 1, published: 0..Interval]
      <3>1. t \in Transmitters
            /\ states[t] = [frame |-> states[t].frame, first |-> states[t].first,
                            last |-> LastAge(t), published |-> PublishAge(t)]
            /\ LastAge(t) \in 0..TTL + 1 /\ PublishAge(t) \in 0..Interval
        BY DEF Inv, TimesOK
      <3>2. states[t].frame \in Sends[t] \cup {Message} /\ states[t].first \in 0..Grace
        BY <3>1 DEF IdInv, TrackInv, TrackOK
      <3> QED BY <3>1, <3>2
    <2> QED BY <2>1 DEF TypeOK, Inv, TimesOK, IdInv, HistoryOK
  <1> QED BY <1>1, TimesAlways, TracksAlways, PTL

\* BestIdPublished: a snapshot carries the most specific ID heard of its transmitter,
\* however the messages were spread over payloads (_parse_basic_id, feed), for any
\* IDs, payloads and times.
THEOREM BestIsPublished == Spec => []BestIdPublished
BY TracksAlways, PTL DEF IdInv

\* OneTrack: a drone whose serial number is heard within the grace period is published
\* under that number only (__init__, feed).
THEOREM OneTrackEach == Spec => []OneTrack
PROOF
  <1>1. IdInv => OneTrack
    <2> SUFFICES ASSUME IdInv, NEW t \in Transmitters, Unambiguous(t),
                        \E m \in inGrace[t] : m.rank = Serial,
                        NEW i \in published[t], NEW j \in published[t]
                 PROVE  i = j
      BY DEF OneTrack
    <2>1. t \in DOMAIN states
      BY DEF IdInv, TrackInv
    <2>2. TrackOK(states[t], heard[t], inGrace[t], published[t])
      BY <2>1 DEF IdInv, TrackInv
    <2>3. Clear(heard[t])
      BY DEF Clear, Unambiguous
    <2>4. \A k \in published[t] : \E m \in heard[t] : m.id = k /\ m.rank = Serial
      BY <2>2, <2>3 DEF TrackOK
    <2>5. PICK a \in heard[t], b \in heard[t] :
            a.id = i /\ b.id = j /\ a.rank = Serial /\ b.rank = Serial
      BY <2>4
    <2> QED BY <2>3, <2>5 DEF Clear
  <1> QED BY <1>1, TracksAlways, PTL
=============================================================================
