--------------------------- MODULE LiveFeedProofs ---------------------------
(* Theorems of LiveFeed, for every number of alerts, length of a snapshot    *)
(* and of the store's list, and size of the socket's buffer.                 *)
EXTENDS LiveFeed, FiniteSetTheorems, SequenceTheorems, TLAPS

-----------------------------------------------------------------------------
(* The snapshot's query.  An alert is placed by how many are newer.          *)

\* The rank of a member lies below the number of members, and newer members have
\* lower ranks.
LEMMA RankOrders ==
  ASSUME NEW N \in Nat, NEW S \in SUBSET (1..N)
  PROVE  /\ IsFiniteSet(S) /\ Cardinality(S) \in Nat
         /\ \A a \in S : Rank(S, a) \in 0..Cardinality(S) - 1
         /\ \A a, b \in S : a < b => Rank(S, b) < Rank(S, a)
PROOF
  <1>1. IsFiniteSet(S) /\ Cardinality(S) \in Nat
    <2>1. IsFiniteSet(1..N)
      <3>1. 1 \in Int /\ N \in Int OBVIOUS
      <3> QED BY <3>1, FS_Interval
    <2>2. IsFiniteSet(S) BY <2>1, FS_Subset
    <2> QED BY <2>2, FS_CardinalityType
  <1>2. ASSUME NEW T \in SUBSET S, NEW U \in SUBSET T, U # T
        PROVE  /\ Cardinality(U) \in Nat /\ Cardinality(T) \in Nat
               /\ Cardinality(U) < Cardinality(T)
    <2>1. IsFiniteSet(T) BY <1>1, FS_Subset
    <2>2. IsFiniteSet(U) /\ Cardinality(U) <= Cardinality(T) /\ Cardinality(U) # Cardinality(T)
      BY <2>1, <1>2, FS_Subset
    <2> QED BY <2>1, <2>2, FS_CardinalityType
  <1>3. ASSUME NEW a \in S PROVE Rank(S, a) \in 0..Cardinality(S) - 1
    <2>1. {o \in S : o > a} \in SUBSET S /\ {o \in S : o > a} # S /\ S \in SUBSET S
      <3>1. a \notin {o \in S : o > a} OBVIOUS
      <3> QED BY <3>1
    <2>2. Cardinality({o \in S : o > a}) \in Nat /\ Cardinality({o \in S : o > a}) < Cardinality(S)
      BY <1>2, <2>1
    <2> QED BY <2>2, <1>1 DEF Rank
  <1>4. ASSUME NEW a \in S, NEW b \in S, a < b PROVE Rank(S, b) < Rank(S, a)
    <2>1. /\ {o \in S : o > a} \in SUBSET S
          /\ {o \in S : o > b} \in SUBSET {o \in S : o > a}
          /\ b \in {o \in S : o > a} /\ b \notin {o \in S : o > b}
      <3>1. a \in Int /\ b \in Int /\ \A o \in S : o \in Int OBVIOUS
      <3>2. \A o \in S : o > b => o > a BY <1>4, <3>1
      <3>3. b > a /\ ~(b > b) BY <1>4, <3>1
      <3> QED BY <3>2, <3>3
    <2>2. {o \in S : o > b} # {o \in S : o > a} BY <2>1
    <2>3. Cardinality({o \in S : o > b}) < Cardinality({o \in S : o > a}) BY <1>2, <2>1, <2>2
    <2> QED BY <2>3 DEF Rank
  <1> QED BY <1>1, <1>3, <1>4

\* Every rank below the number of members is some member's, so the CHOOSE of Recent
\* finds one.
LEMMA RankTaken ==
  ASSUME NEW N \in Nat, NEW S \in SUBSET (1..N), NEW r \in 0..Cardinality(S) - 1
  PROVE  \E a \in S : Rank(S, a) = r
PROOF
  <1> DEFINE C == Cardinality(S)
             f == [a \in S |-> Rank(S, a)]
  <1>1. /\ IsFiniteSet(S) /\ C \in Nat
        /\ \A a \in S : Rank(S, a) \in 0..C - 1
        /\ \A a, b \in S : a < b => Rank(S, b) < Rank(S, a)
    BY RankOrders
  <1>2. f \in [S -> 0..C - 1] BY <1>1
  <1>3. ASSUME NEW a \in S, NEW b \in S, f[a] = f[b] PROVE a = b
    <2>1. Rank(S, a) = Rank(S, b) /\ Rank(S, a) \in Nat BY <1>1, <1>3
    <2>2. ~(a < b) /\ ~(b < a) BY <1>1, <2>1
    <2> QED BY <2>2
  <1>4. f \in Injection(S, 0..C - 1) BY <1>2, <1>3 DEF Injection, IsInjective
  <1>5. IsFiniteSet(0..C - 1) /\ Cardinality(0..C - 1) = C
    <2>1. 0 \in Int /\ C - 1 \in Int BY <1>1
    <2>2. /\ IsFiniteSet(0..C - 1)
          /\ Cardinality(0..C - 1) = IF 0 > C - 1 THEN 0 ELSE (C - 1) - 0 + 1
      BY <2>1, FS_Interval
    <2> QED BY <1>1, <2>2
  <1>6. f \in Surjection(S, 0..C - 1) BY <1>4, <1>5, FS_Injection
  <1>7. \E a \in S : f[a] = r BY <1>6 DEF Surjection
  <1> QED BY <1>7

Falling(s) == \A i, j \in DOMAIN s : i < j => s[i] > s[j]

\* Open alerts are written ones.
LEMMA OpenWritten ==
  ASSUME written \in Nat
  PROVE  Open \in SUBSET (1..written) /\ IsFiniteSet(Open) /\ Cardinality(Open) \in Nat
PROOF BY RankOrders DEF Open

\* What the query returns: open alerts, newest first, up to its limit; an open alert
\* it leaves out is older than the last of a full list.
LEMMA RecentIsNewest ==
  ASSUME written \in 0..MaxAlerts
  PROVE  /\ Recent \in Seq(Ids) /\ Len(Recent) <= SnapshotLimit
         /\ \A i \in 1..Len(Recent) : Recent[i] \in Open
         /\ Falling(Recent)
         /\ \A id \in Open : ~Misses(StateMsg(Recent), id)
PROOF
  <1> USE FeedAssumption
  <1> DEFINE C == Cardinality(Open)
             L == AtMost(C, SnapshotLimit)
             e(i) == CHOOSE id \in Open : Rank(Open, id) = i - 1
  <1>1. /\ written \in Nat /\ Open \in SUBSET (1..written) /\ Open \in SUBSET Ids /\ C \in Nat
        /\ \A a \in Open : a \in Int
    BY OpenWritten DEF Ids
  <1>2. L \in Nat /\ L <= C /\ L <= SnapshotLimit /\ (L < C => L = SnapshotLimit)
    BY <1>1 DEF AtMost
  <1>3. /\ \A a \in Open : Rank(Open, a) \in 0..C - 1
        /\ \A a, b \in Open : a < b => Rank(Open, b) < Rank(Open, a)
    BY <1>1, RankOrders
  <1>4. \A i \in 1..L : e(i) \in Open /\ Rank(Open, e(i)) = i - 1
    <2> SUFFICES ASSUME NEW i \in 1..L PROVE e(i) \in Open /\ Rank(Open, e(i)) = i - 1 OBVIOUS
    <2>1. i - 1 \in 0..C - 1 BY <1>1, <1>2
    <2>2. \E a \in Open : Rank(Open, a) = i - 1 BY <1>1, <2>1, RankTaken
    <2> QED BY <2>2
  <1>5. Recent = [i \in 1..L |-> e(i)] BY DEF Recent
  <1> HIDE DEF e, L, C
  <1>6. Recent \in [1..L -> Ids] BY <1>1, <1>4, <1>5
  <1>7. Recent \in Seq(Ids) /\ Len(Recent) = L /\ DOMAIN Recent = 1..L
    <2>1. Recent \in Seq(Ids)
      <3>1. \A i \in 1..L : e(i) \in Ids BY <1>1, <1>4
      <3>2. [i \in 1..L |-> e(i)] \in Seq(Ids) BY <1>2, <3>1, IsASeq
      <3> QED BY <1>5, <3>2
    <2>2. DOMAIN Recent = 1..L BY <1>5
    <2>3. Len(Recent) \in Nat /\ DOMAIN Recent = 1..Len(Recent) BY <2>1, LenProperties
    <2>4. Len(Recent) = L BY <1>2, <2>2, <2>3
    <2> QED BY <2>1, <2>2, <2>4
  <1>8. \A i \in 1..L : Recent[i] \in Open /\ Rank(Open, Recent[i]) = i - 1
    BY <1>4, <1>5
  <1>9. Falling(Recent)
    <2> SUFFICES ASSUME NEW i \in 1..L, NEW j \in 1..L, i < j PROVE Recent[i] > Recent[j]
      BY <1>7 DEF Falling
    <2>1. /\ Recent[i] \in Open /\ Rank(Open, Recent[i]) = i - 1
          /\ Recent[j] \in Open /\ Rank(Open, Recent[j]) = j - 1
      BY <1>8
    <2>2. i \in Int /\ j \in Int BY <1>2
    <2>3. Recent[i] # Recent[j] /\ ~(Recent[i] < Recent[j]) BY <1>3, <2>1, <2>2
    <2>4. Recent[i] \in Int /\ Recent[j] \in Int BY <1>1, <2>1
    <2> HIDE DEF Recent
    <2> QED BY <2>3, <2>4
  <1>10. ASSUME NEW id \in Open, Misses(StateMsg(Recent), id) PROVE FALSE
    <2>1. /\ \A i \in 1..L : Recent[i] # id
          /\ L = SnapshotLimit => id > Recent[L]
      BY <1>7, <1>10 DEF Misses, StateMsg, ToSet, Last
    <2> DEFINE r == Rank(Open, id)
    <2>2. r \in 0..C - 1 BY <1>3
    <2>3. ASSUME r + 1 <= L PROVE FALSE
      <3>1. r + 1 \in 1..L BY <2>2, <2>3, <1>2
      <3>2. Recent[r + 1] \in Open /\ Rank(Open, Recent[r + 1]) = (r + 1) - 1 BY <1>8, <3>1
      <3>3. Rank(Open, Recent[r + 1]) = r BY <3>2, <2>2
      <3>4. ~(Recent[r + 1] < id) /\ ~(id < Recent[r + 1]) BY <1>3, <3>2, <3>3, <2>2
      <3>5. Recent[r + 1] \in Int /\ id \in Int BY <1>1, <3>2
      <3>6. Recent[r + 1] = id
        <4> HIDE DEF r
        <4> DEFINE x == Recent[r + 1]
        <4>1. x \in Int /\ id \in Int /\ ~(x < id) /\ ~(id < x) BY <3>4, <3>5
        <4> HIDE DEF x
        <4>2. x = id BY <4>1
        <4> QED BY <4>2 DEF x
      <3> QED BY <2>1, <3>1, <3>6
    <2>4. L < C /\ L = SnapshotLimit /\ L \in 1..L
      BY <2>2, <2>3, <1>1, <1>2 DEF C
    <2>5. Recent[L] \in Open /\ Rank(Open, Recent[L]) = L - 1 /\ id > Recent[L] BY <1>8, <2>1, <2>4
    <2>6. r < L - 1 BY <1>1, <1>3, <2>5
    <2> QED BY <2>2, <2>3, <2>6, <1>2
  <1> QED BY <1>1, <1>2, <1>7, <1>8, <1>9, <1>10

-----------------------------------------------------------------------------
(* The inductive invariant. *)

Msg == [type: {"alert", "live_state"}, ids: Seq(Ids)]
Shown == [id: Ids, acknowledged: BOOLEAN]

\* Whatever is under way or shown has been written.
KnownIds ==
  /\ \A i \in 1..Len(snapshot) : snapshot[i] <= written
  /\ \A i \in 1..Len(wire) : \A n \in 1..Len(wire[i].ids) : wire[i].ids[n] <= written
  /\ \A i \in 1..Len(store) : store[i].id <= written
  /\ \A r \in acking : r <= written

\* A broadcast carries one alert, a snapshot lists its alerts newest first.
Shapes ==
  /\ Falling(snapshot)
  /\ \A i \in 1..Len(wire) :
       /\ wire[i].type = "alert" => Len(wire[i].ids) = 1
       /\ wire[i].type = "live_state" => Falling(wire[i].ids) /\ Len(wire[i].ids) <= SnapshotLimit

\* A store s that may still be told of a: it shows nothing newer, and a at most once.
Fresh(s, a) ==
  /\ \A i \in 1..Len(s) : s[i].id <= a
  /\ \A i, j \in 1..Len(s) : i < j /\ s[i].id = s[j].id => s[i].id < a

\* Broadcasts are made one at a time, in the order of the rows: whatever is ahead of
\* one is not newer.
InOrder ==
  /\ posting # 0 => Fresh(store, posting)
  /\ \A k \in 1..Len(wire) : wire[k].type = "alert" =>
       /\ Fresh(store, wire[k].ids[1])
       /\ posting # 0 => wire[k].ids[1] < posting
       /\ \A i \in 1..k - 1 : \A n \in 1..Len(wire[i].ids) :
            /\ wire[i].ids[n] <= wire[k].ids[1]
            /\ wire[i].type = "alert" => wire[i].ids[n] < wire[k].ids[1]

\* A snapshot that misses an open alert was read before the alert was written; so
\* everything up to the snapshot before it, and the store, is older than the alert.
Behind ==
  \A id \in Open : \A i, j \in 1..Len(Coming) :
    i < j /\ Coming[i].type = "live_state" /\ Misses(Coming[j], id) =>
      /\ \A n \in 1..Len(store) : store[n].id < id
      /\ \A k \in 1..i : \A n \in 1..Len(Coming[k].ids) : Coming[k].ids[n] < id

FeedInv == TypeOK /\ KnownIds /\ Shapes /\ InOrder /\ NewestFirst /\ Behind

-----------------------------------------------------------------------------
(* What the operations do to the sequences. *)

\* The type invariant, and the numbers it speaks of.
LEMMA Types ==
  ASSUME TypeOK
  PROVE  /\ written \in Nat /\ written <= MaxAlerts /\ MaxAlerts \in Nat
         /\ snapshot \in Seq(Ids) /\ Len(snapshot) \in Nat /\ wire \in Seq(Msg) /\ Len(wire) \in Nat
         /\ store \in Seq(Shown) /\ Len(store) \in Nat
         /\ \A i \in 1..Len(snapshot) : snapshot[i] \in Ids
         /\ \A i \in 1..Len(wire) : /\ wire[i].type \in {"alert", "live_state"}
                                    /\ wire[i].ids \in Seq(Ids) /\ Len(wire[i].ids) \in Nat
                                    /\ DOMAIN wire[i].ids = 1..Len(wire[i].ids)
                                    /\ \A n \in 1..Len(wire[i].ids) : wire[i].ids[n] \in Ids
         /\ \A i \in 1..Len(store) : store[i] \in Shown /\ store[i].id \in Ids
         /\ \A a \in Ids : a \in Nat
PROOF
  <1>1. /\ snapshot \in Seq(Ids) /\ wire \in Seq(Msg) /\ store \in Seq(Shown)
        /\ written \in 0..MaxAlerts
    BY DEF TypeOK, Msg, Shown
  <1>2. /\ Len(snapshot) \in Nat /\ Len(wire) \in Nat /\ Len(store) \in Nat
    BY <1>1, LenProperties
  <1>3. /\ \A i \in 1..Len(snapshot) : snapshot[i] \in Ids
        /\ \A i \in 1..Len(wire) : wire[i] \in Msg
        /\ \A i \in 1..Len(store) : store[i] \in Shown
    BY <1>1, ElementOfSeq
  <1>4. ASSUME NEW i \in 1..Len(wire)
        PROVE  /\ wire[i].type \in {"alert", "live_state"}
               /\ wire[i].ids \in Seq(Ids) /\ Len(wire[i].ids) \in Nat
               /\ DOMAIN wire[i].ids = 1..Len(wire[i].ids)
               /\ \A n \in 1..Len(wire[i].ids) : wire[i].ids[n] \in Ids
    <2>1. wire[i].type \in {"alert", "live_state"} /\ wire[i].ids \in Seq(Ids)
      BY <1>3 DEF Msg
    <2> QED BY <2>1, LenProperties, ElementOfSeq
  <1>5. \A i \in 1..Len(store) : store[i] \in Shown /\ store[i].id \in Ids
    BY <1>3 DEF Shown
  <1>6. \A a \in Ids : a \in Nat BY FeedAssumption DEF Ids
  <1> QED BY <1>1, <1>2, <1>3, <1>4, <1>5, <1>6, FeedAssumption

\* A message read from the socket is the first; the others move up.
LEMMA WireMovesUp ==
  ASSUME TypeOK, wire # <<>>, wire' = Tail(wire)
  PROVE  /\ wire' \in Seq(Msg) /\ Len(wire') = Len(wire) - 1
         /\ \A i \in 1..Len(wire) - 1 : wire'[i] = wire[i + 1]
         /\ Head(wire) = wire[1] /\ Len(wire) >= 1
PROOF
  <1>1. wire \in Seq(Msg) /\ Len(wire) \in Nat BY Types
  <1>2. Len(wire) # 0 BY <1>1, EmptySeq
  <1> QED BY <1>1, <1>2, HeadTailProperties

\* A message sent is the last.
LEMMA WireGrows ==
  ASSUME TypeOK, NEW m \in Msg, wire' = Append(wire, m)
  PROVE  /\ wire' \in Seq(Msg) /\ Len(wire') = Len(wire) + 1
         /\ \A i \in 1..Len(wire) : wire'[i] = wire[i]
         /\ wire'[Len(wire) + 1] = m
PROOF BY Types, AppendProperties

\* _addAlert puts the alert first and drops what is beyond the end.
LEMMA AlertGoesFirst ==
  ASSUME TypeOK, NEW id \in Ids
  PROVE  /\ AddAlert(id) \in Seq(Shown) /\ Len(AddAlert(id)) \in Nat
         /\ Len(AddAlert(id)) <= MaxShown /\ Len(AddAlert(id)) <= Len(store) + 1
         /\ \A i \in 1..Len(AddAlert(id)) :
              AddAlert(id)[i].id = IF i = 1 THEN id ELSE store[i - 1].id
PROOF
  <1> DEFINE s == <<Entry(id)>> \o store
             L == AtMost(Len(s), MaxShown)
  <1>1. Entry(id) \in Shown /\ Entry(id).id = id BY DEF Entry, Shown
  <1>2. /\ <<Entry(id)>> \in Seq(Shown) /\ Len(<<Entry(id)>>) = 1 /\ <<Entry(id)>>[1] = Entry(id)
        /\ store \in Seq(Shown) /\ Len(store) \in Nat
    BY <1>1, Types
  <1>3. /\ s \in Seq(Shown) /\ Len(s) = Len(store) + 1
        /\ \A i \in 1..Len(store) + 1 : s[i] = IF i = 1 THEN Entry(id) ELSE store[i - 1]
    <2>1. /\ s \in Seq(Shown) /\ Len(s) = 1 + Len(store)
          /\ \A i \in 1..1 + Len(store) :
               s[i] = IF i <= 1 THEN <<Entry(id)>>[i] ELSE store[i - 1]
      BY <1>2, ConcatProperties
    <2> QED BY <1>2, <2>1
  <1>4. L \in Nat /\ L <= Len(store) + 1 /\ L <= MaxShown
    BY <1>2, <1>3, FeedAssumption DEF AtMost
  <1>5. AddAlert(id) = SubSeq(s, 1, L) BY DEF AddAlert, Newest
  <1> HIDE DEF s, L
  <1>6. \A i \in 1..L : s[i] \in Shown
    <2>1. \A i \in 1..Len(s) : s[i] \in Shown BY <1>3, ElementOfSeq
    <2> QED BY <1>2, <1>3, <1>4, <2>1
  <1>7. /\ AddAlert(id) \in Seq(Shown) /\ Len(AddAlert(id)) = L
        /\ \A i \in 1..L : AddAlert(id)[i] = s[i]
    <2>1. /\ SubSeq(s, 1, L) \in Seq(Shown)
          /\ Len(SubSeq(s, 1, L)) = IF 1 <= L THEN L - 1 + 1 ELSE 0
          /\ \A i \in 1..L - 1 + 1 : SubSeq(s, 1, L)[i] = s[1 + i - 1]
      BY <1>4, <1>6, SubSeqProperties
    <2>2. L - 1 + 1 = L /\ \A i \in 1..L : 1 + i - 1 = i BY <1>4
    <2>3. Len(SubSeq(s, 1, L)) = L BY <1>4, <2>1
    <2> QED BY <1>5, <2>1, <2>2, <2>3
  <1>8. \A i \in 1..L : AddAlert(id)[i].id = IF i = 1 THEN id ELSE store[i - 1].id
    <2> SUFFICES ASSUME NEW i \in 1..L
                 PROVE  AddAlert(id)[i].id = IF i = 1 THEN id ELSE store[i - 1].id
      OBVIOUS
    <2>1. i \in 1..Len(store) + 1 BY <1>2, <1>4
    <2>2. AddAlert(id)[i] = IF i = 1 THEN Entry(id) ELSE store[i - 1] BY <1>3, <1>7, <2>1
    <2> QED BY <1>1, <2>2
  <1> QED BY <1>4, <1>7, <1>8

\* _applyLiveState shows the snapshot's alerts in the snapshot's order.
LEMMA SnapshotIsShown ==
  ASSUME NEW ids \in Seq(Ids)
  PROVE  /\ ApplyLiveState(ids) \in Seq(Shown) /\ Len(ApplyLiveState(ids)) = Len(ids)
         /\ \A i \in 1..Len(ids) : ApplyLiveState(ids)[i].id = ids[i]
PROOF
  <1> DEFINE e(i) == Entry(ids[i])
  <1>1. Len(ids) \in Nat /\ DOMAIN ids = 1..Len(ids) /\ \A i \in 1..Len(ids) : ids[i] \in Ids
    BY LenProperties, ElementOfSeq
  <1>2. \A i \in 1..Len(ids) : e(i) \in Shown /\ e(i).id = ids[i] BY <1>1 DEF Entry, Shown
  <1>3. ApplyLiveState(ids) = [i \in 1..Len(ids) |-> e(i)]
    BY <1>1 DEF ApplyLiveState, Entries
  <1> HIDE DEF e
  <1>4. [i \in 1..Len(ids) |-> e(i)] \in Seq(Shown) BY <1>1, <1>2, IsASeq
  <1>5. Len([i \in 1..Len(ids) |-> e(i)]) = Len(ids)
    <2>1. /\ Len([i \in 1..Len(ids) |-> e(i)]) \in Nat
          /\ DOMAIN [i \in 1..Len(ids) |-> e(i)] = 1..Len([i \in 1..Len(ids) |-> e(i)])
      BY <1>4, LenProperties
    <2>2. DOMAIN [i \in 1..Len(ids) |-> e(i)] = 1..Len(ids) OBVIOUS
    <2> QED BY <1>1, <2>1, <2>2
  <1> QED BY <1>2, <1>3, <1>4, <1>5

\* What the browser reads, and what it makes of it.
LEMMA ReceiveShows ==
  ASSUME TypeOK, Shapes, Receive
  PROVE  /\ Len(wire) >= 1 /\ wire' \in Seq(Msg) /\ Len(wire') = Len(wire) - 1
         /\ \A i \in 1..Len(wire) - 1 : wire'[i] = wire[i + 1]
         /\ store' \in Seq(Shown) /\ Len(store') \in Nat /\ Len(store') <= MaxShown
         /\ wire[1].type = "alert" =>
              /\ wire[1].ids[1] \in Ids /\ 1 \in 1..Len(wire[1].ids) /\ Len(store') <= Len(store) + 1
              /\ \A i \in 1..Len(store') :
                   store'[i].id = IF i = 1 THEN wire[1].ids[1] ELSE store[i - 1].id
         /\ wire[1].type = "live_state" =>
              /\ Len(store') = Len(wire[1].ids)
              /\ \A i \in 1..Len(store') : store'[i].id = wire[1].ids[i]
PROOF
  <1>1. /\ Len(wire) >= 1 /\ wire' \in Seq(Msg) /\ Len(wire') = Len(wire) - 1
        /\ \A i \in 1..Len(wire) - 1 : wire'[i] = wire[i + 1]
        /\ Head(wire) = wire[1]
    BY WireMovesUp DEF Receive
  <1>2. 1 \in 1..Len(wire) BY <1>1, Types
  <1>3. CASE wire[1].type = "alert"
    <2>1. store' = AddAlert(wire[1].ids[1]) BY <1>1, <1>3 DEF Receive
    <2>2. Len(wire[1].ids) = 1 /\ wire[1].ids[1] \in Ids BY <1>2, <1>3, Types DEF Shapes
    <2>3. 1 \in 1..Len(wire[1].ids) BY <2>2
    <2>4. wire[1].type # "live_state" BY <1>3
    <2> QED BY <1>1, <2>1, <2>2, <2>3, <2>4, AlertGoesFirst
  <1>4. CASE wire[1].type = "live_state"
    <2>1. wire[1].type # "alert" BY <1>4
    <2>2. store' = ApplyLiveState(wire[1].ids) BY <1>1, <2>1 DEF Receive
    <2>3. /\ wire[1].ids \in Seq(Ids) /\ Len(wire[1].ids) \in Nat
          /\ Len(wire[1].ids) <= SnapshotLimit
      BY <1>2, <1>4, Types DEF Shapes
    <2>4. Len(wire[1].ids) <= MaxShown BY <2>3, FeedAssumption
    <2> QED BY <1>1, <2>1, <2>2, <2>3, <2>4, SnapshotIsShown
  <1> QED BY <1>2, <1>3, <1>4, Types

\* Marking alerts as acknowledged changes neither which are shown nor their order.
LEMMA MarkingKeepsIds ==
  ASSUME TypeOK, NEW D \in SUBSET (1..Len(store)),
         store' = [i \in DOMAIN store |->
                     IF i \in D THEN [store[i] EXCEPT !.acknowledged = TRUE] ELSE store[i]]
  PROVE  /\ store' \in Seq(Shown) /\ Len(store') = Len(store)
         /\ \A i \in 1..Len(store) : store'[i].id = store[i].id
PROOF
  <1> DEFINE e(i) == IF i \in D THEN [store[i] EXCEPT !.acknowledged = TRUE] ELSE store[i]
  <1>1. store \in Seq(Shown) /\ Len(store) \in Nat /\ DOMAIN store = 1..Len(store)
    BY Types, LenProperties
  <1>2. \A i \in 1..Len(store) : e(i) \in Shown /\ e(i).id = store[i].id
    BY Types DEF Shown
  <1>3. store' = [i \in 1..Len(store) |-> e(i)] BY <1>1
  <1> HIDE DEF e
  <1>4. store' \in Seq(Shown)
    <2>1. \A i \in 1..Len(store) : e(i) \in Shown BY <1>2
    <2>2. [i \in 1..Len(store) |-> e(i)] \in Seq(Shown) BY <1>1, <2>1, IsASeq
    <2> QED BY <1>3, <2>2
  <1>5. Len(store') = Len(store)
    <2>1. Len(store') \in Nat /\ DOMAIN store' = 1..Len(store') BY <1>4, LenProperties
    <2>2. DOMAIN store' = 1..Len(store) BY <1>3
    <2> QED BY <1>1, <2>1, <2>2
  <1> QED BY <1>2, <1>3, <1>4, <1>5

\* Both acknowledgements mark alerts of the store and send one request.
LEMMA AcknowledgeMarks ==
  ASSUME TypeOK, KnownIds, AcknowledgeAll \/ \E id \in Ids : AcknowledgeAlert(id)
  PROVE  /\ UNCHANGED <<tableVars, serverVars>>
         /\ store' \in Seq(Shown) /\ Len(store') = Len(store)
         /\ \A i \in 1..Len(store) : store'[i].id = store[i].id
         /\ acking' \subseteq Ids \cup {0} /\ \A r \in acking' : r <= written
PROOF
  <1>0. DOMAIN store = 1..Len(store) /\ acking \subseteq Ids \cup {0}
    BY Types, LenProperties DEF TypeOK
  <1>1. CASE AcknowledgeAll
    <2>1. store' = [i \in DOMAIN store |-> IF i \in 1..Len(store)
                      THEN [store[i] EXCEPT !.acknowledged = TRUE] ELSE store[i]]
      BY <1>0, <1>1 DEF AcknowledgeAll, Marked
    <2>2. acking' = acking \cup {0} /\ UNCHANGED <<tableVars, serverVars>>
      BY <1>1 DEF AcknowledgeAll
    <2>3. 1..Len(store) \in SUBSET (1..Len(store)) OBVIOUS
    <2>4. \A r \in acking' : r <= written BY <2>2, Types DEF KnownIds
    <2> QED BY <1>0, <2>1, <2>2, <2>3, <2>4, MarkingKeepsIds
  <1>2. CASE \E id \in Ids : AcknowledgeAlert(id)
    <2>0. PICK id \in Ids : AcknowledgeAlert(id) BY <1>2
    <2> DEFINE D == {i \in 1..Len(store) : store[i].id = id}
    <2>1. store' = [i \in DOMAIN store |-> IF i \in D
                      THEN [store[i] EXCEPT !.acknowledged = TRUE] ELSE store[i]]
      BY <1>0, <2>0 DEF AcknowledgeAlert, Marked
    <2>2. acking' = acking \cup {id} /\ UNCHANGED <<tableVars, serverVars>>
      BY <2>0 DEF AcknowledgeAlert
    <2>3. D \in SUBSET (1..Len(store)) OBVIOUS
    <2>4. id <= written
      <3>1. PICK i \in DOMAIN store : store[i] = Entry(id) BY <2>0 DEF AcknowledgeAlert, ToSet
      <3>2. store[i].id = id BY <3>1 DEF Entry
      <3> QED BY <1>0, <3>2 DEF KnownIds
    <2>5. \A r \in acking' : r <= written BY <2>2, <2>4 DEF KnownIds
    <2> HIDE DEF D
    <2> QED BY <1>0, <2>1, <2>2, <2>3, <2>5, MarkingKeepsIds
  <1> QED BY <1>1, <1>2

-----------------------------------------------------------------------------
(* The inductive step, a part of the invariant at a time. *)

\* Types and shapes, and that nothing is under way or shown that was not written.
LEMMA TypesStep ==
  ASSUME TypeOK, KnownIds, Shapes, [Next]_vars
  PROVE  TypeOK' /\ KnownIds' /\ Shapes'
PROOF
  <1> USE DEF tableVars, serverVars, clientVars
  <1>t. /\ written \in 0..MaxAlerts /\ acked \subseteq 1..written /\ posting \in {0, written}
        /\ socket \in {"closed", "open"} /\ pusher \in {"idle", "query", "dead"}
        /\ snapshot \in Seq(Ids) /\ Len(snapshot) <= SnapshotLimit
        /\ wire \in Seq(Msg) /\ Len(wire) <= MaxInFlight
        /\ store \in Seq(Shown) /\ Len(store) <= MaxShown /\ acking \subseteq Ids \cup {0}
    BY DEF TypeOK, Msg, Shown
  <1>s. /\ Falling(snapshot)
        /\ \A i \in 1..Len(wire) :
             /\ wire[i].type = "alert" => Len(wire[i].ids) = 1
             /\ wire[i].type = "live_state" => Falling(wire[i].ids) /\ Len(wire[i].ids) <= SnapshotLimit
    BY DEF Shapes
  <1>e. /\ <<>> \in Seq(Ids) /\ Len(<<>>) = 0 /\ <<>> \in Seq(Msg) /\ Falling(<<>>)
    <2>1. DOMAIN <<>> = 1..0 OBVIOUS
    <2> QED BY <2>1, EmptySeq DEF Falling
  <1>n. written \in Nat /\ MaxAlerts \in Nat BY Types
  <1>1. CASE InsertAlert
    <2>1. /\ written' = written + 1 /\ posting' = written' /\ written < MaxAlerts
          /\ UNCHANGED <<acked, socket, pusher, snapshot, wire, store, acking>>
      BY <1>1 DEF InsertAlert
    <2>2. TypeOK'
      <3>1. written' \in 0..MaxAlerts /\ acked' \subseteq 1..written' BY <1>t, <1>n, <2>1
      <3> QED BY <1>t, <2>1, <3>1 DEF TypeOK, Msg, Shown
    <2>3. KnownIds'
      <3>1. \A a \in Nat : a <= written => a <= written' BY <1>n, <2>1
      <3>2. \A r \in acking : r \in Nat BY <1>t, Types
      <3> QED BY <2>1, <3>1, <3>2, Types DEF KnownIds
    <2> QED BY <1>s, <2>1, <2>2, <2>3 DEF Shapes
  <1>2. CASE BroadcastAlert
    <2>0. UNCHANGED <<written, acked, socket, pusher, snapshot, store, acking>> /\ posting' = 0
      BY <1>2 DEF BroadcastAlert
    <2>1. CASE socket = "open"
      <3> DEFINE m == AlertMsg(posting)
      <3>1. Len(wire) < MaxInFlight /\ wire' = Append(wire, m) /\ posting = written /\ posting # 0
        BY <1>2, <1>t, <2>1 DEF BroadcastAlert
      <3>2. posting \in Ids BY <1>t, <1>n, <3>1 DEF Ids
      <3>3. m \in Msg /\ m.type = "alert" /\ m.ids = <<posting>>
        BY <3>2 DEF AlertMsg, Msg
      <3>4. Len(m.ids) = 1 /\ m.ids[1] = posting BY <3>3
      <3> HIDE DEF m
      <3>5. /\ wire' \in Seq(Msg) /\ Len(wire') = Len(wire) + 1 /\ Len(wire) \in Nat
            /\ \A i \in 1..Len(wire) : wire'[i] = wire[i]
            /\ wire'[Len(wire) + 1] = m
        BY <3>1, <3>3, WireGrows, Types
      <3>6. \A i \in 1..Len(wire') : i \in 1..Len(wire) \/ i = Len(wire) + 1 BY <3>5
      <3>7. TypeOK'
        <4>1. Len(wire') <= MaxInFlight BY <3>1, <3>5, FeedAssumption
        <4> QED BY <1>t, <2>0, <3>5, <4>1 DEF TypeOK, Msg, Shown
      <3>8. KnownIds'
        <4>1. ASSUME NEW i \in 1..Len(wire'), NEW n \in 1..Len(wire'[i].ids)
              PROVE  wire'[i].ids[n] <= written
          <5>1. CASE i \in 1..Len(wire) BY <3>5, <5>1 DEF KnownIds
          <5>2. CASE i = Len(wire) + 1
            <6>0. wire'[i] = m /\ Len(wire'[i].ids) = 1 BY <3>4, <3>5, <5>2
            <6>1. n = 1 BY <6>0
            <6> QED BY <1>n, <3>1, <3>4, <3>5, <5>2, <6>1
          <5> QED BY <3>6, <5>1, <5>2
        <4> QED BY <2>0, <4>1 DEF KnownIds
      <3>9. Shapes'
        <4>1. m.type # "live_state" BY <3>3
        <4> QED BY <1>s, <2>0, <3>3, <3>4, <3>5, <3>6, <4>1 DEF Shapes
      <3> QED BY <3>7, <3>8, <3>9
    <2>2. CASE socket # "open"
      <3>1. UNCHANGED wire BY <1>2, <2>2 DEF BroadcastAlert
      <3> QED BY <1>t, <1>s, <2>0, <3>1 DEF TypeOK, Msg, Shown, KnownIds, Shapes
    <2> QED BY <2>1, <2>2
  <1>3. CASE Query
    <2>0. UNCHANGED <<written, acked, posting, socket, wire, store, acking>>
      BY <1>3 DEF Query
    <2>1. CASE pusher' = "query" /\ snapshot' = Recent
      <3>1. /\ Recent \in Seq(Ids) /\ Len(Recent) <= SnapshotLimit
            /\ \A i \in 1..Len(Recent) : Recent[i] \in Open
            /\ Falling(Recent)
        BY <1>t, RecentIsNewest
      <3>2. \A i \in 1..Len(Recent) : Recent[i] <= written
        BY <1>n, <3>1, OpenWritten
      <3> HIDE DEF Recent
      <3> QED BY <1>t, <1>s, <2>0, <2>1, <3>1, <3>2 DEF TypeOK, Msg, Shown, KnownIds, Shapes
    <2>2. CASE pusher' = "dead" /\ UNCHANGED snapshot
      BY <1>t, <1>s, <2>0, <2>2 DEF TypeOK, Msg, Shown, KnownIds, Shapes
    <2> QED BY <1>3, <2>1, <2>2 DEF Query
  <1>4. CASE SendSnapshot
    <2> DEFINE m == StateMsg(snapshot)
    <2>0. /\ UNCHANGED <<written, acked, posting, socket, store, acking>>
          /\ pusher' = "idle" /\ snapshot' = <<>>
          /\ Len(wire) < MaxInFlight /\ wire' = Append(wire, m)
      BY <1>4 DEF SendSnapshot
    <2>1. m \in Msg /\ m.type = "live_state" /\ m.ids = snapshot
      BY <1>t DEF StateMsg, Msg
    <2> HIDE DEF m
    <2>2. /\ wire' \in Seq(Msg) /\ Len(wire') = Len(wire) + 1 /\ Len(wire) \in Nat
          /\ \A i \in 1..Len(wire) : wire'[i] = wire[i]
          /\ wire'[Len(wire) + 1] = m
      BY <2>0, <2>1, WireGrows, Types
    <2>3. \A i \in 1..Len(wire') : i \in 1..Len(wire) \/ i = Len(wire) + 1 BY <2>2
    <2>4. TypeOK'
      <3>1. Len(wire') <= MaxInFlight BY <2>0, <2>2, FeedAssumption
      <3>2. Len(snapshot') <= SnapshotLimit BY <1>e, <2>0, FeedAssumption
      <3> QED BY <1>t, <1>e, <2>0, <2>2, <3>1, <3>2 DEF TypeOK, Msg, Shown
    <2>5. KnownIds'
      <3>1. ASSUME NEW i \in 1..Len(wire'), NEW n \in 1..Len(wire'[i].ids)
            PROVE  wire'[i].ids[n] <= written
        BY <2>1, <2>2, <2>3 DEF KnownIds
      <3>2. \A i \in 1..Len(snapshot') : FALSE BY <1>e, <2>0
      <3> QED BY <2>0, <3>1, <3>2 DEF KnownIds
    <2>6. Shapes'
      <3>1. m.type # "alert" BY <2>1
      <3> QED BY <1>t, <1>s, <1>e, <2>0, <2>1, <2>2, <2>3, <3>1 DEF Shapes
    <2> QED BY <2>4, <2>5, <2>6
  <1>5. CASE Connect
    <2>1. /\ UNCHANGED <<written, acked, posting, snapshot, wire, store, acking>>
          /\ socket' = "open" /\ pusher' = "idle"
      BY <1>5 DEF Connect
    <2> QED BY <1>t, <1>s, <2>1 DEF TypeOK, Msg, Shown, KnownIds, Shapes
  <1>6. CASE Close
    <2>1. /\ UNCHANGED <<written, acked, posting, store, acking>>
          /\ socket' = "closed" /\ pusher' = "dead" /\ snapshot' = <<>> /\ wire' = <<>>
      BY <1>6 DEF Close
    <2>2. Len(<<>>) <= SnapshotLimit /\ Len(<<>>) <= MaxInFlight BY <1>e, FeedAssumption
    <2>3. \A i \in 1..Len(<<>>) : FALSE BY <1>e
    <2>4. TypeOK' BY <1>t, <1>e, <2>1, <2>2 DEF TypeOK, Msg, Shown
    <2>5. KnownIds' BY <2>1, <2>3 DEF KnownIds
    <2>6. Shapes' BY <1>e, <2>1, <2>3 DEF Shapes
    <2> QED BY <2>4, <2>5, <2>6
  <1>7. CASE Receive
    <2>0. UNCHANGED <<written, acked, posting, socket, pusher, snapshot, acking>>
      BY <1>7 DEF Receive
    <2>1. /\ Len(wire) >= 1 /\ wire' \in Seq(Msg) /\ Len(wire') = Len(wire) - 1 /\ Len(wire) \in Nat
          /\ \A i \in 1..Len(wire) - 1 : wire'[i] = wire[i + 1]
          /\ store' \in Seq(Shown) /\ Len(store') \in Nat /\ Len(store') <= MaxShown
      BY <1>7, ReceiveShows, Types
    <2>2. /\ \A i \in 1..Len(wire') : i + 1 \in 1..Len(wire) /\ wire'[i] = wire[i + 1]
          /\ 1 \in 1..Len(wire)
      BY <2>1
    <2>3. TypeOK'
      <3>1. Len(wire') <= MaxInFlight BY <1>t, <2>1, FeedAssumption
      <3> QED BY <1>t, <2>0, <2>1, <3>1 DEF TypeOK, Msg, Shown
    <2>4. ASSUME NEW i \in 1..Len(store') PROVE store'[i].id <= written
      <3>1. CASE wire[1].type = "alert"
        <4>1. /\ 1 \in 1..Len(wire[1].ids) /\ Len(store') <= Len(store) + 1 /\ Len(store) \in Nat
              /\ store'[i].id = IF i = 1 THEN wire[1].ids[1] ELSE store[i - 1].id
          BY <1>7, <3>1, ReceiveShows, Types
        <4>2. i # 1 => i - 1 \in 1..Len(store) BY <2>1, <4>1
        <4> QED BY <2>2, <4>1, <4>2 DEF KnownIds
      <3>2. CASE wire[1].type = "live_state"
        <4>1. Len(store') = Len(wire[1].ids) /\ store'[i].id = wire[1].ids[i]
          BY <1>7, <3>2, ReceiveShows
        <4> QED BY <2>2, <4>1 DEF KnownIds
      <3> QED BY <2>2, <3>1, <3>2, Types
    <2>5. KnownIds' BY <2>0, <2>2, <2>4 DEF KnownIds
    <2>6. Shapes' BY <1>s, <2>0, <2>2 DEF Shapes
    <2> QED BY <2>3, <2>5, <2>6
  <1>8. CASE AcknowledgeAll \/ \E id \in Ids : AcknowledgeAlert(id)
    <2>1. /\ UNCHANGED <<tableVars, serverVars>>
          /\ store' \in Seq(Shown) /\ Len(store') = Len(store)
          /\ \A i \in 1..Len(store) : store'[i].id = store[i].id
          /\ acking' \subseteq Ids \cup {0} /\ \A r \in acking' : r <= written
      BY <1>8, AcknowledgeMarks
    <2>2. TypeOK' BY <1>t, <2>1 DEF TypeOK, Msg, Shown
    <2>3. KnownIds' BY <2>1 DEF KnownIds
    <2> QED BY <1>s, <2>1, <2>2, <2>3 DEF Shapes
  <1>9. CASE PostAcknowledge
    <2>1. /\ UNCHANGED <<written, serverVars, store>> /\ acking' \subseteq acking
          /\ \E r \in acking : acked' \in {acked, acked \cup Acknowledges(r)}
      BY <1>9 DEF PostAcknowledge
    <2>2. acked' \subseteq 1..written
      <3>1. PICK r \in acking : acked' \in {acked, acked \cup Acknowledges(r)} BY <2>1
      <3>2. r # 0 => r \in 1..written BY <1>t, <1>n DEF KnownIds, Ids
      <3>3. Acknowledges(r) \subseteq 1..written
        BY <1>n, <3>2, OpenWritten DEF Acknowledges
      <3> QED BY <1>t, <3>1, <3>3
    <2>3. TypeOK' BY <1>t, <2>1, <2>2 DEF TypeOK, Msg, Shown
    <2>4. KnownIds' BY <2>1 DEF KnownIds
    <2> QED BY <1>s, <2>1, <2>3, <2>4 DEF Shapes
  <1>10. CASE UNCHANGED vars
    BY <1>t, <1>s, <1>10 DEF vars, TypeOK, Msg, Shown, KnownIds, Shapes
  <1> QED BY <1>1, <1>2, <1>3, <1>4, <1>5, <1>6, <1>7, <1>8, <1>9, <1>10 DEF Next

\* Order: a broadcast on its way is newer than what the store shows, except for a
\* snapshot that brought it first, and than what is ahead of it.
LEMMA OrderStep ==
  ASSUME TypeOK, KnownIds, Shapes, InOrder, NewestFirst, [Next]_vars
  PROVE  InOrder' /\ NewestFirst'
PROOF
  <1> USE DEF tableVars, serverVars, clientVars
  <1>t. /\ written \in Nat /\ Len(wire) \in Nat /\ Len(store) \in Nat /\ posting \in {0, written}
        /\ DOMAIN store = 1..Len(store)
        /\ \A i \in 1..Len(store) : store[i].id \in Nat /\ store[i].id <= written
        /\ \A i \in 1..Len(wire) : \A n \in 1..Len(wire[i].ids) :
             wire[i].ids[n] \in Nat /\ wire[i].ids[n] <= written
    BY Types, LenProperties DEF TypeOK, KnownIds
  <1>f. /\ \A i, j \in 1..Len(store) : i < j => store[i].id >= store[j].id
        /\ \A i, j, k \in 1..Len(store) : i < j /\ j < k => store[i].id > store[k].id
    BY <1>t DEF NewestFirst
  <1>a. \A k \in 1..Len(wire) : wire[k].type = "alert" => 1 \in 1..Len(wire[k].ids)
    BY DEF Shapes
  <1>p. ASSUME UNCHANGED store, posting' \in {0, posting}, UNCHANGED wire
        PROVE  InOrder' /\ NewestFirst'
    BY <1>p DEF InOrder, NewestFirst, Fresh
  <1>1. CASE InsertAlert
    <2>1. posting = 0 /\ posting' = written + 1 /\ UNCHANGED <<wire, store>>
      BY <1>1 DEF InsertAlert
    <2>2. Fresh(store, posting') BY <1>t, <2>1 DEF Fresh
    <2>3. \A k \in 1..Len(wire) : wire[k].type = "alert" => wire[k].ids[1] < posting'
      BY <1>t, <1>a, <2>1
    <2>4. InOrder'
      <3>1. Fresh(store', posting') BY <2>1, <2>2
      <3> QED BY <2>1, <2>3, <3>1 DEF InOrder, Fresh
    <2> QED BY <2>1, <2>4 DEF NewestFirst
  <1>2. CASE BroadcastAlert
    <2>0. posting' = 0 /\ posting = written /\ posting # 0 /\ UNCHANGED store
      BY <1>2, <1>t DEF BroadcastAlert
    <2>1. CASE socket = "open"
      <3> DEFINE m == AlertMsg(posting)
      <3>1. wire' = Append(wire, m) BY <1>2, <2>1 DEF BroadcastAlert
      <3>2. posting \in Ids BY <2>0, Types DEF Ids
      <3>3. m \in Msg /\ m.type = "alert" /\ m.ids = <<posting>> BY <3>2 DEF AlertMsg, Msg
      <3>4. m.ids[1] = posting BY <3>3
      <3> HIDE DEF m
      <3>5. /\ Len(wire') = Len(wire) + 1
            /\ \A i \in 1..Len(wire) : wire'[i] = wire[i]
            /\ wire'[Len(wire) + 1] = m
        BY <3>1, <3>3, WireGrows
      <3>6. ASSUME NEW k \in 1..Len(wire'), wire'[k].type = "alert"
            PROVE  /\ Fresh(store, wire'[k].ids[1])
                   /\ \A i \in 1..k - 1 : \A n \in 1..Len(wire'[i].ids) :
                        /\ wire'[i].ids[n] <= wire'[k].ids[1]
                        /\ wire'[i].type = "alert" => wire'[i].ids[n] < wire'[k].ids[1]
        <4>1. CASE k \in 1..Len(wire)
          <5>1. wire'[k] = wire[k] /\ \A i \in 1..k - 1 : i \in 1..Len(wire) /\ wire'[i] = wire[i]
            BY <1>t, <3>5, <4>1
          <5> QED BY <3>6, <4>1, <5>1 DEF InOrder
        <4>2. CASE k = Len(wire) + 1
          <5>1. wire'[k].ids[1] = posting /\ Fresh(store, posting) BY <2>0, <3>4, <3>5, <4>2 DEF InOrder
          <5>2. ASSUME NEW i \in 1..k - 1, NEW n \in 1..Len(wire'[i].ids)
                PROVE  /\ wire'[i].ids[n] <= posting
                       /\ wire'[i].type = "alert" => wire'[i].ids[n] < posting
            <6>1. i \in 1..Len(wire) /\ wire'[i] = wire[i] BY <1>t, <3>5, <4>2
            <6>2. wire[i].ids[n] <= posting BY <1>t, <2>0, <6>1
            <6>3. ASSUME wire[i].type = "alert" PROVE wire[i].ids[n] < posting
              <7>1. Len(wire[i].ids) = 1 BY <6>1, <6>3 DEF Shapes
              <7>2. n = 1 BY <6>1, <7>1
              <7> QED BY <2>0, <6>1, <6>3, <7>2 DEF InOrder
            <6> QED BY <6>1, <6>2, <6>3
          <5> QED BY <5>1, <5>2
        <4> QED BY <1>t, <3>5, <4>1, <4>2
      <3>7. InOrder' BY <2>0, <3>6 DEF InOrder, Fresh
      <3> QED BY <2>0, <3>7 DEF NewestFirst
    <2>2. CASE socket # "open"
      <3>1. UNCHANGED wire BY <1>2, <2>2 DEF BroadcastAlert
      <3> QED BY <1>p, <2>0, <3>1
    <2> QED BY <2>1, <2>2
  <1>3. CASE Query \/ Connect \/ PostAcknowledge
    <2>1. UNCHANGED <<wire, store, posting>> BY <1>3 DEF Query, Connect, PostAcknowledge
    <2> QED BY <1>p, <2>1
  <1>4. CASE SendSnapshot
    <2> DEFINE m == StateMsg(snapshot)
    <2>0. wire' = Append(wire, m) /\ UNCHANGED <<posting, store>> BY <1>4 DEF SendSnapshot
    <2>1. m \in Msg /\ m.type = "live_state" BY Types DEF StateMsg, Msg
    <2> HIDE DEF m
    <2>2. /\ Len(wire') = Len(wire) + 1
          /\ \A i \in 1..Len(wire) : wire'[i] = wire[i]
          /\ wire'[Len(wire) + 1] = m
      BY <2>0, <2>1, WireGrows
    <2>3. ASSUME NEW k \in 1..Len(wire'), wire'[k].type = "alert"
          PROVE  /\ k \in 1..Len(wire) /\ wire'[k] = wire[k]
                 /\ \A i \in 1..k - 1 : wire'[i] = wire[i]
      <3>1. m.type # "alert" BY <2>1
      <3>2. k # Len(wire) + 1 BY <2>2, <2>3, <3>1
      <3>3. k \in 1..Len(wire) BY <1>t, <2>2, <3>2
      <3> QED BY <1>t, <2>2, <3>3
    <2>4. InOrder' BY <2>0, <2>3 DEF InOrder, Fresh
    <2> QED BY <2>0, <2>4 DEF NewestFirst
  <1>5. CASE Close
    <2>1. wire' = <<>> /\ UNCHANGED <<posting, store>> BY <1>5 DEF Close
    <2>2. \A k \in 1..Len(wire') : FALSE BY <2>1
    <2> QED BY <2>1, <2>2 DEF InOrder, NewestFirst, Fresh
  <1>6. CASE Receive
    <2>0. UNCHANGED posting BY <1>6 DEF Receive
    <2>1. /\ Len(wire) >= 1 /\ Len(wire') = Len(wire) - 1
          /\ \A i \in 1..Len(wire) - 1 : wire'[i] = wire[i + 1]
          /\ store' \in Seq(Shown) /\ Len(store') \in Nat /\ DOMAIN store' = 1..Len(store')
      BY <1>6, ReceiveShows, LenProperties
    <2>2. 1 \in 1..Len(wire) BY <1>t, <2>1
    <2>3. ASSUME NEW k \in 1..Len(wire'), wire'[k].type = "alert"
          PROVE  /\ k + 1 \in 1..Len(wire) /\ 1 \in 1..(k + 1) - 1 /\ wire'[k] = wire[k + 1]
                 /\ wire[k + 1].type = "alert"
                 /\ Fresh(store, wire[k + 1].ids[1])
                 /\ wire[k + 1].ids[1] \in Nat
                 /\ posting # 0 => wire[k + 1].ids[1] < posting
                 /\ \A i \in 1..k - 1 : \A n \in 1..Len(wire'[i].ids) :
                      /\ wire'[i].ids[n] <= wire'[k].ids[1]
                      /\ wire'[i].type = "alert" => wire'[i].ids[n] < wire'[k].ids[1]
      <3>0. k \in 1..Len(wire) - 1 /\ Len(wire) \in Nat BY <1>t, <2>1
      <3>1. k + 1 \in 1..Len(wire) /\ wire'[k] = wire[k + 1] /\ 1 \in 1..(k + 1) - 1
        <4>1. k + 1 \in 1..Len(wire) /\ 1 \in 1..(k + 1) - 1 BY <3>0
        <4> QED BY <2>1, <3>0, <4>1
      <3>2. \A i \in 1..k - 1 : i + 1 \in 1..(k + 1) - 1 /\ wire'[i] = wire[i + 1]
        <4> SUFFICES ASSUME NEW i \in 1..k - 1
                     PROVE  i + 1 \in 1..(k + 1) - 1 /\ wire'[i] = wire[i + 1]
          OBVIOUS
        <4>1. i + 1 \in 1..(k + 1) - 1 /\ i \in 1..Len(wire) - 1 BY <3>0
        <4>2. wire'[i] = wire[i + 1] BY <2>1, <4>1
        <4> QED BY <4>1, <4>2
      <3> QED BY <1>t, <1>a, <2>3, <3>1, <3>2 DEF InOrder
    <2>4. CASE wire[1].type = "alert"
      <3> DEFINE a == wire[1].ids[1]
      <3>1. /\ 1 \in 1..Len(wire[1].ids) /\ Len(store') <= Len(store) + 1
            /\ \A i \in 1..Len(store') : store'[i].id = IF i = 1 THEN a ELSE store[i - 1].id
        BY <1>6, <2>4, ReceiveShows
      <3>2. a \in Nat /\ (posting # 0 => a < posting) /\ Fresh(store, a) BY <1>t, <2>2, <2>4, <3>1 DEF InOrder
      <3>3. \A i \in 1..Len(store') : i # 1 => i - 1 \in 1..Len(store) BY <1>t, <2>1, <3>1
      <3>4. \A i \in 1..Len(store') : store'[i].id \in Nat /\ store'[i].id <= a
        <4> SUFFICES ASSUME NEW i \in 1..Len(store') PROVE store'[i].id \in Nat /\ store'[i].id <= a
          OBVIOUS
        <4>1. CASE i = 1
          <5>1. store'[i].id = a BY <3>1, <4>1
          <5> QED BY <3>2, <5>1
        <4>2. CASE i # 1
          <5>1. i - 1 \in 1..Len(store) /\ store'[i].id = store[i - 1].id BY <3>1, <3>3, <4>2
          <5> QED BY <1>t, <3>2, <5>1 DEF Fresh
        <4> QED BY <4>1, <4>2
      <3>5. ASSUME NEW b \in Nat, a < b PROVE Fresh(store', b)
        BY <3>2, <3>4, <3>5 DEF Fresh
      <3>6. ASSUME NEW k \in 1..Len(wire'), wire'[k].type = "alert" PROVE a < wire'[k].ids[1]
        <4>1. k + 1 \in 1..Len(wire) /\ wire[k + 1].type = "alert" /\ 1 \in 1..(k + 1) - 1 BY <2>3, <3>6
        <4>2. wire[1].ids[1] < wire[k + 1].ids[1] BY <2>4, <3>1, <4>1 DEF InOrder
        <4> QED BY <2>3, <3>6, <4>2
      <3>7. InOrder'
        <4>1. posting' # 0 => Fresh(store', posting')
          <5>1. posting # 0 => Fresh(store', posting) BY <1>t, <3>2, <3>5
          <5> QED BY <2>0, <5>1
        <4>2. ASSUME NEW k \in 1..Len(wire'), wire'[k].type = "alert"
              PROVE  Fresh(store', wire'[k].ids[1]) /\ (posting' # 0 => wire'[k].ids[1] < posting')
          <5>1. wire'[k].ids[1] \in Nat /\ a < wire'[k].ids[1] BY <2>3, <3>6, <4>2
          <5>2. posting' # 0 => wire'[k].ids[1] < posting' BY <2>0, <2>3, <4>2
          <5> DEFINE b == wire'[k].ids[1]
          <5>3. Fresh(store', b) BY <3>2, <3>4, <5>1 DEF Fresh
          <5> QED BY <5>2, <5>3 DEF Fresh
        <4> QED BY <2>3, <4>1, <4>2 DEF InOrder
      <3>8. ASSUME NEW i \in 1..Len(store'), NEW j \in 1..Len(store'), i < j
            PROVE  store'[i].id >= store'[j].id
        <4>1. j # 1 /\ j - 1 \in 1..Len(store) /\ store'[j].id = store[j - 1].id BY <3>1, <3>3, <3>8
        <4>2. CASE i = 1
          <5>1. store'[i].id = a BY <3>1, <4>2
          <5> QED BY <3>2, <3>4, <5>1
        <4>3. CASE i # 1
          <5>1. i - 1 \in 1..Len(store) /\ store'[i].id = store[i - 1].id /\ i - 1 < j - 1
            BY <3>1, <3>3, <3>8, <4>3
          <5> QED BY <1>f, <4>1, <5>1
        <4> QED BY <4>2, <4>3
      <3>9. ASSUME NEW i \in 1..Len(store'), NEW j \in 1..Len(store'), NEW k \in 1..Len(store'), i < j, j < k
            PROVE  store'[i].id > store'[k].id
        <4>1. /\ j # 1 /\ j - 1 \in 1..Len(store) /\ store'[j].id = store[j - 1].id
              /\ k # 1 /\ k - 1 \in 1..Len(store) /\ store'[k].id = store[k - 1].id /\ j - 1 < k - 1
          BY <3>1, <3>3, <3>9
        <4>2. CASE i = 1
          <5>1. store'[i].id = a BY <3>1, <4>2
          <5>2. store[j - 1].id <= a /\ store[j - 1].id >= store[k - 1].id
            BY <1>f, <3>2, <4>1 DEF Fresh
          <5>3. store[j - 1].id = store[k - 1].id => store[j - 1].id < a BY <3>2, <4>1 DEF Fresh
          <5>4. store[j - 1].id \in Nat /\ store[k - 1].id \in Nat BY <1>t, <4>1
          <5>5. a > store[k - 1].id
            <6> DEFINE x == store[j - 1].id
                       y == store[k - 1].id
            <6>1. x \in Nat /\ y \in Nat /\ a \in Nat /\ x <= a /\ x >= y /\ (x = y => x < a)
              BY <3>2, <5>2, <5>3, <5>4
            <6> HIDE DEF x, y, a
            <6>2. a > y BY <6>1
            <6> QED BY <6>2 DEF y
          <5> QED BY <4>1, <5>1, <5>5
        <4>3. CASE i # 1
          <5>1. i - 1 \in 1..Len(store) /\ store'[i].id = store[i - 1].id /\ i - 1 < j - 1
            BY <3>1, <3>3, <3>9, <4>3
          <5> QED BY <1>f, <4>1, <5>1
        <4> QED BY <4>2, <4>3
      <3>10. NewestFirst' BY <2>1, <3>8, <3>9 DEF NewestFirst
      <3> QED BY <3>7, <3>10
    <2>5. CASE wire[1].type = "live_state"
      <3>1. /\ Len(store') = Len(wire[1].ids)
            /\ \A i \in 1..Len(store') : store'[i].id = wire[1].ids[i]
        BY <1>6, <2>5, ReceiveShows
      <3>2. /\ \A i, j \in 1..Len(store') : i < j => store'[i].id > store'[j].id
            /\ \A i \in 1..Len(store') : store'[i].id \in Nat /\ store'[i].id <= written
        <4>1. DOMAIN wire[1].ids = 1..Len(wire[1].ids) BY <2>2, Types
        <4>2. Falling(wire[1].ids) BY <2>2, <2>5 DEF Shapes
        <4> QED BY <1>t, <2>2, <3>1, <4>1, <4>2 DEF Falling
      <3>3. NewestFirst'
        <4>1. \A i, j, k \in 1..Len(store') : i < j /\ j < k => i < k BY <2>1
        <4>2. \A i, j \in 1..Len(store') : i < j => store'[i].id >= store'[j].id BY <3>2
        <4> QED BY <2>1, <3>2, <4>1, <4>2 DEF NewestFirst
      <3>4. ASSUME NEW b \in Nat, \A i \in 1..Len(store') : store'[i].id <= b PROVE Fresh(store', b)
        BY <3>2, <3>4 DEF Fresh
      <3>5. InOrder'
        <4>1. posting' # 0 => Fresh(store', posting')
          <5>1. posting # 0 => posting = written BY <1>t
          <5>2. posting # 0 => Fresh(store', posting) BY <1>t, <3>2, <3>4, <5>1
          <5> QED BY <2>0, <5>2
        <4>2. ASSUME NEW k \in 1..Len(wire'), wire'[k].type = "alert"
              PROVE  Fresh(store', wire'[k].ids[1]) /\ (posting' # 0 => wire'[k].ids[1] < posting')
          <5> DEFINE b == wire'[k].ids[1]
          <5>1. b \in Nat BY <2>3, <4>2
          <5>2. \A n \in 1..Len(wire[1].ids) : wire[1].ids[n] <= b
            BY <2>3, <4>2 DEF InOrder
          <5>3. \A i \in 1..Len(store') : store'[i].id <= b BY <3>1, <5>2
          <5>4. \A i, j \in 1..Len(store') : i < j => store'[i].id # store'[j].id BY <3>2
          <5>5. Fresh(store', b) BY <5>3, <5>4 DEF Fresh
          <5>6. posting' # 0 => wire'[k].ids[1] < posting' BY <2>0, <2>3, <4>2
          <5> QED BY <5>5, <5>6 DEF Fresh
        <4> QED BY <2>3, <4>1, <4>2 DEF InOrder
      <3> QED BY <3>3, <3>5
    <2> QED BY <2>2, <2>4, <2>5, Types
  <1>7. CASE AcknowledgeAll \/ \E id \in Ids : AcknowledgeAlert(id)
    <2>1. /\ UNCHANGED <<posting, wire>>
          /\ store' \in Seq(Shown) /\ Len(store') = Len(store)
          /\ \A i \in 1..Len(store) : store'[i].id = store[i].id
      BY <1>7, AcknowledgeMarks
    <2>2. DOMAIN store' = 1..Len(store) BY <2>1, LenProperties
    <2>3. NewestFirst' BY <1>f, <2>1, <2>2 DEF NewestFirst
    <2>4. ASSUME NEW a, Fresh(store, a) PROVE /\ \A i \in 1..Len(store') : store'[i].id <= a
                                       /\ \A i, j \in 1..Len(store') :
                                            i < j /\ store'[i].id = store'[j].id => store'[i].id < a
      BY <2>1, <2>4 DEF Fresh
    <2>5. InOrder' BY <2>1, <2>4 DEF InOrder, Fresh
    <2> QED BY <2>3, <2>5
  <1>8. CASE UNCHANGED vars
    BY <1>p, <1>8 DEF vars
  <1> QED BY <1>1, <1>2, <1>3, <1>4, <1>5, <1>6, <1>7, <1>8 DEF Next

\* Coming in terms of its variables.
ComingOf(w, p, r) == IF p = "query" THEN Append(w, StateMsg(r)) ELSE w

\* The wire, and behind it the snapshot that waits to be sent.
LEMMA ComingParts ==
  \A w \in Seq(Msg), r \in Seq(Ids) : \A p :
    /\ Len(w) \in Nat
    /\ Len(ComingOf(w, p, r)) = IF p = "query" THEN Len(w) + 1 ELSE Len(w)
    /\ \A i \in 1..Len(w) : ComingOf(w, p, r)[i] = w[i]
    /\ p = "query" => ComingOf(w, p, r)[Len(w) + 1] = StateMsg(r)
PROOF
  <1> SUFFICES ASSUME NEW w \in Seq(Msg), NEW r \in Seq(Ids), NEW p
               PROVE  /\ Len(w) \in Nat
                      /\ Len(ComingOf(w, p, r)) = IF p = "query" THEN Len(w) + 1 ELSE Len(w)
                      /\ \A i \in 1..Len(w) : ComingOf(w, p, r)[i] = w[i]
                      /\ p = "query" => ComingOf(w, p, r)[Len(w) + 1] = StateMsg(r)
    OBVIOUS
  <1>1. StateMsg(r) \in Msg BY DEF StateMsg, Msg
  <1>2. Len(w) \in Nat BY LenProperties
  <1>3. /\ Len(Append(w, StateMsg(r))) = Len(w) + 1
        /\ \A i \in 1..Len(w) : Append(w, StateMsg(r))[i] = w[i]
        /\ Append(w, StateMsg(r))[Len(w) + 1] = StateMsg(r)
    BY <1>1, AppendProperties
  <1>4. CASE p = "query" BY <1>2, <1>3, <1>4 DEF ComingOf
  <1>5. CASE p # "query" BY <1>2, <1>5 DEF ComingOf
  <1> QED BY <1>4, <1>5

\* Snapshots are read one after another: only the newest two can miss the same open
\* alert, and then it is newer than all that is ahead of them.
LEMMA BehindStep ==
  ASSUME TypeOK, KnownIds, Shapes, Behind, [Next]_vars
  PROVE  Behind'
PROOF
  <1> USE DEF tableVars, serverVars, clientVars
  <1> DEFINE c == ComingOf(wire, pusher, snapshot)
             d == ComingOf(wire', pusher', snapshot')
  <1>t. /\ written \in Nat /\ wire \in Seq(Msg) /\ Len(wire) \in Nat /\ snapshot \in Seq(Ids)
        /\ Len(snapshot) \in Nat /\ Len(store) \in Nat /\ acked \subseteq 1..written
        /\ wire' \in Seq(Msg) /\ snapshot' \in Seq(Ids) /\ written' \in 0..MaxAlerts
    BY Types, TypesStep DEF TypeOK, Msg
  <1>c. Coming = c /\ Coming' = d BY DEF Coming, ComingOf
  <1>1. /\ Len(c) = IF pusher = "query" THEN Len(wire) + 1 ELSE Len(wire)
        /\ \A i \in 1..Len(wire) : c[i] = wire[i]
        /\ pusher = "query" => c[Len(wire) + 1] = StateMsg(snapshot)
    BY <1>t, ComingParts
  <1>2. /\ Len(wire') \in Nat /\ Len(d) = IF pusher' = "query" THEN Len(wire') + 1 ELSE Len(wire')
        /\ \A i \in 1..Len(wire') : d[i] = wire'[i]
        /\ pusher' = "query" => d[Len(wire') + 1] = StateMsg(snapshot')
    BY <1>t, ComingParts
  <1>3. \A id \in Open : \A i, j \in 1..Len(c) :
          i < j /\ c[i].type = "live_state" /\ Misses(c[j], id) =>
            /\ \A n \in 1..Len(store) : store[n].id < id
            /\ \A k \in 1..i : \A n \in 1..Len(c[k].ids) : c[k].ids[n] < id
    BY <1>c DEF Behind
  <1>4. SUFFICES ASSUME NEW id \in Open', NEW i \in 1..Len(d), NEW j \in 1..Len(d),
                        i < j, d[i].type = "live_state", Misses(d[j], id)
                 PROVE  /\ \A n \in 1..Len(store') : store'[n].id < id
                        /\ \A k \in 1..i : \A n \in 1..Len(d[k].ids) : d[k].ids[n] < id
    BY <1>c DEF Behind
  <1>i. i \in Nat /\ j \in Nat /\ i < j /\ 1 <= i BY <1>2, <1>4
  <1>m. d[j].type = "live_state" BY <1>4 DEF Misses
  <1> HIDE DEF c, d
  <1>l. Len(c) \in Nat /\ Len(d) \in Nat BY <1>t, <1>1, <1>2
  \* The messages keep their places and the store is what it was.
  <1>5. ASSUME id \in Open, \A k \in 1..i : d[k] = c[k], NEW j0 \in 1..Len(c), i < j0, c[j0] = d[j],
               Len(store') = Len(store), \A n \in 1..Len(store) : store'[n].id = store[n].id
        PROVE  /\ \A n \in 1..Len(store') : store'[n].id < id
               /\ \A k \in 1..i : \A n \in 1..Len(d[k].ids) : d[k].ids[n] < id
    <2>1. i \in 1..Len(c) /\ d[i] = c[i] BY <1>i, <1>l, <1>5
    <2>2. /\ \A n \in 1..Len(store) : store[n].id < id
          /\ \A k \in 1..i : \A n \in 1..Len(c[k].ids) : c[k].ids[n] < id
      BY <1>3, <1>4, <1>5, <2>1
    <2> QED BY <1>5, <2>2
  <1>6. CASE InsertAlert
    <2>1. d = c /\ UNCHANGED <<store, acked>> /\ written' = written + 1
      BY <1>6 DEF InsertAlert, c, d
    <2>2. CASE id \in Open BY <1>i, <1>4, <1>5, <2>1, <2>2
    <2>3. CASE id \notin Open
      <3>1. id = written + 1 BY <1>t, <2>1, <2>3 DEF Open
      <3>2. \A n \in 1..Len(store) : store[n].id \in Nat /\ store[n].id <= written
        BY Types DEF KnownIds
      <3>x. \A x \in Nat : x <= written => x < id BY <1>t, <3>1
      <3>3. ASSUME NEW k \in 1..i, NEW n \in 1..Len(c[k].ids) PROVE c[k].ids[n] < id
        <4>1. k \in 1..Len(c) BY <1>i, <1>l, <2>1
        <4>2. CASE k \in 1..Len(wire)
          <5>1. c[k] = wire[k] BY <1>1, <4>2
          <5>2. wire[k].ids[n] \in Nat /\ wire[k].ids[n] <= written
            BY <4>2, <5>1, Types DEF KnownIds
          <5> QED BY <3>x, <5>1, <5>2
        <4>3. CASE k \notin 1..Len(wire)
          <5>1. pusher = "query" /\ k = Len(wire) + 1 BY <1>t, <1>1, <4>1, <4>3
          <5>2. c[k].ids = snapshot BY <1>1, <5>1 DEF StateMsg
          <5>3. snapshot[n] \in Nat /\ snapshot[n] <= written BY <5>2, Types DEF KnownIds
          <5> QED BY <3>x, <5>2, <5>3
        <4> QED BY <4>2, <4>3
      <3>4. \A n \in 1..Len(store) : store[n].id < id BY <3>2, <3>x
      <3> QED BY <2>1, <3>3, <3>4
    <2> QED BY <2>2, <2>3
  <1>o. ASSUME UNCHANGED tableVars PROVE id \in Open
    BY <1>4, <1>o DEF Open
  <1>7. CASE BroadcastAlert
    <2>0. id \in Open /\ UNCHANGED <<pusher, snapshot, store>>
      BY <1>7, <1>o DEF BroadcastAlert
    <2>1. CASE socket = "open"
      <3> DEFINE m == AlertMsg(posting)
      <3>1. wire' = Append(wire, m) /\ posting \in 1..written
        BY <1>7, <1>t, <2>1 DEF BroadcastAlert, TypeOK
      <3>2. posting \in Ids BY <3>1, Types DEF Ids
      <3>3. m \in Msg /\ m.type # "live_state" BY <3>2 DEF AlertMsg, Msg
      <3> HIDE DEF m
      <3>4. /\ Len(wire') = Len(wire) + 1
            /\ \A k \in 1..Len(wire) : wire'[k] = wire[k]
            /\ wire'[Len(wire) + 1] = m
        BY <3>1, <3>3, WireGrows
      <3>5. Len(wire) + 1 \in 1..Len(wire') /\ d[Len(wire) + 1] = m BY <1>t, <1>2, <3>4
      <3>6. i # Len(wire) + 1 /\ j # Len(wire) + 1 BY <1>4, <1>m, <3>3, <3>5
      <3>7. \A k \in 1..Len(wire) : d[k] = c[k] BY <1>t, <1>1, <1>2, <3>4
      <3>8. CASE j \in 1..Len(wire)
        <4>1. i \in 1..Len(wire) /\ j \in 1..Len(c) /\ \A k \in 1..i : k \in 1..Len(wire)
          BY <1>i, <1>t, <1>1, <3>8
        <4> QED BY <1>5, <1>i, <2>0, <3>7, <3>8, <4>1
      <3>9. CASE j \notin 1..Len(wire)
        <4>1. pusher = "query" /\ pusher' = "query" /\ j = Len(wire) + 2
          BY <1>i, <1>t, <1>2, <2>0, <3>4, <3>6, <3>9
        <4>2. d[j] = c[Len(wire) + 1] /\ Len(wire) + 1 \in 1..Len(c)
          <5>1. j = Len(wire') + 1 BY <1>t, <3>4, <4>1
          <5>2. d[j] = StateMsg(snapshot) BY <1>2, <2>0, <4>1, <5>1
          <5> QED BY <1>t, <1>1, <4>1, <5>2
        <4>3. i < Len(wire) + 1 /\ \A k \in 1..i : k \in 1..Len(wire)
          <5>1. i \in Nat /\ i <= Len(wire) BY <1>i, <1>t, <3>6, <4>1
          <5> QED BY <1>t, <5>1
        <4> QED BY <1>5, <2>0, <3>7, <4>2, <4>3
      <3> QED BY <3>8, <3>9
    <2>2. CASE socket # "open"
      <3>1. d = c BY <1>7, <2>0, <2>2 DEF BroadcastAlert, c, d
      <3> QED BY <1>5, <1>4, <2>0, <3>1
    <2> QED BY <2>1, <2>2
  <1>8. CASE Query \/ Connect
    <2>0. id \in Open /\ UNCHANGED <<wire, store, tableVars>>
      BY <1>8, <1>o DEF Query, Connect
    <2>1. j \in 1..Len(wire)
      <3>1. CASE pusher' = "query"
        <4>1. snapshot' = Recent BY <1>8, <3>1 DEF Query, Connect
        <4>2. d[Len(wire) + 1] = StateMsg(Recent) BY <1>2, <2>0, <3>1, <4>1
        <4>3. ~Misses(StateMsg(Recent), id)
          BY <2>0, RecentIsNewest DEF TypeOK
        <4>4. j # Len(wire) + 1 BY <1>4, <4>2, <4>3
        <4> QED BY <1>i, <1>t, <1>2, <2>0, <4>4
      <3>2. CASE pusher' # "query" BY <1>i, <1>t, <1>2, <2>0, <3>2
      <3> QED BY <3>1, <3>2
    <2>2. j \in 1..Len(c) /\ \A k \in 1..i : k \in 1..Len(wire) BY <1>i, <1>t, <1>1, <2>1
    <2>3. \A k \in 1..Len(wire) : d[k] = c[k] BY <1>1, <1>2, <2>0
    <2> QED BY <1>5, <1>4, <2>0, <2>1, <2>2, <2>3
  <1>9. CASE SendSnapshot
    <2>1. id \in Open /\ UNCHANGED store BY <1>9, <1>o DEF SendSnapshot
    <2>2. d = c BY <1>9 DEF SendSnapshot, ComingOf, c, d
    <2> QED BY <1>5, <1>4, <2>1, <2>2
  <1>10. CASE Close
    <2>1. wire' = <<>> /\ pusher' = "dead" BY <1>10 DEF Close
    <2>2. Len(wire') = 0 BY <2>1, <1>t, EmptySeq
    <2> QED BY <1>i, <1>2, <1>4, <2>1, <2>2
  <1>11. CASE Receive
    <2>0. id \in Open /\ UNCHANGED <<pusher, snapshot>> BY <1>11, <1>o DEF Receive
    <2>1. /\ Len(wire) >= 1 /\ Len(wire') = Len(wire) - 1
          /\ \A k \in 1..Len(wire) - 1 : wire'[k] = wire[k + 1]
          /\ Len(store') \in Nat
      BY <1>11, ReceiveShows
    <2>2. Len(d) = Len(c) - 1 BY <1>t, <1>1, <1>2, <2>0, <2>1
    <2>3. ASSUME NEW k \in 1..Len(d) PROVE d[k] = c[k + 1] /\ k + 1 \in 1..Len(c)
      <3>1. CASE k \in 1..Len(wire')
        <4>1. k + 1 \in 1..Len(wire) /\ wire'[k] = wire[k + 1] BY <1>t, <2>1, <3>1
        <4> QED BY <1>l, <1>1, <1>2, <2>2, <3>1, <4>1
      <3>2. CASE k \notin 1..Len(wire')
        <4>1. pusher = "query" /\ k = Len(wire') + 1 /\ k + 1 = Len(wire) + 1
          BY <1>t, <1>2, <2>0, <2>1, <3>2
        <4> QED BY <1>l, <1>1, <1>2, <2>0, <2>2, <4>1
      <3> QED BY <3>1, <3>2
    <2>4. /\ i + 1 \in 1..Len(c) /\ j + 1 \in 1..Len(c) /\ i + 1 < j + 1
          /\ c[i + 1].type = "live_state" /\ Misses(c[j + 1], id)
      <3>1. i \in 1..Len(d) /\ j \in 1..Len(d) /\ d[i].type = "live_state" /\ Misses(d[j], id)
        BY <1>4
      <3> QED BY <1>i, <2>3, <3>1
    <2>5. /\ \A n \in 1..Len(store) : store[n].id < id
          /\ \A k \in 1..i + 1 : \A n \in 1..Len(c[k].ids) : c[k].ids[n] < id
      BY <1>3, <2>0, <2>4
    <2>6. ASSUME NEW k \in 1..i, NEW n \in 1..Len(d[k].ids) PROVE d[k].ids[n] < id
      <3>1. k + 1 \in 1..i + 1 /\ k \in 1..Len(d) BY <1>i, <1>l, <1>4
      <3>2. d[k] = c[k + 1] BY <2>3, <3>1
      <3> QED BY <2>5, <3>1, <3>2
    <2>7. 1 \in 1..i + 1 /\ 1 \in 1..Len(wire) /\ c[1] = wire[1]
      BY <1>i, <1>t, <1>1, <2>1
    <2>8. ASSUME NEW n \in 1..Len(store') PROVE store'[n].id < id
      <3>1. CASE wire[1].type = "alert"
        <4>1. /\ 1 \in 1..Len(wire[1].ids) /\ Len(store') <= Len(store) + 1
              /\ store'[n].id = IF n = 1 THEN wire[1].ids[1] ELSE store[n - 1].id
          BY <1>11, <3>1, ReceiveShows
        <4>2. wire[1].ids[1] < id BY <2>5, <2>7, <4>1
        <4>3. n # 1 => n - 1 \in 1..Len(store) BY <1>t, <2>1, <4>1
        <4> QED BY <2>5, <4>1, <4>2, <4>3
      <3>2. CASE wire[1].type = "live_state"
        <4>1. Len(store') = Len(wire[1].ids) /\ store'[n].id = wire[1].ids[n]
          BY <1>11, <3>2, ReceiveShows
        <4> QED BY <2>5, <2>7, <4>1
      <3> QED BY <2>7, <3>1, <3>2, Types
    <2> QED BY <2>6, <2>8
  <1>12. CASE AcknowledgeAll \/ \E a \in Ids : AcknowledgeAlert(a)
    <2>1. /\ UNCHANGED <<tableVars, serverVars>> /\ Len(store') = Len(store)
          /\ \A n \in 1..Len(store) : store'[n].id = store[n].id
      BY <1>12, AcknowledgeMarks
    <2>2. d = c BY <2>1 DEF c, d
    <2> QED BY <1>5, <1>4, <1>o, <2>1, <2>2
  <1>13. CASE PostAcknowledge
    <2>1. UNCHANGED <<written, serverVars, store>> /\ acked \subseteq acked'
      BY <1>13 DEF PostAcknowledge
    <2>2. d = c /\ id \in Open BY <1>4, <2>1 DEF c, d, Open
    <2> QED BY <1>5, <1>4, <2>1, <2>2
  <1>14. CASE UNCHANGED vars
    <2>1. d = c /\ id \in Open /\ UNCHANGED store BY <1>o, <1>14 DEF vars, c, d
    <2> QED BY <1>5, <1>4, <2>1
  <1> QED
    BY <1>6, <1>7, <1>8, <1>9, <1>10, <1>11, <1>12, <1>13, <1>14 DEF Next

-----------------------------------------------------------------------------
(* The theorems. *)

\* The invariant holds at first and every step keeps it.
LEMMA FeedInvariant == Spec => []FeedInv
PROOF
  <1>1. ASSUME Init PROVE FeedInv
    <2>1. /\ snapshot = <<>> /\ wire = <<>> /\ store = <<>> /\ acking = {} /\ posting = 0
          /\ written = 0 /\ acked = {} /\ pusher = "dead" /\ socket = "closed"
      BY <1>1 DEF Init
    <2>2. /\ <<>> \in Seq(Ids) /\ <<>> \in Seq(Msg) /\ <<>> \in Seq(Shown) /\ Len(<<>>) = 0
          /\ DOMAIN <<>> = 1..0
      BY EmptySeq
    <2>3. \A i \in 1..Len(<<>>) : FALSE BY <2>2
    <2>4. TypeOK BY <2>1, <2>2, FeedAssumption DEF TypeOK, Msg, Shown
    <2>5. KnownIds /\ Shapes BY <2>1, <2>2, <2>3 DEF KnownIds, Shapes, Falling
    <2>6. InOrder /\ NewestFirst BY <2>1, <2>2, <2>3 DEF InOrder, NewestFirst
    <2>7. Behind BY <2>1, <2>3 DEF Behind, Coming
    <2> QED BY <2>4, <2>5, <2>6, <2>7 DEF FeedInv
  <1>2. FeedInv /\ [Next]_vars => FeedInv'
    BY TypesStep, OrderStep, BehindStep DEF FeedInv
  <1> QED BY <1>1, <1>2, PTL DEF Spec

\* Type correctness: the store keeps to its length, and no acknowledgement is made of
\* an alert that is not in the table (_emit, _addAlert, acknowledge_alert).
THEOREM FeedTypeCorrect == Spec => []TypeOK
PROOF BY FeedInvariant, PTL DEF FeedInv

\* However broadcasts and snapshots overtake one another, the store lists its alerts
\* newest first and none more than twice (_addAlert 129-131, _applyLiveState 112-124).
THEOREM StoreNewestFirst == Spec => []NewestFirst
PROOF BY FeedInvariant, PTL DEF FeedInv

\* An open alert that is shown, or about to be, is missing from at most one of the
\* snapshots on their way (_live_state_pusher 65-70).
THEOREM AlertLapsesOnce == Spec => []LapsesOnce
PROOF
  <1>1. ASSUME FeedInv PROVE LapsesOnce
    <2> DEFINE c == ComingOf(wire, pusher, snapshot)
    <2>1. Coming = c BY DEF Coming, ComingOf
    <2>t. wire \in Seq(Msg) /\ snapshot \in Seq(Ids) /\ Len(wire) \in Nat
      BY <1>1, Types DEF FeedInv
    <2>2. /\ Len(c) = IF pusher = "query" THEN Len(wire) + 1 ELSE Len(wire)
          /\ Coming \in Seq(Msg)
      <3>1. StateMsg(snapshot) \in Msg BY <2>t DEF StateMsg, Msg
      <3>2. Coming \in Seq(Msg) BY <2>t, <3>1, AppendProperties DEF Coming
      <3> QED BY <2>t, <3>2, ComingParts
    <2>3. DOMAIN Coming = 1..Len(Coming) /\ Len(Coming) \in Nat BY <2>2, LenProperties
    <2>s. DOMAIN store = 1..Len(store) BY <1>1, Types, LenProperties DEF FeedInv
    <2> SUFFICES ASSUME NEW id \in Open, NEW i \in 1..Len(Coming), NEW j \in 1..Len(Coming),
                        i < j, Misses(Coming[i], id), Misses(Coming[j], id)
                 PROVE  /\ \A e \in ToSet(store) : e.id # id
                        /\ \A k \in 1..i : Coming[k] # AlertMsg(id)
      BY <2>3 DEF LapsesOnce
    <2>4. Coming[i].type = "live_state" BY DEF Misses
    <2>5. /\ \A n \in 1..Len(store) : store[n].id < id
          /\ \A k \in 1..i : \A n \in 1..Len(Coming[k].ids) : Coming[k].ids[n] < id
      BY <1>1, <2>4 DEF FeedInv, Behind
    <2>i. id \in Nat
      BY <1>1, OpenWritten, Types DEF FeedInv
    <2>6. ASSUME NEW e \in ToSet(store) PROVE e.id # id
      <3>1. PICK n \in 1..Len(store) : e = store[n] BY <2>s DEF ToSet
      <3> QED BY <2>5, <2>i, <3>1
    <2>7. ASSUME NEW k \in 1..i, Coming[k] = AlertMsg(id) PROVE FALSE
      <3>1. Coming[k].ids = <<id>> BY <2>7 DEF AlertMsg
      <3>2. 1 \in 1..Len(Coming[k].ids) /\ Coming[k].ids[1] = id BY <3>1
      <3> QED BY <2>5, <2>i, <3>2
    <2> QED BY <2>6, <2>7
  <1> QED BY <1>1, FeedInvariant, PTL
=============================================================================
