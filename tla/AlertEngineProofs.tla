-------------------------- MODULE AlertEngineProofs --------------------------
(* Proofs about the alert engine, for any drones, nodes, rules and times. *)
EXTENDS AlertEngine, TLAPS

\* An age never grows by more than a tick, nor past Old.
LEMMA OlderType ==
  ASSUME NEW most \in Nat, NEW age \in 0..most
  PROVE  /\ Older(age, most) \in 0..most
         /\ Older(age, most) = age + 1 \/ (age = most /\ Older(age, most) = most)
BY DEF Older

\* The times are natural numbers, and Old is past the window.
LEMMA Times ==
  /\ Window \in Nat /\ Window > 0 /\ CleanupEvery \in Nat /\ CleanupEvery > 0
  /\ Old \in Nat /\ Old > Window
  /\ Forgotten \in Nat /\ Forgotten = Old + 1
BY AlertAssumption DEF Old, Forgotten

\* Rules 1-4 and 5 make alerts with keys.
LEMMA AlertsType ==
  ASSUME NEW e \in Events
  PROVE  Alerts(e) \in Seq(Keys)
PROOF
  <1>1. PICK n \in Nat : e.violated \in [1..n -> RuleCategories]
    <2>1. Len(Rules) \in Nat BY AlertAssumption
    <2>2. e.violated \in UNION {[1..n -> RuleCategories] : n \in 0..Len(Rules)}
      BY DEF Events, Violations
    <2> QED BY <2>1, <2>2
  <1>2. e.drone \in Drones /\ e.node \in Nodes BY DEF Events
  <1> DEFINE f == [i \in DOMAIN e.violated |-> <<e.violated[i], e.drone, e.node>>]
             g == IF IsNew(e.drone) THEN <<NewDrone(e.drone, e.node)>> ELSE <<>>
  <1>3. f \in Seq(Keys)
    <2>1. ASSUME NEW i \in 1..n PROVE <<e.violated[i], e.drone, e.node>> \in Keys
      BY <1>1, <1>2 DEF Keys, DetectionKeys
    <2>2. f \in [1..n -> Keys] BY <1>1, <2>1
    <2> HIDE DEF f
    <2> QED BY <2>2
  <1>4. NewDrone(e.drone, e.node) \in Keys BY <1>2 DEF Keys, DetectionKeys, NewDrone
  <1>5. g \in Seq(Keys) BY <1>4
  <1>6. Alerts(e) = f \o g BY Zenon DEF Alerts
  <1> HIDE DEF f, g
  <1> QED BY <1>3, <1>5, <1>6

\* What the task holds at each stage; an entry is there before its row.
TaskInv ==
  /\ stage = "idle" => event = NoEvent /\ todo = <<>> /\ inserting = <<>>
  /\ stage = "evaluate" => event \in Events /\ todo = <<>> /\ inserting = <<>>
  /\ inserting # <<>> => inserting[1] \in DOMAIN dedup

\* The purge keeps some of the entries, as they are, and drops only stale ones.
LEMMA CleanupKeeps ==
  ASSUME TypeOK, Cleanup
  PROVE  /\ DOMAIN dedup' \subseteq DOMAIN dedup
         /\ \A k \in DOMAIN dedup' : dedup'[k] = dedup[k]
         /\ \A k \in DOMAIN dedup : dedup[k] <= Window => k \in DOMAIN dedup'
         /\ cleaned' \in 0..CleanupEvery
         /\ \/ cleaned' = cleaned /\ dedup' = dedup
            \/ cleaned' = 0 /\ \A k \in DOMAIN dedup' : dedup[k] <= Window
PROOF
  <1>1. CASE cleaned < CleanupEvery
    <2>1. dedup' = dedup /\ cleaned' = cleaned BY <1>1 DEF Cleanup, memVars
    <2> QED BY <2>1 DEF TypeOK
  <1>2. CASE ~(cleaned < CleanupEvery)
    <2>1. dedup' = Purged(dedup) /\ cleaned' = 0 BY <1>2 DEF Cleanup
    <2>2. DOMAIN dedup' = {x \in DOMAIN dedup : ~Stale(x)} BY <2>1 DEF Purged
    <2>3. \A k \in DOMAIN dedup' : dedup'[k] = dedup[k] BY <2>1, <2>2 DEF Purged
    <2>4. \A k \in DOMAIN dedup : dedup[k] \in Int BY DEF TypeOK, Ages
    <2>5. \A k \in DOMAIN dedup : ~Stale(k) <=> dedup[k] <= Window BY <2>4, Times DEF Stale
    <2>6. 0 \in 0..CleanupEvery BY Times
    <2> QED BY <2>1, <2>2, <2>3, <2>5, <2>6
  <1> QED BY <1>1, <1>2

\* The types hold of the initial state.
LEMMA InitTypes == Init => TypeOK /\ TaskInv
PROOF
  <1> SUFFICES ASSUME Init PROVE TypeOK /\ TaskInv OBVIOUS
  <1>1. DOMAIN dedup = {} BY DEF Init
  <1>2. cleaned \in 0..CleanupEvery BY Times DEF Init
  <1>3. lastAlert \in [Keys -> Ages \cup {Forgotten}] BY Times DEF Init, Ages
  <1> QED BY <1>1, <1>2, <1>3 DEF Init, TypeOK, TaskInv

\* Leaving a handler keeps the types of the task's own variables.
LEMMA AbandonedTypes ==
  ASSUME TypeOK, Abandoned
  PROVE  cutShort' \subseteq Drones
PROOF
  <1>1. CASE event # NoEvent /\ count[event.drone] = 1
    <2>1. event.drone \in Drones BY <1>1 DEF TypeOK, Events
    <2> QED BY <1>1, <2>1 DEF Abandoned, TypeOK
  <1>2. CASE ~(event # NoEvent /\ count[event.drone] = 1)
    <2>1. cutShort' = cutShort BY <1>2 DEF Abandoned
    <2> QED BY <2>1 DEF TypeOK
  <1> QED BY <1>1, <1>2

\* A row names a drone in the announced sets only if its key does.
LEMMA AnnounceTypes ==
  ASSUME TypeOK, NEW k \in Keys, Announce(k)
  PROVE  announced' \subseteq Drones /\ twice' \subseteq Drones
PROOF
  <1>1. CASE k[1] = "new_drone"
    <2>1. k[2] \in Drones BY <1>1 DEF Keys, DetectionKeys, Jamming
    <2> QED BY <1>1, <2>1 DEF Announce, TypeOK
  <1>2. CASE k[1] # "new_drone" BY <1>2 DEF Announce, TypeOK
  <1> QED BY <1>1, <1>2

\* A row needs its entry: its age is the entry's.
LEMMA RowTypes ==
  ASSUME TypeOK, NEW k \in Keys, k \in DOMAIN dedup, WriteRow(k) \/ LoseRow(k)
  PROVE  /\ lastAlert' \in [Keys -> Ages \cup {Forgotten}] /\ unwritten' \subseteq Keys
         /\ announced' \subseteq Drones /\ twice' \subseteq Drones
PROOF
  <1>1. CASE WriteRow(k)
    <2>1. announced' \subseteq Drones /\ twice' \subseteq Drones
      BY <1>1, AnnounceTypes DEF WriteRow
    <2>2. dedup[k] \in Ages BY DEF TypeOK
    <2>3. lastAlert' \in [Keys -> Ages \cup {Forgotten}] /\ unwritten' \subseteq Keys
      BY <1>1, <2>2 DEF WriteRow, TypeOK
    <2> QED BY <2>1, <2>3
  <1>2. CASE LoseRow(k) BY <1>2 DEF LoseRow, TypeOK
  <1> QED BY <1>1, <1>2

\* Every step keeps the types.
LEMMA StepTypes == TypeOK /\ TaskInv /\ [Next]_vars => TypeOK' /\ TaskInv'
PROOF
  <1> SUFFICES ASSUME TypeOK, TaskInv, [Next]_vars PROVE TypeOK' /\ TaskInv' OBVIOUS
  <1> USE DEF taskVars, memVars, history
  <1>1. CASE Tick
    <2>1. \A a \in Ages : Older(a, Old) \in Ages BY OlderType, Times DEF Ages
    <2>2. dedup' = [k \in DOMAIN dedup |-> Older(dedup[k], Old)] BY <1>1 DEF Tick
    <2>3. DOMAIN dedup' = DOMAIN dedup /\ \A k \in DOMAIN dedup' : dedup'[k] \in Ages
      BY <2>1, <2>2 DEF TypeOK
    <2>4. lastAlert' \in [Keys -> Ages \cup {Forgotten}]
      <3>1. Older(Forgotten, Old) = Forgotten BY Times DEF Older
      <3> QED BY <1>1, <2>1, <3>1 DEF Tick, TypeOK
    <2>5. cleaned' \in 0..CleanupEvery BY <1>1, OlderType, Times DEF Tick, TypeOK
    <2> QED BY <1>1, <2>3, <2>4, <2>5 DEF Tick, TypeOK, TaskInv
  <1>2. CASE Receive
    <2> PICK e \in Events :
          /\ count' = [count EXCEPT ![e.drone] = Counted(e.drone)]
          /\ \/ stage' = "evaluate" /\ event' = e /\ UNCHANGED <<todo, inserting, cutShort>>
             \/ /\ cutShort' = IF count[e.drone] = 0 THEN cutShort \cup {e.drone} ELSE cutShort
                /\ UNCHANGED taskVars
      BY <1>2 DEF Receive
    <2>1. e.drone \in Drones BY DEF Events
    <2>2. Counted(e.drone) \in 0..2 BY DEF Counted
    <2>3. count' \in [Drones -> 0..2] BY <2>1, <2>2 DEF TypeOK
    <2>4. cutShort' \subseteq Drones BY <2>1 DEF TypeOK
    <2>5. stage = "idle" /\ UNCHANGED <<memVars, lastAlert, unwritten, announced, twice>>
      BY <1>2 DEF Receive
    <2> QED BY <2>3, <2>4, <2>5 DEF TypeOK, TaskInv
  <1>3. CASE Evaluate
    <2>1. stage = "evaluate" /\ Cleanup /\ event \in Events /\ inserting = <<>>
      BY <1>3 DEF Evaluate, TaskInv
    <2>2. /\ DOMAIN dedup' \subseteq Keys /\ \A k \in DOMAIN dedup' : dedup'[k] \in Ages
          /\ cleaned' \in 0..CleanupEvery
      BY <2>1, CleanupKeeps DEF TypeOK
    <2>3. UNCHANGED <<count, lastAlert, unwritten, announced, twice>> BY <1>3 DEF Evaluate
    <2>4. CASE stage' = "emit" /\ todo' = Alerts(event) /\ UNCHANGED <<event, inserting, cutShort>>
      <3>1. todo' \in Seq(Keys) BY <2>1, <2>4, AlertsType
      <3> QED BY <2>1, <2>2, <2>3, <2>4, <3>1 DEF TypeOK, TaskInv
    <2>5. CASE Abandoned /\ Idle
      <3>1. cutShort' \subseteq Drones BY <2>5, AbandonedTypes
      <3> QED BY <2>2, <2>3, <2>5, <3>1 DEF Idle, TypeOK, TaskInv
    <2> QED BY <1>3, <2>4, <2>5 DEF Evaluate
  <1>4. CASE JammedHeartbeat
    <2>1. stage = "idle" /\ Cleanup /\ inserting = <<>> /\ event = NoEvent
      BY <1>4 DEF JammedHeartbeat, TaskInv
    <2>2. /\ DOMAIN dedup' \subseteq Keys /\ \A k \in DOMAIN dedup' : dedup'[k] \in Ages
          /\ cleaned' \in 0..CleanupEvery
      BY <2>1, CleanupKeeps DEF TypeOK
    <2>3. todo' \in Seq(Keys) BY <1>4 DEF JammedHeartbeat, Keys
    <2> QED BY <1>4, <2>1, <2>2, <2>3 DEF JammedHeartbeat, TypeOK, TaskInv
  <1>5. CASE NextAlert
    <2>1. Head(todo) \in Keys /\ todo' \in Seq(Keys) BY <1>5 DEF NextAlert, TypeOK
    <2>2. stage = "emit" /\ inserting = <<>> /\ UNCHANGED <<stage, event, cleaned, count, history>>
      BY <1>5 DEF NextAlert
    <2>3. CASE UNCHANGED <<dedup, inserting>>
      BY <2>1, <2>2, <2>3 DEF TypeOK, TaskInv
    <2>4. CASE Remember(Head(todo)) /\ inserting' = <<Head(todo)>>
      <3> DEFINE h == Head(todo)
      <3>1. dedup' = [x \in DOMAIN dedup \cup {h} |-> IF x = h THEN 0 ELSE dedup[x]]
        BY <2>4 DEF Remember
      <3>2. 0 \in Ages BY Times DEF Ages
      <3>3. DOMAIN dedup' = DOMAIN dedup \cup {h} /\ inserting' = <<h>> BY <2>4, <3>1
      <3>4. h \in Keys BY <2>1
      <3> HIDE DEF h
      <3>5. DOMAIN dedup' \subseteq Keys /\ \A k \in DOMAIN dedup' : dedup'[k] \in Ages
        BY <3>1, <3>2, <3>4 DEF TypeOK
      <3>6. inserting' \in {<<>>} \cup {<<k>> : k \in Keys} /\ inserting'[1] \in DOMAIN dedup'
        BY <3>3, <3>4
      <3> QED BY <2>1, <2>2, <3>5, <3>6 DEF TypeOK, TaskInv
    <2> QED BY <1>5, <2>3, <2>4 DEF NextAlert
  <1>6. CASE Emit
    <2>1. inserting # <<>> /\ UNCHANGED <<memVars, count>> BY <1>6 DEF Emit
    <2>2. inserting[1] \in Keys /\ inserting[1] \in DOMAIN dedup BY <2>1 DEF TypeOK, TaskInv
    <2>3. WriteRow(inserting[1]) \/ LoseRow(inserting[1]) BY <1>6 DEF Emit
    <2>4. /\ lastAlert' \in [Keys -> Ages \cup {Forgotten}] /\ unwritten' \subseteq Keys
          /\ announced' \subseteq Drones /\ twice' \subseteq Drones
      BY <2>2, <2>3, RowTypes
    <2>5. CASE inserting' = <<>> /\ UNCHANGED <<stage, event, todo, cutShort>>
      BY <2>1, <2>4, <2>5 DEF TypeOK, TaskInv
    <2>6. CASE Abandoned /\ Idle
      <3>1. cutShort' \subseteq Drones BY <2>6, AbandonedTypes
      <3> QED BY <2>1, <2>4, <2>6, <3>1 DEF Idle, TypeOK, TaskInv
    <2> QED BY <1>6, <2>5, <2>6 DEF Emit
  <1>7. CASE Finish BY <1>7 DEF Finish, Idle, TypeOK, TaskInv
  <1>8. CASE Restart
    <2>1. cutShort' \subseteq Drones BY <1>8, AbandonedTypes DEF Restart
    <2>2. announced' \subseteq Drones /\ twice' \subseteq Drones
      <3>1. CASE inserting # <<>> /\ Announce(inserting[1])
        <4>1. inserting[1] \in Keys BY <3>1 DEF TypeOK
        <4> QED BY <3>1, <4>1, AnnounceTypes
      <3>2. CASE UNCHANGED <<announced, twice>> BY <3>2 DEF TypeOK
      <3> QED BY <1>8, <3>1, <3>2 DEF Restart
    <2>3. Idle /\ count' = count /\ unwritten' = {} BY <1>8 DEF Restart
    <2>4. DOMAIN dedup' = {} /\ cleaned' \in 0..CleanupEvery /\ lastAlert' \in [Keys -> Ages \cup {Forgotten}]
      BY <1>8, Times DEF Restart, Ages
    <2> QED BY <2>1, <2>2, <2>3, <2>4 DEF Idle, TypeOK, TaskInv
  <1>9. CASE UNCHANGED vars BY <1>9 DEF vars, TypeOK, TaskInv
  <1> QED BY <1>1, <1>2, <1>3, <1>4, <1>5, <1>6, <1>7, <1>8, <1>9 DEF Next

\* TypeOK: the task, the deduplication and the tables keep their types (all of
\* AlertEngine and the handlers that call it).
THEOREM TypeCorrect == Spec => []TypeOK
PROOF
  <1>1. Spec => [](TypeOK /\ TaskInv)
    BY InitTypes, StepTypes, PTL DEF Spec
  <1> QED BY <1>1, PTL

\* An alert younger than the window has an entry at least as young: this is what
\* AlertsApart rests on, and what a purge or a restart could have taken away.
YoungHasEntry ==
  \A k \in Keys :
    lastAlert[k] < Window => k \in DOMAIN dedup /\ dedup[k] <= lastAlert[k]

DedupInv == EntryExplained /\ YoungHasEntry /\ PurgeBoundsEntries

\* The deduplication starts without entries and without alerts.
LEMMA InitDedup == Init => DedupInv
PROOF
  <1> SUFFICES ASSUME Init PROVE DedupInv OBVIOUS
  <1>1. DOMAIN dedup = {} BY DEF Init
  <1>2. \A k \in Keys : ~(lastAlert[k] < Window) BY Times DEF Init
  <1> QED BY <1>1, <1>2 DEF DedupInv, EntryExplained, YoungHasEntry, PurgeBoundsEntries

\* A purge disturbs none of it: what it drops is older than the window.
LEMMA CleanupDedup ==
  ASSUME TypeOK, DedupInv, Cleanup, inserting = <<>>,
         UNCHANGED <<lastAlert, unwritten>>
  PROVE  DedupInv'
PROOF
  <1>1. /\ DOMAIN dedup' \subseteq DOMAIN dedup
        /\ \A k \in DOMAIN dedup' : dedup'[k] = dedup[k]
        /\ \A k \in DOMAIN dedup : dedup[k] <= Window => k \in DOMAIN dedup'
        /\ \/ cleaned' = cleaned /\ dedup' = dedup
           \/ cleaned' = 0 /\ \A k \in DOMAIN dedup' : dedup[k] <= Window
    BY CleanupKeeps
  <1>2. \A k : inserting # <<k>> OBVIOUS
  <1>3. EntryExplained' BY <1>1, <1>2 DEF DedupInv, EntryExplained
  <1>4. YoungHasEntry'
    <2> SUFFICES ASSUME NEW k \in Keys, lastAlert[k] < Window
                 PROVE  k \in DOMAIN dedup' /\ dedup'[k] <= lastAlert[k]
      BY DEF YoungHasEntry
    <2>1. k \in DOMAIN dedup /\ dedup[k] <= lastAlert[k] BY DEF DedupInv, YoungHasEntry
    <2>2. dedup[k] \in Int /\ lastAlert[k] \in Int BY <2>1, Times DEF TypeOK, Ages
    <2>3. dedup[k] <= Window BY <2>1, <2>2, Times
    <2> QED BY <1>1, <2>1, <2>3
  <1>5. PurgeBoundsEntries' BY <1>1, Times DEF DedupInv, PurgeBoundsEntries
  <1> QED BY <1>3, <1>4, <1>5 DEF DedupInv

\* Every step keeps it: entries and alerts grow old together, and each row
\* takes the age of its entry.
LEMMA StepDedup == TypeOK /\ TaskInv /\ DedupInv /\ [Next]_vars => DedupInv'
PROOF
  <1> SUFFICES ASSUME TypeOK, TaskInv, DedupInv, [Next]_vars PROVE DedupInv' OBVIOUS
  <1> USE DEF taskVars, memVars, history
  <1>1. CASE Tick
    <2>1. /\ DOMAIN dedup' = DOMAIN dedup
          /\ \A k \in DOMAIN dedup' : dedup'[k] = Older(dedup[k], Old)
      BY <1>1 DEF Tick
    <2>2. \A k \in Keys : lastAlert'[k] = Older(lastAlert[k], Old) BY <1>1 DEF Tick, TypeOK
    <2>3. /\ \A k \in DOMAIN dedup : dedup[k] \in 0..Old
          /\ \A k \in Keys : lastAlert[k] \in 0..Old \cup {Forgotten}
          /\ DOMAIN dedup \subseteq Keys
      BY DEF TypeOK, Ages
    <2>4. UNCHANGED <<inserting, unwritten>> BY <1>1 DEF Tick
    <2>5. EntryExplained'
      <3> SUFFICES ASSUME NEW k \in DOMAIN dedup, dedup'[k] < Window
                   PROVE  lastAlert'[k] = dedup'[k] \/ k \in unwritten \/ inserting = <<k>>
        BY <2>1, <2>4 DEF EntryExplained
      <3>1. dedup[k] < Window BY <2>1, <2>3, Times DEF Older
      <3>2. lastAlert[k] = dedup[k] \/ k \in unwritten \/ inserting = <<k>>
        BY <3>1 DEF DedupInv, EntryExplained
      <3> QED BY <2>1, <2>2, <2>3, <3>2
    <2>6. YoungHasEntry'
      <3> SUFFICES ASSUME NEW k \in Keys, lastAlert'[k] < Window
                   PROVE  k \in DOMAIN dedup' /\ dedup'[k] <= lastAlert'[k]
        BY DEF YoungHasEntry
      <3>1. lastAlert[k] < Window BY <2>2, <2>3, Times DEF Older
      <3>2. k \in DOMAIN dedup /\ dedup[k] <= lastAlert[k] BY <3>1 DEF DedupInv, YoungHasEntry
      <3>3. Older(dedup[k], Old) <= Older(lastAlert[k], Old) BY <2>3, <3>2, Times DEF Older
      <3> QED BY <2>1, <2>2, <3>2, <3>3
    <2>7. PurgeBoundsEntries'
      <3> SUFFICES ASSUME cleaned' < CleanupEvery, NEW k \in DOMAIN dedup
                   PROVE  dedup'[k] <= Window + cleaned'
        BY <2>1 DEF PurgeBoundsEntries
      <3>1. cleaned \in Nat /\ cleaned' = Older(cleaned, CleanupEvery)
        BY <1>1, Times DEF Tick, TypeOK
      <3>2. cleaned < CleanupEvery /\ cleaned' = cleaned + 1 BY <3>1, Times DEF Older
      <3>3. dedup[k] <= Window + cleaned BY <3>2 DEF DedupInv, PurgeBoundsEntries
      <3> QED BY <2>1, <2>3, <3>1, <3>2, <3>3, Times DEF Older
    <2> QED BY <2>5, <2>6, <2>7 DEF DedupInv
  <1>2. CASE Receive
    <2>1. inserting' = inserting /\ UNCHANGED <<memVars, lastAlert, unwritten>>
      BY <1>2 DEF Receive
    <2> QED BY <2>1 DEF DedupInv, EntryExplained, YoungHasEntry, PurgeBoundsEntries
  <1>3. CASE Evaluate
    <2>1. Cleanup /\ inserting = <<>> /\ UNCHANGED <<lastAlert, unwritten>>
      BY <1>3 DEF Evaluate, TaskInv
    <2> QED BY <2>1, CleanupDedup
  <1>4. CASE JammedHeartbeat
    <2>1. Cleanup /\ inserting = <<>> /\ UNCHANGED <<lastAlert, unwritten>>
      BY <1>4 DEF JammedHeartbeat, TaskInv
    <2> QED BY <2>1, CleanupDedup
  <1>5. CASE NextAlert
    <2>1. inserting = <<>> /\ UNCHANGED <<cleaned, lastAlert, unwritten>> /\ Head(todo) \in Keys
      BY <1>5 DEF NextAlert, TypeOK
    <2>2. CASE UNCHANGED <<dedup, inserting>>
      BY <2>1, <2>2 DEF DedupInv, EntryExplained, YoungHasEntry, PurgeBoundsEntries
    <2>3. CASE Remember(Head(todo)) /\ inserting' = <<Head(todo)>>
      <3> DEFINE h == Head(todo)
      <3>1. h \in Keys /\ inserting' = <<h>> BY <2>1, <2>3
      <3>2. dedup' = [x \in DOMAIN dedup \cup {h} |-> IF x = h THEN 0 ELSE dedup[x]]
        BY <2>3 DEF Remember
      <3> HIDE DEF h
      <3>3. /\ DOMAIN dedup' = DOMAIN dedup \cup {h} /\ dedup'[h] = 0
            /\ \A x \in DOMAIN dedup : x # h => dedup'[x] = dedup[x]
        BY <3>2
      <3>4. \A k : inserting # <<k>> BY <2>1
      <3>5. EntryExplained' BY <2>1, <3>1, <3>3, <3>4 DEF DedupInv, EntryExplained
      <3>6. \A k \in Keys : lastAlert[k] \in Int /\ lastAlert[k] >= 0
        BY Times DEF TypeOK, Ages
      <3>7. YoungHasEntry' BY <2>1, <3>1, <3>3, <3>6 DEF DedupInv, YoungHasEntry
      <3>8. cleaned \in Int /\ cleaned >= 0 BY Times DEF TypeOK
      <3>9. PurgeBoundsEntries'
        BY <2>1, <3>3, <3>8, Times DEF DedupInv, PurgeBoundsEntries
      <3> QED BY <3>5, <3>7, <3>9 DEF DedupInv
    <2> QED BY <1>5, <2>2, <2>3 DEF NextAlert
  <1>6. CASE Emit
    <2> DEFINE h == inserting[1]
    <2>1. inserting' = <<>> /\ UNCHANGED memVars BY <1>6 DEF Emit, Idle
    <2>2. inserting = <<h>> /\ h \in Keys /\ h \in DOMAIN dedup
      BY <1>6 DEF Emit, TypeOK, TaskInv
    <2>3. WriteRow(h) \/ LoseRow(h) BY <1>6 DEF Emit
    <2> HIDE DEF h
    <2>4. CASE WriteRow(h)
      <3>1. /\ lastAlert' = [lastAlert EXCEPT ![h] = dedup[h]] /\ unwritten' = unwritten \ {h}
        BY <2>4 DEF WriteRow
      <3>2. lastAlert'[h] = dedup[h] /\ \A k \in Keys : k # h => lastAlert'[k] = lastAlert[k]
        BY <2>2, <3>1 DEF TypeOK
      <3>3. \A k : inserting = <<k>> => k = h BY <2>2
      <3>4. DOMAIN dedup \subseteq Keys /\ \A k \in DOMAIN dedup : dedup[k] \in Int
        BY DEF TypeOK, Ages
      <3>5. EntryExplained' BY <2>1, <3>1, <3>2, <3>3, <3>4 DEF DedupInv, EntryExplained
      <3>6. YoungHasEntry' BY <2>1, <2>2, <3>2, <3>4 DEF DedupInv, YoungHasEntry
      <3> QED BY <2>1, <3>5, <3>6 DEF DedupInv, PurgeBoundsEntries
    <2>5. CASE LoseRow(h)
      <3>1. unwritten' = unwritten \cup {h} /\ lastAlert' = lastAlert BY <2>5 DEF LoseRow
      <3>2. \A k : inserting = <<k>> => k = h BY <2>2
      <3>3. EntryExplained' BY <2>1, <3>1, <3>2 DEF DedupInv, EntryExplained
      <3> QED BY <2>1, <3>1, <3>3 DEF DedupInv, YoungHasEntry, PurgeBoundsEntries
    <2> QED BY <2>3, <2>4, <2>5
  <1>7. CASE Finish
    <2>1. inserting' = inserting /\ UNCHANGED <<memVars, lastAlert, unwritten>>
      BY <1>7 DEF Finish, Idle
    <2> QED BY <2>1 DEF DedupInv, EntryExplained, YoungHasEntry, PurgeBoundsEntries
  <1>8. CASE Restart
    <2>1. DOMAIN dedup' = {} BY <1>8 DEF Restart
    <2>2. \A k \in Keys : ~(lastAlert'[k] < Window) BY <1>8, Times DEF Restart
    <2> QED BY <2>1, <2>2 DEF DedupInv, EntryExplained, YoungHasEntry, PurgeBoundsEntries
  <1>9. CASE UNCHANGED vars
    BY <1>9 DEF vars, DedupInv, EntryExplained, YoungHasEntry, PurgeBoundsEntries
  <1> QED BY <1>1, <1>2, <1>3, <1>4, <1>5, <1>6, <1>7, <1>8, <1>9 DEF Next

\* The invariant of the deduplication.
LEMMA DedupAlways == Spec => [](TypeOK /\ TaskInv /\ DedupInv)
BY InitTypes, StepTypes, InitDedup, StepDedup, PTL DEF Spec

\* EntryExplained: what suppresses an alert stands for a row as old in the table,
\* or for one that was not written (evaluate, _emit).
THEOREM EntriesExplained == Spec => []EntryExplained
PROOF
  <1>1. DedupInv => EntryExplained BY DEF DedupInv
  <1> QED BY <1>1, DedupAlways, PTL

\* PurgeBoundsEntries: the purge bounds the age of the entries (_cleanup_dedup).
THEOREM EntriesBounded == Spec => []PurgeBoundsEntries
PROOF
  <1>1. DedupInv => PurgeBoundsEntries BY DEF DedupInv
  <1> QED BY <1>1, DedupAlways, PTL

\* An entry is written only if the key's last alert is as old as the window, or forgotten.
LEMMA ApartStep ==
  ASSUME TypeOK, TaskInv, DedupInv, Next,
         NEW k \in Keys, inserting = <<>>, inserting' = <<k>>
  PROVE  lastAlert[k] \in Window..Old \/ lastAlert[k] = Forgotten
PROOF
  <1>1. inserting' # inserting /\ inserting' # <<>> OBVIOUS
  <1>2. NextAlert
    BY <1>1 DEF Next, Tick, Receive, Evaluate, JammedHeartbeat, Emit, Finish, Restart, Idle,
                taskVars
  <1>3. ~Suppressed(Head(todo)) /\ inserting' = <<Head(todo)>> BY <1>1, <1>2 DEF NextAlert
  <1>4. Head(todo) = k BY <1>3
  <1>5. ~(k \in DOMAIN dedup /\ dedup[k] < Window) BY <1>3, <1>4 DEF Suppressed
  <1>6. lastAlert[k] \in 0..Old \/ lastAlert[k] = Forgotten BY DEF TypeOK, Ages
  <1>7. CASE lastAlert[k] < Window
    <2>1. k \in DOMAIN dedup /\ dedup[k] <= lastAlert[k]
      BY <1>7 DEF DedupInv, YoungHasEntry
    <2>2. dedup[k] \in Int BY <2>1 DEF TypeOK, Ages
    <2> QED BY <1>5, <1>6, <1>7, <2>1, <2>2, Times
  <1> QED BY <1>6, <1>7, Times

\* AlertsApart: no key is alerted twice within the window but across a restart, which
\* forgets the first alert (evaluate 168-174, _cleanup_dedup, __init__ 38-43), for any
\* window and purge interval.
THEOREM AlertsKeptApart == Spec => AlertsApart
PROOF
  <1>1. TypeOK /\ TaskInv /\ DedupInv /\ [Next]_vars
          => [\A k \in Keys :
                inserting = <<>> /\ inserting' = <<k>> =>
                  lastAlert[k] \in Window..Old \/ lastAlert[k] = Forgotten]_vars
    <2> SUFFICES ASSUME TypeOK, TaskInv, DedupInv, [Next]_vars, NEW k \in Keys,
                        inserting = <<>>, inserting' = <<k>>
                 PROVE  lastAlert[k] \in Window..Old \/ lastAlert[k] = Forgotten
      OBVIOUS
    <2>1. CASE Next BY <2>1, ApartStep
    <2>2. CASE UNCHANGED vars BY <2>2 DEF vars, taskVars
    <2> QED BY <2>1, <2>2
  <1> QED BY <1>1, DedupAlways, PTL DEF Spec, AlertsApart

-----------------------------------------------------------------------------
(* New drones. *)

IsNewAlert(k) == k[1] = "new_drone"

\* The drone whose new_drone alert is on its way: its detection is about to be
\* evaluated, or the alert is the last one due, or its row is being written.
Awaited ==
  {d \in Drones :
    /\ event.drone = d /\ count[d] = 1
    /\ \/ stage = "evaluate"
       \/ \E i \in 1..Len(todo) : todo[i] = NewDrone(d, event.node)
       \/ inserting = <<NewDrone(d, event.node)>>}

Settled == announced \cup cutShort

\* A drone is unknown, awaited or settled, and only one of them.
ThreeWays ==
  \A d \in Drones :
    /\ count[d] = 0 => d \notin Settled
    /\ count[d] > 0 => d \in Settled \cup Awaited
    /\ d \in Awaited => d \notin Settled

\* A new_drone alert is that of the event, and the last of its alerts.
NewAlertLast ==
  /\ \A i \in 1..Len(todo) :
       IsNewAlert(todo[i]) =>
         /\ i = Len(todo) /\ inserting # <<todo[i]>>
         /\ event \in Events /\ count[event.drone] = 1
         /\ todo[i] = NewDrone(event.drone, event.node)
  /\ \A k \in Keys :
       inserting = <<k>> /\ IsNewAlert(k) =>
         /\ todo = <<>>
         /\ event \in Events /\ count[event.drone] = 1
         /\ k = NewDrone(event.drone, event.node)

\* An entry that could suppress a new_drone alert is that of a settled drone, or
\* of the alert whose row is being written.
NewEntrySettled ==
  \A k \in DOMAIN dedup : IsNewAlert(k) => k[2] \in Settled \/ inserting = <<k>>

EventCounted == event \in Events => count[event.drone] > 0

DroneInv == ThreeWays /\ NewAlertLast /\ NewEntrySettled /\ EventCounted /\ NewDroneOnce

\* NoEvent is not an event: no drone is called None.
LEMMA EventOrNot ==
  /\ NoEvent \notin Events
  /\ \A d \in Drones : event = NoEvent => event.drone # d
PROOF
  <1>1. NoEvent.drone = None BY DEF NoEvent
  <1>2. None \notin Drones BY AlertAssumption
  <1>3. \A e \in Events : e.drone \in Drones BY DEF Events
  <1> QED BY <1>1, <1>2, <1>3

\* Nothing due, nothing to say of it.
LEMMA NothingDue ==
  /\ todo = <<>> /\ inserting = <<>> => NewAlertLast
  /\ todo' = <<>> /\ inserting' = <<>> => NewAlertLast'
PROOF
  <1>1. 1..Len(<<>>) = {} /\ \A k : <<>> # <<k>> OBVIOUS
  <1> QED BY <1>1 DEF NewAlertLast

\* The parts of a new_drone alert, and who makes no such alert.
LEMMA NewAlertParts ==
  /\ \A d, n : IsNewAlert(NewDrone(d, n)) /\ NewDrone(d, n)[2] = d
  /\ \A n : ~IsNewAlert(Jamming(n))
  /\ \A c \in RuleCategories : \A d, n : ~IsNewAlert(<<c, d, n>>)
BY AlertAssumption DEF IsNewAlert, NewDrone, Jamming

\* No drone is known at first.
LEMMA InitDrones == Init => DroneInv
PROOF
  <1> SUFFICES ASSUME Init PROVE DroneInv OBVIOUS
  <1>1. event = NoEvent /\ todo = <<>> /\ inserting = <<>> /\ DOMAIN dedup = {} BY DEF Init
  <1>2. Settled = {} /\ NewDroneOnce BY DEF Init, Settled, NewDroneOnce
  <1>3. \A d \in Drones : count[d] = 0 BY DEF Init
  <1>4. ThreeWays
    <2>1. ASSUME NEW d \in Drones PROVE count[d] # 1 /\ ~(count[d] > 0)
      <3>1. count[d] = 0 BY <1>3
      <3> QED BY <3>1
    <2>2. Awaited = {} BY <2>1, Zenon DEF Awaited
    <2> QED BY <1>2, <2>1, <2>2, Zenon DEF ThreeWays
  <1>5. NewAlertLast BY <1>1, NothingDue
  <1>6. NewEntrySettled BY <1>1 DEF NewEntrySettled
  <1>7. EventCounted BY <1>1, EventOrNot DEF EventCounted
  <1> QED BY <1>2, <1>4, <1>5, <1>6, <1>7 DEF DroneInv

\* With no alert on its way, the task holds nothing that the invariant is about.
LEMMA IdleDrones ==
  ASSUME Idle, ThreeWays, EventCounted
  PROVE  Awaited' = {} /\ NewAlertLast' /\ EventCounted'
PROOF
  <1>1. event' = NoEvent /\ todo' = <<>> /\ inserting' = <<>> BY DEF Idle
  <1>2. NoEvent.drone \notin Drones BY AlertAssumption DEF NoEvent
  <1>3. Awaited' = {} BY <1>1, <1>2 DEF Awaited
  <1>4. NewAlertLast' BY <1>1, NothingDue
  <1>5. EventCounted' BY <1>1, EventOrNot DEF EventCounted
  <1> QED BY <1>3, <1>4, <1>5

\* A handler that is left before the end settles the drone it was about.
LEMMA AbandonedSettles ==
  ASSUME TypeOK, ThreeWays, Abandoned
  PROVE  /\ Awaited \subseteq cutShort' /\ cutShort \subseteq cutShort'
         /\ \A d \in cutShort' : d \in cutShort \/ count[d] = 1
PROOF
  <1>1. \A d \in Awaited : d = event.drone /\ count[d] = 1 /\ event # NoEvent
    BY EventOrNot DEF Awaited
  <1>2. CASE event # NoEvent /\ count[event.drone] = 1
    BY <1>1, <1>2 DEF Abandoned
  <1>3. CASE ~(event # NoEvent /\ count[event.drone] = 1)
    BY <1>1, <1>3 DEF Abandoned
  <1> QED BY <1>2, <1>3

\* The transaction of a detection: an unknown drone is awaited, or cut short.
LEMMA ReceiveDrones ==
  ASSUME TypeOK, TaskInv, DroneInv, Receive
  PROVE  DroneInv'
PROOF
  <1> PICK e \in Events :
        /\ count' = [count EXCEPT ![e.drone] = Counted(e.drone)]
        /\ \/ stage' = "evaluate" /\ event' = e /\ UNCHANGED <<todo, inserting, cutShort>>
           \/ /\ cutShort' = IF count[e.drone] = 0 THEN cutShort \cup {e.drone} ELSE cutShort
              /\ UNCHANGED taskVars
    BY DEF Receive
  <1> DEFINE c == e.drone
  <1>1. stage = "idle" /\ event = NoEvent /\ todo = <<>> /\ inserting = <<>>
    BY DEF Receive, TaskInv
  <1>2. UNCHANGED <<dedup, announced, twice>> /\ todo' = <<>> /\ inserting' = <<>>
    BY <1>1 DEF Receive, memVars, taskVars
  <1>3. c \in Drones /\ c = e.drone BY DEF Events
  <1>4. /\ count'[c] = (IF count[c] = 0 THEN 1 ELSE 2)
        /\ \A d \in Drones : d # c => count'[d] = count[d]
        /\ \A d \in Drones : count[d] \in 0..2
    BY <1>3 DEF TypeOK, Counted
  <1>5. Awaited = {} BY <1>1, EventOrNot DEF Awaited
  <1> HIDE DEF c
  <1>6. NewDroneOnce' BY <1>2 DEF DroneInv, NewDroneOnce
  <1>7. NewAlertLast' BY <1>2, NothingDue
  <1>8. CASE stage' = "evaluate" /\ event' = e /\ cutShort' = cutShort
    <2>1. Settled' = Settled BY <1>2, <1>8 DEF Settled
    <2>2. NewEntrySettled' BY <1>1, <1>2, <2>1 DEF DroneInv, NewEntrySettled
    <2>3. EventCounted' BY <1>3, <1>4, <1>8 DEF EventCounted
    <2>4. \A d \in Drones : d \in Awaited' <=> d = c /\ count'[d] = 1
      BY <1>2, <1>3, <1>8 DEF Awaited
    <2>5. ThreeWays' BY <1>3, <1>4, <1>5, <2>1, <2>4 DEF DroneInv, ThreeWays
    <2> QED BY <1>6, <1>7, <2>2, <2>3, <2>5 DEF DroneInv
  <1>9. CASE /\ cutShort' = IF count[e.drone] = 0 THEN cutShort \cup {e.drone} ELSE cutShort
             /\ UNCHANGED taskVars
    <2>1. event' = NoEvent BY <1>1, <1>9 DEF taskVars
    <2>2. Awaited' = {}
      <3>1. NoEvent.drone \notin Drones BY AlertAssumption DEF NoEvent
      <3> QED BY <2>1, <3>1 DEF Awaited
    <2>3. Settled' = IF count[c] = 0 THEN Settled \cup {c} ELSE Settled
      BY <1>2, <1>3, <1>9 DEF Settled
    <2>4. NewEntrySettled' BY <1>1, <1>2, <2>3 DEF DroneInv, NewEntrySettled
    <2>5. EventCounted' BY <2>1, EventOrNot DEF EventCounted
    <2>6. ThreeWays' BY <1>3, <1>4, <1>5, <2>2, <2>3 DEF DroneInv, ThreeWays
    <2> QED BY <1>6, <1>7, <2>4, <2>5, <2>6 DEF DroneInv
  <1> QED BY <1>8, <1>9

\* The alerts of a detection: those of rules 1-4, and then, for a new drone only,
\* the one that says so.
LEMMA AlertsParts ==
  ASSUME NEW e \in Events
  PROVE  /\ \A i \in 1..Len(Alerts(e)) :
              \/ ~IsNewAlert(Alerts(e)[i])
              \/ /\ IsNew(e.drone) /\ i = Len(Alerts(e))
                 /\ Alerts(e)[i] = NewDrone(e.drone, e.node)
         /\ IsNew(e.drone) =>
              \E i \in 1..Len(Alerts(e)) : Alerts(e)[i] = NewDrone(e.drone, e.node)
PROOF
  <1>1. PICK n \in Nat : e.violated \in [1..n -> RuleCategories]
    <2>1. Len(Rules) \in Nat BY AlertAssumption
    <2>2. e.violated \in UNION {[1..n -> RuleCategories] : n \in 0..Len(Rules)}
      BY DEF Events, Violations
    <2> QED BY <2>1, <2>2
  <1> DEFINE f == [i \in DOMAIN e.violated |-> <<e.violated[i], e.drone, e.node>>]
             new == NewDrone(e.drone, e.node)
             a == Alerts(e)
  <1>2. /\ f = [i \in 1..n |-> f[i]]
        /\ \A i \in 1..n : ~IsNewAlert(f[i])
    <2>1. f = [i \in 1..n |-> <<e.violated[i], e.drone, e.node>>] BY <1>1
    <2>2. ASSUME NEW i \in 1..n PROVE ~IsNewAlert(<<e.violated[i], e.drone, e.node>>)
      <3>1. e.violated[i] \in RuleCategories BY <1>1
      <3> QED BY <3>1, NewAlertParts
    <2> QED BY <2>1, <2>2
  <1>3. a = f \o (IF IsNew(e.drone) THEN <<new>> ELSE <<>>) BY Zenon DEF Alerts
  <1> HIDE DEF f, new, a
  <1>4. f \in Seq({f[i] : i \in 1..n}) /\ Len(f) = n
    <2>1. f \in [1..n -> {f[i] : i \in 1..n}] BY <1>2
    <2> QED BY <2>1
  <1>5. CASE IsNew(e.drone)
    <2>1. a = f \o <<new>> BY <1>3, <1>5
    <2>2. Len(a) = n + 1 /\ a[n + 1] = new /\ \A i \in 1..n : a[i] = f[i] BY <1>4, <2>1
    <2>3. ASSUME NEW i \in 1..Len(a) PROVE ~IsNewAlert(a[i]) \/ (i = Len(a) /\ a[i] = new)
      <3>1. i = n + 1 \/ i \in 1..n BY <2>2
      <3> QED BY <1>2, <2>2, <3>1
    <2>4. n + 1 \in 1..Len(a) BY <2>2
    <2> QED BY <1>5, <2>2, <2>3, <2>4 DEF a, new
  <1>6. CASE ~IsNew(e.drone)
    <2>1. a = f \o <<>> BY <1>3, <1>6
    <2>2. Len(a) = n /\ \A i \in 1..n : a[i] = f[i] BY <1>4, <2>1
    <2> QED BY <1>2, <1>6, <2>2 DEF a
  <1> QED BY <1>5, <1>6

\* A step that leaves the handler before its end.
LEMMA AbandonDrones ==
  ASSUME TypeOK, TaskInv, DroneInv, Abandoned, Idle, count' = count, NewDroneOnce',
         announced \subseteq announced',
         \A d \in announced' : d \in announced \/ d \in Awaited,
         \A k \in DOMAIN dedup' : IsNewAlert(k) =>
           k \in DOMAIN dedup /\ (inserting # <<k>> \/ k[2] \in Awaited)
  PROVE  DroneInv'
PROOF
  <1>1. Awaited' = {} /\ NewAlertLast' /\ EventCounted' BY IdleDrones DEF DroneInv
  <1>2. /\ Awaited \subseteq cutShort' /\ cutShort \subseteq cutShort'
        /\ \A d \in cutShort' : d \in cutShort \/ count[d] = 1
    BY AbandonedSettles DEF DroneInv
  <1>3. Settled \cup Awaited \subseteq Settled' BY <1>2 DEF Settled
  <1>4. NewEntrySettled'
    <2> SUFFICES ASSUME NEW k \in DOMAIN dedup', IsNewAlert(k) PROVE k[2] \in Settled'
      BY DEF NewEntrySettled
    <2>1. k \in DOMAIN dedup /\ (inserting # <<k>> \/ k[2] \in Awaited) OBVIOUS
    <2>2. k[2] \in Settled \/ inserting = <<k>> BY <2>1 DEF DroneInv, NewEntrySettled
    <2> QED BY <1>3, <2>1, <2>2
  <1>5. \A d \in Settled' : d \in Settled \/ count[d] = 1
    BY <1>2 DEF Settled, Awaited
  <1>6. ThreeWays'
    <2> SUFFICES ASSUME NEW d \in Drones
                 PROVE  /\ count[d] = 0 => d \notin Settled'
                        /\ count[d] > 0 => d \in Settled'
      BY <1>1 DEF ThreeWays
    <2>1. /\ count[d] = 0 => d \notin Settled
          /\ count[d] > 0 => d \in Settled \cup Awaited
      BY DEF DroneInv, ThreeWays
    <2> QED BY <1>3, <1>5, <2>1
  <1> QED BY <1>1, <1>4, <1>6 DEF DroneInv

\* The evaluation of a new drone's detection makes the alert that was awaited.
LEMMA EvaluateDrones ==
  ASSUME TypeOK, TaskInv, DroneInv, Evaluate
  PROVE  DroneInv'
PROOF
  <1>1. /\ stage = "evaluate" /\ Cleanup /\ event \in Events
        /\ todo = <<>> /\ inserting = <<>>
        /\ UNCHANGED <<count, lastAlert, unwritten, announced, twice>>
    BY DEF Evaluate, TaskInv
  <1>2. DOMAIN dedup' \subseteq DOMAIN dedup BY <1>1, CleanupKeeps
  <1>3. NewDroneOnce' BY <1>1 DEF DroneInv, NewDroneOnce
  <1>4. CASE stage' = "emit" /\ todo' = Alerts(event) /\ UNCHANGED <<event, inserting, cutShort>>
    <2> DEFINE a == Alerts(event)
    <2>1. Settled' = Settled BY <1>1, <1>4 DEF Settled
    <2>2. NewEntrySettled' BY <1>1, <1>2, <1>4, <2>1 DEF DroneInv, NewEntrySettled
    <2>3. EventCounted' BY <1>1, <1>4 DEF DroneInv, EventCounted
    <2>4. \A i \in 1..Len(a) :
            \/ ~IsNewAlert(a[i])
            \/ IsNew(event.drone) /\ i = Len(a) /\ a[i] = NewDrone(event.drone, event.node)
      BY <1>1, AlertsParts
    <2>5. IsNew(event.drone) => \E i \in 1..Len(a) : a[i] = NewDrone(event.drone, event.node)
      BY <1>1, AlertsParts
    <2> HIDE DEF a
    <2>6. todo' = a /\ event' = event /\ inserting' = <<>> /\ count' = count BY <1>1, <1>4 DEF a
    <2>7. NewAlertLast'
      <3>1. \A k : <<>> # <<k>> OBVIOUS
      <3> QED BY <1>1, <2>4, <2>6, <3>1 DEF NewAlertLast, IsNew
    <2>8. Awaited' = Awaited
      <3>1. \A d \in Drones : d \in Awaited <=> event.drone = d /\ count[d] = 1
        BY <1>1 DEF Awaited
      <3>2. \A d \in Drones : d \in Awaited' => event.drone = d /\ count[d] = 1
        BY <2>6 DEF Awaited
      <3>3. ASSUME NEW d \in Drones, event.drone = d, count[d] = 1 PROVE d \in Awaited'
        <4>1. \E i \in 1..Len(a) : a[i] = NewDrone(d, event.node) BY <2>5, <3>3 DEF IsNew
        <4> QED BY <2>6, <3>3, <4>1 DEF Awaited
      <3>4. Awaited \subseteq Drones /\ Awaited' \subseteq Drones BY DEF Awaited
      <3> QED BY <3>1, <3>2, <3>3, <3>4
    <2>9. ThreeWays' BY <1>1, <2>1, <2>8 DEF DroneInv, ThreeWays
    <2> QED BY <1>3, <2>2, <2>3, <2>7, <2>9 DEF DroneInv
  <1>5. CASE Abandoned /\ Idle
    <2>1. \A k : inserting # <<k>> BY <1>1
    <2> QED BY <1>1, <1>2, <1>3, <1>5, <2>1, AbandonDrones
  <1> QED BY <1>4, <1>5 DEF Evaluate

\* An alert of a heartbeat is about no drone.
LEMMA JammedDrones ==
  ASSUME TypeOK, TaskInv, DroneInv, JammedHeartbeat
  PROVE  DroneInv'
PROOF
  <1> PICK n \in Nodes : todo' = <<Jamming(n)>> BY DEF JammedHeartbeat
  <1>1. /\ stage = "idle" /\ Cleanup /\ event = NoEvent /\ inserting = <<>>
        /\ UNCHANGED <<event, inserting, count, history>>
    BY DEF JammedHeartbeat, TaskInv
  <1>2. DOMAIN dedup' \subseteq DOMAIN dedup BY <1>1, CleanupKeeps
  <1>3. NewDroneOnce' BY <1>1 DEF history, DroneInv, NewDroneOnce
  <1>4. Settled' = Settled BY <1>1 DEF history, Settled
  <1>5. NewEntrySettled' BY <1>1, <1>2, <1>4 DEF DroneInv, NewEntrySettled
  <1>6. EventCounted' BY <1>1 DEF DroneInv, EventCounted
  <1>7. NewAlertLast'
    <2>1. Len(todo') = 1 /\ todo'[1] = Jamming(n) OBVIOUS
    <2>2. \A i \in 1..Len(todo') : ~IsNewAlert(todo'[i]) BY <2>1, NewAlertParts
    <2>3. \A k : inserting' # <<k>> BY <1>1
    <2> QED BY <2>2, <2>3 DEF NewAlertLast
  <1>8. Awaited = {} /\ Awaited' = {} BY <1>1, EventOrNot DEF Awaited
  <1>9. ThreeWays' BY <1>1, <1>4, <1>8 DEF DroneInv, ThreeWays
  <1> QED BY <1>3, <1>5, <1>6, <1>7, <1>9 DEF DroneInv

\* A new_drone alert is never suppressed: no entry of its key is left over.
LEMMA NextAlertDrones ==
  ASSUME TypeOK, TaskInv, DroneInv, NextAlert
  PROVE  DroneInv'
PROOF
  <1> DEFINE h == Head(todo)
             t == Tail(todo)
  <1>1. /\ stage = "emit" /\ inserting = <<>>
        /\ todo' = t /\ UNCHANGED <<stage, event, cleaned, count, history>>
    BY DEF NextAlert
  <1>2. /\ Len(todo) > 0 /\ Len(todo) \in Nat /\ Len(t) = Len(todo) - 1
        /\ h = todo[1] /\ h \in Keys /\ \A i \in 1..Len(t) : t[i] = todo[i + 1]
    BY DEF NextAlert, TypeOK
  <1>3. \/ Suppressed(h) /\ UNCHANGED <<dedup, inserting>>
        \/ ~Suppressed(h) /\ Remember(h) /\ inserting' = <<h>>
    BY DEF NextAlert
  <1> HIDE DEF h, t
  <1>4. /\ \A i \in 1..Len(t) : i + 1 \in 1..Len(todo)
        /\ \A i \in 1..Len(todo) : i = 1 \/ (i - 1 \in 1..Len(t) /\ todo[i] = t[i - 1])
        /\ 1 \in 1..Len(todo)
    BY <1>2
  <1>5. /\ NewDroneOnce' /\ Settled' = Settled /\ EventCounted'
    BY <1>1 DEF history, DroneInv, NewDroneOnce, Settled, EventCounted
  <1>6. CASE ~IsNewAlert(h)
    <2>1. \A i \in 1..Len(t) : IsNewAlert(t[i]) =>
            /\ i = Len(t) /\ event \in Events /\ count[event.drone] = 1
            /\ t[i] = NewDrone(event.drone, event.node) /\ <<t[i]>> # <<h>>
      <3> SUFFICES ASSUME NEW i \in 1..Len(t), IsNewAlert(t[i])
                   PROVE  /\ i = Len(t) /\ event \in Events /\ count[event.drone] = 1
                          /\ t[i] = NewDrone(event.drone, event.node) /\ <<t[i]>> # <<h>>
        OBVIOUS
      <3>1. t[i] = todo[i + 1] /\ i + 1 \in 1..Len(todo) BY <1>2, <1>4
      <3>2. /\ i + 1 = Len(todo) /\ event \in Events /\ count[event.drone] = 1
            /\ todo[i + 1] = NewDrone(event.drone, event.node)
        BY <3>1 DEF DroneInv, NewAlertLast
      <3>3. t[i] # h BY <1>6
      <3> QED BY <1>2, <3>1, <3>2, <3>3
    <2>2. NewAlertLast'
      <3>1. \A k : inserting' = <<k>> => k = h BY <1>1, <1>3
      <3>2. inserting' = <<>> \/ inserting' = <<h>> BY <1>1, <1>3
      <3>3. \A i \in 1..Len(t) : IsNewAlert(t[i]) => inserting' # <<t[i]>> BY <2>1, <3>2
      <3> QED BY <1>1, <1>6, <2>1, <3>1, <3>3 DEF NewAlertLast
    <2>3. NewEntrySettled'
      <3>1. \A k \in DOMAIN dedup' : k \in DOMAIN dedup \/ k = h BY <1>3 DEF Remember
      <3>2. \A k : inserting # <<k>> BY <1>1
      <3> QED BY <1>5, <1>6, <3>1, <3>2 DEF DroneInv, NewEntrySettled
    <2>4. Awaited' = Awaited
      <3>1. \A d : h # NewDrone(d, event.node) BY <1>6, NewAlertParts
      <3>2. \A d : inserting # <<NewDrone(d, event.node)>> BY <1>1
      <3>3. \A d : inserting' # <<NewDrone(d, event.node)>> BY <1>1, <1>3, <3>1
      <3>4. \A d : (\E i \in 1..Len(todo) : todo[i] = NewDrone(d, event.node))
                     <=> \E i \in 1..Len(t) : t[i] = NewDrone(d, event.node)
        BY <1>2, <1>4, <3>1
      <3> QED BY <1>1, <3>2, <3>3, <3>4, Zenon DEF Awaited
    <2>5. ThreeWays' BY <1>1, <1>5, <2>4 DEF DroneInv, ThreeWays
    <2> QED BY <1>5, <2>2, <2>3, <2>5 DEF DroneInv
  <1>7. CASE IsNewAlert(h)
    <2>1. /\ Len(todo) = 1 /\ event \in Events /\ count[event.drone] = 1
          /\ h = NewDrone(event.drone, event.node)
      BY <1>2, <1>4, <1>7 DEF DroneInv, NewAlertLast
    <2>2. todo' = <<>>
      <3>1. todo' \in Seq(Keys) /\ Len(todo') = 0 BY <1>1, <1>2, <2>1, StepTypes DEF Next, TypeOK
      <3> QED BY <3>1
    <2>3. event.drone \in Drones BY <2>1 DEF Events
    <2>4. event.drone \in Awaited BY <1>2, <1>4, <2>1, <2>3 DEF Awaited
    <2>5. event.drone \notin Settled BY <2>3, <2>4 DEF DroneInv, ThreeWays
    <2>6. h[2] = event.drone BY <2>1, NewAlertParts
    <2>7. h \notin DOMAIN dedup
      <3>1. inserting # <<h>> BY <1>1
      <3> QED BY <1>7, <2>5, <2>6, <3>1 DEF DroneInv, NewEntrySettled
    <2>8. Remember(h) /\ inserting' = <<h>> BY <1>3, <2>7 DEF Suppressed
    <2>9. NewAlertLast'
      <3>1. 1..Len(todo') = {} BY <2>2
      <3>2. \A k : inserting' = <<k>> => k = h BY <2>8
      <3> QED BY <1>1, <2>1, <2>2, <3>1, <3>2 DEF NewAlertLast
    <2>10. NewEntrySettled'
      <3>1. \A k \in DOMAIN dedup' : k \in DOMAIN dedup \/ k = h BY <2>8 DEF Remember
      <3>2. \A k : inserting # <<k>> BY <1>1
      <3> QED BY <1>5, <2>8, <3>1, <3>2 DEF DroneInv, NewEntrySettled
    <2>11. Awaited' = Awaited
      <3>1. \A d \in Drones : d \in Awaited <=> d = event.drone BY <2>1, <2>4 DEF Awaited
      <3>2. \A d \in Drones : d \in Awaited' => d = event.drone BY <1>1 DEF Awaited
      <3>3. event.drone \in Awaited' BY <1>1, <2>1, <2>3, <2>8 DEF Awaited
      <3>4. Awaited \subseteq Drones /\ Awaited' \subseteq Drones BY DEF Awaited
      <3> QED BY <3>1, <3>2, <3>3, <3>4
    <2>12. ThreeWays' BY <1>1, <1>5, <2>11 DEF DroneInv, ThreeWays
    <2> QED BY <1>5, <2>9, <2>10, <2>12 DEF DroneInv
  <1> QED BY <1>6, <1>7

\* While the row of a new_drone alert is being written, its drone is awaited.
LEMMA NewRow ==
  ASSUME TypeOK, TaskInv, DroneInv, NEW h \in Keys, inserting = <<h>>, IsNewAlert(h)
  PROVE  /\ todo = <<>> /\ event \in Events /\ count[event.drone] = 1
         /\ h = NewDrone(event.drone, event.node) /\ h[2] = event.drone
         /\ event.drone \in Drones /\ event.drone \in Awaited /\ event.drone \notin Settled
PROOF
  <1>1. /\ todo = <<>> /\ event \in Events /\ count[event.drone] = 1
        /\ h = NewDrone(event.drone, event.node)
    BY DEF DroneInv, NewAlertLast
  <1>2. event.drone \in Drones BY <1>1 DEF Events
  <1>3. event.drone \in Awaited BY <1>1, <1>2 DEF Awaited
  <1>4. event.drone \notin Settled BY <1>2, <1>3 DEF DroneInv, ThreeWays
  <1>5. h[2] = event.drone BY <1>1, NewAlertParts
  <1> QED BY <1>1, <1>2, <1>3, <1>4, <1>5

\* A row of a new_drone alert announces the awaited drone, for the first time.
LEMMA AnnounceOnce ==
  ASSUME TypeOK, TaskInv, DroneInv, NEW h \in Keys, inserting = <<h>>, Announce(h)
  PROVE  /\ NewDroneOnce'
         /\ IF IsNewAlert(h) THEN announced' = announced \cup {event.drone}
                             ELSE announced' = announced
PROOF
  <1>1. CASE IsNewAlert(h)
    <2>1. h[2] = event.drone /\ event.drone \notin announced BY <1>1, NewRow DEF Settled
    <2> QED BY <1>1, <2>1 DEF Announce, IsNewAlert, DroneInv, NewDroneOnce
  <1>2. CASE ~IsNewAlert(h)
    BY <1>2 DEF Announce, IsNewAlert, DroneInv, NewDroneOnce
  <1> QED BY <1>1, <1>2

\* The row of the awaited alert settles the drone, written or not.
LEMMA EmitDrones ==
  ASSUME TypeOK, TaskInv, DroneInv, Emit
  PROVE  DroneInv'
PROOF
  <1> DEFINE h == inserting[1]
  <1>1. UNCHANGED memVars /\ count' = count BY DEF Emit
  <1>2. inserting = <<h>> /\ h \in Keys /\ h \in DOMAIN dedup /\ stage = "emit"
    <2>1. inserting # <<>> BY DEF Emit
    <2> QED BY <2>1 DEF TypeOK, TaskInv
  <1>3. WriteRow(h) \/ LoseRow(h) BY DEF Emit
  <1>4. \/ inserting' = <<>> /\ WriteRow(h) /\ UNCHANGED <<stage, event, todo, cutShort>>
        \/ Abandoned /\ Idle
    BY DEF Emit
  <1> HIDE DEF h
  <1>5. \A k : inserting = <<k>> => k = h BY <1>2
  <1>6. IsNewAlert(h) =>
          /\ todo = <<>> /\ h[2] = event.drone /\ count[event.drone] = 1
          /\ event.drone \in Drones /\ event.drone \in Awaited /\ event.drone \notin Settled
    BY <1>2, NewRow
  <1>7. /\ announced' = announced \/ (IsNewAlert(h) /\ announced' = announced \cup {event.drone})
        /\ WriteRow(h) /\ IsNewAlert(h) => announced' = announced \cup {event.drone}
        /\ NewDroneOnce'
    <2>1. CASE WriteRow(h)
      <3>1. Announce(h) BY <2>1 DEF WriteRow
      <3> QED BY <1>2, <3>1, AnnounceOnce
    <2>3. CASE LoseRow(h) /\ ~WriteRow(h) BY <2>3 DEF LoseRow, DroneInv, NewDroneOnce
    <2> QED BY <1>3, <2>1, <2>3
  <1>8. CASE inserting' = <<>> /\ WriteRow(h) /\ UNCHANGED <<stage, event, todo, cutShort>>
    <2>1. EventCounted' BY <1>1, <1>8 DEF DroneInv, EventCounted
    <2>2. NewAlertLast'
      <3>1. \A k : inserting' # <<k>> BY <1>8
      <3> QED BY <1>1, <1>8, <3>1 DEF DroneInv, NewAlertLast
    <2>3. CASE IsNewAlert(h)
      <3>1. Settled' = Settled \cup {event.drone} BY <1>7, <1>8, <2>3 DEF Settled
      <3>2. \A d : inserting' # <<NewDrone(d, event'.node)>> BY <1>8
      <3>3. 1..Len(todo') = {} BY <1>6, <1>8, <2>3
      <3>4. Awaited' = {} BY <1>2, <1>8, <3>2, <3>3 DEF Awaited
      <3>5. \A d \in Awaited : d = event.drone BY DEF Awaited
      <3>6. ThreeWays'
        BY <1>1, <1>6, <2>3, <3>1, <3>4, <3>5 DEF DroneInv, ThreeWays
      <3>7. NewEntrySettled'
        BY <1>1, <1>5, <1>6, <2>3, <3>1 DEF DroneInv, NewEntrySettled, memVars
      <3> QED BY <1>7, <2>1, <2>2, <3>6, <3>7 DEF DroneInv
    <2>4. CASE ~IsNewAlert(h)
      <3>1. Settled' = Settled BY <1>7, <1>8, <2>4 DEF Settled
      <3>2. \A d : inserting' # <<NewDrone(d, event.node)>> BY <1>8
      <3>3. \A d : inserting # <<NewDrone(d, event.node)>> BY <1>5, <2>4, NewAlertParts
      <3>4. Awaited' = Awaited BY <1>1, <1>8, <3>2, <3>3 DEF Awaited
      <3>5. ThreeWays' BY <1>1, <3>1, <3>4 DEF DroneInv, ThreeWays
      <3>6. NewEntrySettled'
        BY <1>1, <1>5, <2>4, <3>1 DEF DroneInv, NewEntrySettled, memVars
      <3> QED BY <1>7, <2>1, <2>2, <3>5, <3>6 DEF DroneInv
    <2> QED BY <2>3, <2>4
  <1>9. CASE Abandoned /\ Idle
    <2>1. announced \subseteq announced' /\ \A d \in announced' : d \in announced \/ d \in Awaited
      BY <1>6, <1>7
    <2>2. \A k \in DOMAIN dedup' : IsNewAlert(k) =>
            k \in DOMAIN dedup /\ (inserting # <<k>> \/ k[2] \in Awaited)
      BY <1>1, <1>5, <1>6 DEF memVars
    <2> QED BY <1>1, <1>7, <1>9, <2>1, <2>2, AbandonDrones
  <1> QED BY <1>4, <1>8, <1>9

\* At the end of a message no drone is awaited.
LEMMA FinishDrones ==
  ASSUME TypeOK, TaskInv, DroneInv, Finish
  PROVE  DroneInv'
PROOF
  <1>1. /\ stage = "emit" /\ inserting = <<>> /\ todo = <<>> /\ Idle
        /\ UNCHANGED <<dedup, count, announced, twice, cutShort>>
    BY DEF Finish, memVars, history
  <1>2. Awaited = {}
    <2>1. 1..Len(todo) = {} /\ \A k : inserting # <<k>> BY <1>1
    <2> QED BY <1>1, <2>1 DEF Awaited
  <1>3. Awaited' = {} /\ NewAlertLast' /\ EventCounted' BY <1>1, IdleDrones DEF DroneInv
  <1>4. Settled' = Settled /\ NewDroneOnce' BY <1>1 DEF Settled, DroneInv, NewDroneOnce
  <1>5. NewEntrySettled'
    <2>1. \A k : inserting # <<k>> BY <1>1
    <2> QED BY <1>1, <1>4, <2>1 DEF DroneInv, NewEntrySettled
  <1>6. ThreeWays' BY <1>1, <1>2, <1>3, <1>4 DEF DroneInv, ThreeWays
  <1> QED BY <1>3, <1>4, <1>5, <1>6 DEF DroneInv

\* A restart settles the awaited drone: with its row or cut short.
LEMMA RestartDrones ==
  ASSUME TypeOK, TaskInv, DroneInv, Restart
  PROVE  DroneInv'
PROOF
  <1>1. Abandoned /\ Idle /\ count' = count BY DEF Restart
  <1>2. /\ NewDroneOnce' /\ announced \subseteq announced'
        /\ \A d \in announced' : d \in announced \/ d \in Awaited
    <2>1. CASE inserting # <<>> /\ Announce(inserting[1])
      <3> PICK h \in Keys : inserting = <<h>> BY <2>1 DEF TypeOK
      <3>1. Announce(h) BY <2>1
      <3>2. /\ NewDroneOnce'
            /\ IF IsNewAlert(h) THEN announced' = announced \cup {event.drone}
                                ELSE announced' = announced
        BY <3>1, AnnounceOnce
      <3>3. IsNewAlert(h) => event.drone \in Awaited BY NewRow
      <3> QED BY <3>2, <3>3
    <2>2. CASE UNCHANGED <<announced, twice>> BY <2>2 DEF DroneInv, NewDroneOnce
    <2> QED BY <2>1, <2>2 DEF Restart
  <1>3. DOMAIN dedup' = {} BY DEF Restart
  <1> QED BY <1>1, <1>2, <1>3, AbandonDrones

\* Every step keeps the invariant of the new drones.
LEMMA StepDrones == TypeOK /\ TaskInv /\ DroneInv /\ [Next]_vars => DroneInv'
PROOF
  <1> SUFFICES ASSUME TypeOK, TaskInv, DroneInv, [Next]_vars PROVE DroneInv' OBVIOUS
  <1> USE DEF DroneInv, ThreeWays, NewAlertLast, NewEntrySettled, EventCounted, NewDroneOnce,
              Awaited, Settled
  <1>1. CASE Tick
    <2>1. DOMAIN dedup' = DOMAIN dedup BY <1>1 DEF Tick
    <2>2. UNCHANGED <<count, stage, event, todo, inserting, announced, twice, cutShort>>
      BY <1>1 DEF Tick, taskVars
    <2> QED BY <2>1, <2>2
  <1>2. CASE UNCHANGED vars
    <2>1. UNCHANGED <<count, stage, event, todo, inserting, dedup, announced, twice, cutShort>>
      BY <1>2 DEF vars, taskVars, memVars, history
    <2> QED BY <2>1
  <1> HIDE DEF DroneInv
  <1> QED
    BY <1>1, <1>2, ReceiveDrones, EvaluateDrones, JammedDrones, NextAlertDrones, EmitDrones,
       FinishDrones, RestartDrones DEF Next

\* The invariant of the new drones.
LEMMA DronesAlways == Spec => [](TypeOK /\ TaskInv /\ DroneInv)
BY InitTypes, StepTypes, InitDrones, StepDrones, PTL DEF Spec

\* NewDroneOnce: the table holds at most one new_drone row for a drone, across
\* redelivered detections, failed inserts and restarts (evaluate, rule 5).
THEOREM AnnouncedOnce == Spec => []NewDroneOnce
PROOF
  <1>1. DroneInv => NewDroneOnce BY DEF DroneInv
  <1> QED BY <1>1, DronesAlways, PTL

\* NewDroneAccounted: a drone with a row in drone_tracks was announced, is being
\* handled, or its first handling was cut short (_handle_detection, evaluate).
THEOREM DronesAccounted == Spec => []NewDroneAccounted
PROOF
  <1>1. TypeOK /\ DroneInv => NewDroneAccounted
    <2> SUFFICES ASSUME DroneInv, NEW d \in Drones, count[d] > 0, event.drone # d
                 PROVE  d \in announced \cup cutShort
      BY DEF NewDroneAccounted
    <2>1. d \in Settled \cup Awaited BY DEF DroneInv, ThreeWays
    <2>2. d \notin Awaited BY DEF Awaited
    <2> QED BY <2>1, <2>2 DEF Settled
  <1> QED BY <1>1, DronesAlways, PTL
=============================================================================
