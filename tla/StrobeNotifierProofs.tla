------------------------ MODULE StrobeNotifierProofs ------------------------
(***************************************************************************)
(* Theorems about StrobeNotifier, for any drones and any cooldown.         *)
(***************************************************************************)
EXTENDS StrobeNotifier, TLAPS

(* Type correctness. *)

\* The notifier starts with its types.
LEMMA TypeInit == Init => TypeOK
PROOF
  <1> SUFFICES ASSUME Init PROVE TypeOK
    OBVIOUS
  <1>1. Cooldown \in 0..Cooldown BY StrobeAssumption
  <1>2. level \in [Drones -> Levels \cup {None}] BY DEF Init
  <1>3. since \in [Drones -> 0..Cooldown] BY <1>1 DEF Init
  <1>4. Cooldown \in 0..Unknown BY StrobeAssumption DEF Unknown
  <1>5. sincePost \in [Drones -> [Levels -> 0..Unknown]] BY <1>4 DEF Init
  <1> QED BY <1>2, <1>3, <1>5 DEF Init, TypeOK, Answers

\* An age counted on stays within the cooldown.
LEMMA OlderType ==
  /\ \A age \in 0..Cooldown : Older(age) \in 0..Cooldown
  /\ \A age \in 0..Unknown : Older(age) \in 0..Unknown
PROOF BY StrobeAssumption DEF Older, Unknown

\* Clearing a drone (algo_notifier 137-159, 187-189) keeps the types.
LEMMA ClearDroneType ==
  ASSUME TypeOK, NEW d \in Drones, ClearDrone(d)
  PROVE  /\ level' \in [Drones -> Levels \cup {None}]
         /\ since' \in [Drones -> 0..Cooldown]
         /\ device' \in Levels \cup {"off", "test"}
         /\ sincePost' \in [Drones -> [Levels -> 0..Unknown]]
         /\ unseen' \in BOOLEAN
PROOF
  <1>1. Cooldown \in 0..Cooldown /\ Cooldown \in 0..Unknown BY StrobeAssumption DEF Unknown
  <1>2. [l \in Levels |-> Cooldown] \in [Levels -> 0..Unknown] BY <1>1
  <1>3. device' \in Levels \cup {"off", "test"} /\ unseen' \in BOOLEAN
    BY DEF ClearDrone, StopRequest, TypeOK, Taken
  <1> QED BY <1>1, <1>2, <1>3 DEF ClearDrone, ForgetPosts, TypeOK

\* A trigger (algo_notifier 88-135), suppressed, failed or not, keeps the types.
LEMMA TriggerType ==
  ASSUME TypeOK, NEW d \in Drones, NEW l \in Levels, Trigger(d, l)
  PROVE  /\ level' \in [Drones -> Levels \cup {None}]
         /\ since' \in [Drones -> 0..Cooldown]
         /\ device' \in Levels \cup {"off", "test"}
         /\ sincePost' \in [Drones -> [Levels -> 0..Unknown]]
         /\ unseen' \in BOOLEAN
PROOF
  <1>1. CASE SuppressedTrigger(d)
    BY <1>1 DEF SuppressedTrigger, notifierVars, TypeOK
  <1>2. CASE TriggerFails(d, l)
    <2>1. Unknown \in 0..Unknown BY StrobeAssumption DEF Unknown
    <2>2. sincePost' \in [Drones -> [Levels -> 0..Unknown]]
      <3>1. [sincePost EXCEPT ![d][l] = Unknown] \in [Drones -> [Levels -> 0..Unknown]]
        BY <2>1 DEF TypeOK
      <3> QED BY <1>2, <3>1 DEF TriggerFails, TypeOK
    <2> QED BY <1>2, <2>2 DEF TriggerFails, TypeOK
  <1>3. CASE TriggerSucceeds(d, l)
    <2>1. 0 \in 0..Cooldown /\ 0 \in 0..Unknown BY StrobeAssumption DEF Unknown
    <2>2. sincePost' \in [Drones -> [Levels -> 0..Unknown]]
      BY <1>3, <2>1 DEF TriggerSucceeds, TypeOK
    <2> QED BY <1>3, <2>1, <2>2 DEF TriggerSucceeds, TypeOK
  <1> QED BY <1>1, <1>2, <1>3 DEF Trigger

\* Every step keeps the types.
LEMMA TypeNext == TypeOK /\ [Next]_vars => TypeOK'
PROOF
  <1> SUFFICES ASSUME TypeOK, [Next]_vars PROVE TypeOK'
    OBVIOUS
  <1>1. CASE Tick
    <2>1. since' \in [Drones -> 0..Cooldown]
      BY <1>1, OlderType DEF Tick, TypeOK
    <2>2. sincePost' \in [Drones -> [Levels -> 0..Unknown]]
      BY <1>1, OlderType DEF Tick, TypeOK
    <2> QED BY <1>1, <2>1, <2>2 DEF Tick, TypeOK
  <1>2. CASE AnswersChange
    BY <1>2 DEF AnswersChange, notifierVars, TypeOK
  <1>3. ASSUME NEW d \in Drones, Evaluates(d) PROVE TypeOK'
    <2>1. PICK top \in Levels \cup {None}, late \in BOOLEAN : BeginEvaluate(d, top, late)
      BY <1>3 DEF Evaluates
    <2>2. work' \in [drone: Drones, top: Levels \cup {None}] /\ answers' = answers
      BY <2>1 DEF BeginEvaluate
    <2>3. CASE ClearDrone(d)
      BY <2>2, <2>3, ClearDroneType DEF TypeOK
    <2>4. CASE UNCHANGED notifierVars
      BY <2>2, <2>4 DEF notifierVars, TypeOK
    <2> QED BY <2>1, <2>3, <2>4 DEF BeginEvaluate
  <1>4. ASSUME NEW d \in Drones, Strobe(d) PROVE TypeOK'
    <2>1. work' = Idle /\ answers' = answers BY <1>4 DEF Strobe
    <2>2. CASE work.top # None /\ Trigger(d, work.top)
      <3>1. work.top \in Levels BY <2>2 DEF TypeOK, Idle
      <3> QED BY <2>1, <2>2, <3>1, TriggerType DEF TypeOK
    <2>3. CASE ClearDrone(d)
      BY <2>1, <2>3, ClearDroneType DEF TypeOK
    <2>4. CASE UNCHANGED notifierVars
      BY <2>1, <2>4 DEF notifierVars, TypeOK
    <2> QED BY <1>4, <2>2, <2>3, <2>4 DEF Strobe
  <1>5. CASE EvaluateFails
    BY <1>5 DEF EvaluateFails, notifierVars, TypeOK
  <1>6. CASE TestFlash BY <1>6 DEF TestFlash, TypeOK
  <1>7. CASE TestEnds BY <1>7 DEF TestEnds, TypeOK
  <1>8. CASE UNCHANGED vars BY <1>8 DEF vars, TypeOK
  <1>9. CASE Restart
    <2>1. Cooldown \in 0..Cooldown /\ Unknown \in 0..Unknown BY StrobeAssumption DEF Unknown
    <2>2. since' \in [Drones -> 0..Cooldown] /\ sincePost' \in [Drones -> [Levels -> 0..Unknown]]
      BY <1>9, <2>1 DEF Restart
    <2>3. level' \in [Drones -> Levels \cup {None}] BY <1>9 DEF Restart
    <2> QED BY <1>9, <2>2, <2>3 DEF Restart, TypeOK
  <1> QED BY <1>1, <1>2, <1>3, <1>4, <1>5, <1>6, <1>7, <1>8, <1>9 DEF Next

\* The state of the notifier and of the device has its types.
THEOREM TypeCorrect == Spec => []TypeOK
PROOF BY TypeInit, TypeNext, PTL DEF Spec

-----------------------------------------------------------------------------
(* The strobe's pattern. *)

FlashInv == TypeOK /\ FlashExplained

\* Every step keeps the explanation of the pattern on the device.
LEMMA FlashNext == FlashInv /\ [Next]_vars => FlashExplained'
PROOF
  <1> SUFFICES ASSUME FlashInv, [Next]_vars PROVE FlashExplained'
    OBVIOUS
  <1> USE DEF FlashInv
  <1>1. ASSUME NEW d \in Drones, ClearDrone(d) PROVE FlashExplained'
    \* The device is off, or it did not take the request.
    <2>1. device' = "off" \/ unseen'
      BY <1>1 DEF ClearDrone, StopRequest
    <2> QED BY <2>1 DEF FlashExplained, Levels
  <1>2. ASSUME NEW d \in Drones, NEW l \in Levels, Trigger(d, l) PROVE FlashExplained'
    <2>1. CASE SuppressedTrigger(d)
      BY <2>1 DEF SuppressedTrigger, notifierVars, FlashExplained
    <2>2. CASE TriggerFails(d, l)
      \* The device is as it was, or it has taken what the notifier thinks failed.
      BY <2>2 DEF TriggerFails, FlashExplained
    <2>3. CASE TriggerSucceeds(d, l)
      <3>1. device' = l /\ level'[d] = l BY <2>3 DEF TriggerSucceeds, TypeOK
      <3> QED BY <3>1 DEF FlashExplained
    <2> QED BY <1>2, <2>1, <2>2, <2>3 DEF Trigger
  <1>3. ASSUME UNCHANGED <<level, device, unseen>> PROVE FlashExplained'
    BY <1>3 DEF FlashExplained
  <1>4. CASE Tick BY <1>4, <1>3 DEF Tick
  <1>5. CASE AnswersChange BY <1>5, <1>3 DEF AnswersChange, notifierVars
  <1>6. ASSUME NEW d \in Drones, Evaluates(d) PROVE FlashExplained'
    <2>1. ClearDrone(d) \/ UNCHANGED notifierVars
      BY <1>6 DEF Evaluates, BeginEvaluate
    <2> QED BY <2>1, <1>1, <1>3 DEF notifierVars
  <1>7. ASSUME NEW d \in Drones, Strobe(d) PROVE FlashExplained'
    <2>1. CASE work.top # None /\ Trigger(d, work.top)
      <3>1. work.top \in Levels BY <2>1 DEF TypeOK, Idle
      <3> QED BY <2>1, <3>1, <1>2
    <2>2. CASE ClearDrone(d) BY <2>2, <1>1
    <2>3. CASE UNCHANGED notifierVars BY <2>3, <1>3 DEF notifierVars
    <2> QED BY <1>7, <2>1, <2>2, <2>3 DEF Strobe
  <1>8. CASE EvaluateFails BY <1>8, <1>3 DEF EvaluateFails, notifierVars
  <1>9. CASE TestFlash BY <1>9 DEF TestFlash, FlashExplained, Levels
  <1>10. CASE TestEnds BY <1>10 DEF TestEnds, FlashExplained, Levels
  <1>11. CASE UNCHANGED vars BY <1>11, <1>3 DEF vars
  <1>12. CASE Restart BY <1>12 DEF Restart, FlashExplained
  <1> QED BY <1>4, <1>5, <1>6, <1>7, <1>8, <1>9, <1>10, <1>11, <1>12 DEF Next

\* A threat pattern on the device is that of a tracked drone, unless a stop failed,
\* an answer was lost or the server was restarted and no request has reached the
\* device since: for any number of drones that share it.
THEOREM FlashAlwaysExplained == Spec => []FlashExplained
PROOF
  <1>1. Init => FlashInv BY TypeInit DEF FlashInv, Init, FlashExplained, Levels
  <1>2. FlashInv /\ [Next]_vars => FlashInv' BY TypeNext, FlashNext DEF FlashInv
  <1>3. FlashInv => FlashExplained BY DEF FlashInv
  <1> QED BY <1>1, <1>2, <1>3, PTL DEF Spec

-----------------------------------------------------------------------------
(* The cooldown. *)

\* The one timestamp kept for a drone is no older than its last post of any
\* level it knows of, and a level above the one kept has not been posted within the
\* cooldown at all: without this the timestamp could forget a post.
PostsRemembered ==
  \A d \in Drones, l \in Levels :
    sincePost[d][l] # Unknown =>
      /\ since[d] <= sincePost[d][l]
      /\ Rank[l] > Rank[level[d]] => sincePost[d][l] = Cooldown

CooldownInv == TypeOK /\ PostsRemembered

\* What is posted has not been posted within the cooldown, as far as the notifier knows.
LEMMA PostedLevelIsOld ==
  ASSUME TypeOK, PostsRemembered, NEW d \in Drones, NEW l \in Levels, ~Suppressed(d, l)
  PROVE  \A m \in Levels : Rank[m] >= Rank[l] => sincePost[d][m] \in {Cooldown, Unknown}
PROOF
  <1> SUFFICES ASSUME NEW m \in Levels, Rank[m] >= Rank[l], sincePost[d][m] # Unknown
               PROVE  sincePost[d][m] = Cooldown
    OBVIOUS
  <1>1. sincePost[d][m] \in 0..Cooldown /\ since[d] \in 0..Cooldown /\ Cooldown \in Nat
    <2>1. sincePost[d][m] \in 0..Unknown /\ since[d] \in 0..Cooldown BY DEF TypeOK
    <2> QED BY <2>1, StrobeAssumption DEF Unknown
  <1>2. since[d] <= sincePost[d][m] BY DEF PostsRemembered
  <1>3. \A x \in Levels \cup {None} : Rank[x] \in Int BY DEF Levels, None, Rank
  <1>4. level[d] \in Levels \cup {None} BY DEF TypeOK
  <1>5. CASE since[d] < Cooldown
    <2>1. ~(Rank[l] <= Rank[level[d]]) BY <1>5 DEF Suppressed
    <2>2. Rank[m] > Rank[level[d]] BY <2>1, <1>3, <1>4
    <2> QED BY <2>2 DEF PostsRemembered
  <1>6. CASE ~(since[d] < Cooldown)
    BY <1>6, <1>1, <1>2
  <1> QED BY <1>5, <1>6

\* Every step keeps the bookkeeping of the cooldown.
LEMMA CooldownNext == CooldownInv /\ [Next]_vars => PostsRemembered'
PROOF
  <1> SUFFICES ASSUME CooldownInv, [Next]_vars
               PROVE  PostsRemembered'
    OBVIOUS
  <1> USE DEF CooldownInv
  <1> Cooldown \in Nat \ {0} /\ Unknown = Cooldown + 1 BY StrobeAssumption DEF Unknown
  <1>1. ASSUME UNCHANGED <<level, since, sincePost>> PROVE PostsRemembered'
    BY <1>1 DEF PostsRemembered
  <1>2. ASSUME NEW d \in Drones, ClearDrone(d) PROVE PostsRemembered'
    <2>1. ASSUME NEW e \in Drones, e # d
          PROVE  since'[e] = since[e] /\ sincePost'[e] = sincePost[e] /\ level'[e] = level[e]
      BY <1>2, <2>1 DEF ClearDrone, ForgetPosts, TypeOK
    <2>2. since'[d] = Cooldown /\ \A l \in Levels : sincePost'[d][l] = Cooldown
      BY <1>2 DEF ClearDrone, ForgetPosts, TypeOK
    <2> QED BY <2>1, <2>2 DEF PostsRemembered
  <1>3. ASSUME NEW d \in Drones, NEW l \in Levels, ~Suppressed(d, l), TriggerSucceeds(d, l)
        PROVE  PostsRemembered'
    <2>1. ASSUME NEW e \in Drones, e # d
          PROVE  since'[e] = since[e] /\ sincePost'[e] = sincePost[e] /\ level'[e] = level[e]
      BY <1>3, <2>1 DEF TriggerSucceeds, TypeOK
    <2>2. since'[d] = 0 /\ level'[d] = l BY <1>3 DEF TriggerSucceeds, TypeOK
    <2>3. \A m \in Levels : sincePost'[d][m] = IF m = l THEN 0 ELSE sincePost[d][m]
      BY <1>3 DEF TriggerSucceeds, TypeOK
    <2>4. \A m \in Levels : Rank[m] >= Rank[l] => sincePost[d][m] \in {Cooldown, Unknown}
      BY <1>3, PostedLevelIsOld
    <2>5. \A m \in Levels : sincePost[d][m] \in 0..Unknown BY DEF TypeOK
    <2>6. \A x \in Levels : Rank[x] \in Int BY DEF Levels, Rank
    <2>7. ASSUME NEW m \in Levels, sincePost'[d][m] # Unknown
          PROVE  /\ since'[d] <= sincePost'[d][m]
                 /\ Rank[m] > Rank[level'[d]] => sincePost'[d][m] = Cooldown
      BY <2>2, <2>3, <2>4, <2>5, <2>6, <2>7
    <2> QED BY <2>1, <2>7 DEF PostsRemembered
  <1>4. ASSUME NEW d \in Drones, NEW l \in Levels, TriggerFails(d, l) PROVE PostsRemembered'
    <2>1. \A e \in Drones, m \in Levels :
            sincePost'[e][m] \in {Unknown, sincePost[e][m]}
      BY <1>4 DEF TriggerFails, TypeOK
    <2> QED BY <1>4, <2>1 DEF TriggerFails, PostsRemembered
  <1>5. ASSUME NEW d \in Drones, NEW l \in Levels, Trigger(d, l) PROVE PostsRemembered'
    BY <1>1, <1>3, <1>4, <1>5 DEF Trigger, SuppressedTrigger, notifierVars
  <1>6. CASE Tick
    <2>1. \A a \in 0..Cooldown, b \in 0..Cooldown : a <= b => Older(a) <= Older(b)
      BY DEF Older
    <2>2. /\ Older(Cooldown) = Cooldown /\ Older(Unknown) = Unknown
          /\ \A b \in 0..Unknown : Older(b) # Unknown => b \in 0..Cooldown
      BY DEF Older
    <2>3. \A d \in Drones, l \in Levels :
            /\ since'[d] = Older(since[d]) /\ sincePost'[d][l] = Older(sincePost[d][l])
            /\ since[d] \in 0..Cooldown /\ sincePost[d][l] \in 0..Unknown
      BY <1>6 DEF Tick, TypeOK
    <2> SUFFICES ASSUME NEW d \in Drones, NEW l \in Levels, sincePost'[d][l] # Unknown
                 PROVE  /\ since'[d] <= sincePost'[d][l]
                        /\ Rank[l] > Rank[level'[d]] => sincePost'[d][l] = Cooldown
      BY DEF PostsRemembered
    <2>4. sincePost[d][l] \in 0..Cooldown /\ sincePost[d][l] # Unknown BY <2>2, <2>3
    <2>5. /\ since[d] <= sincePost[d][l]
          /\ Rank[l] > Rank[level[d]] => sincePost[d][l] = Cooldown
      BY <2>4 DEF PostsRemembered
    <2>6. level' = level BY <1>6 DEF Tick
    <2> QED BY <2>1, <2>2, <2>3, <2>4, <2>5, <2>6
  <1>7. CASE AnswersChange BY <1>7, <1>1 DEF AnswersChange, notifierVars
  <1>8. ASSUME NEW d \in Drones, Evaluates(d) PROVE PostsRemembered'
    <2>1. ClearDrone(d) \/ UNCHANGED notifierVars
      BY <1>8 DEF Evaluates, BeginEvaluate
    <2> QED BY <2>1, <1>1, <1>2 DEF notifierVars
  <1>9. ASSUME NEW d \in Drones, Strobe(d) PROVE PostsRemembered'
    <2>1. CASE work.top # None /\ Trigger(d, work.top)
      <3>1. work.top \in Levels BY <2>1 DEF TypeOK, Idle
      <3> QED BY <2>1, <3>1, <1>5
    <2>2. CASE ClearDrone(d) BY <2>2, <1>2
    <2>3. CASE UNCHANGED notifierVars BY <2>3, <1>1 DEF notifierVars
    <2> QED BY <1>9, <2>1, <2>2, <2>3 DEF Strobe
  <1>10. CASE EvaluateFails BY <1>10, <1>1 DEF EvaluateFails, notifierVars
  <1>11. CASE TestFlash BY <1>11, <1>1 DEF TestFlash
  <1>12. CASE TestEnds BY <1>12, <1>1 DEF TestEnds
  <1>13. CASE Restart
    <2>1. \A d \in Drones, l \in Levels : sincePost'[d][l] = Unknown BY <1>13 DEF Restart
    <2> QED BY <2>1 DEF PostsRemembered
  <1>14. CASE UNCHANGED vars BY <1>14, <1>1 DEF vars
  <1> QED BY <1>6, <1>7, <1>8, <1>9, <1>10, <1>11, <1>12, <1>13, <1>14 DEF Next

\* No level is given to the device twice for a drone within the cooldown without a
\* clear in between, for any cooldown and any mix of levels, unless the notifier lost
\* the first time: to an answer that did not come or to a restart.
THEOREM CooldownKept == Spec => NoRepeatWithinCooldown
PROOF
  <1>1. Init => CooldownInv
    <2> SUFFICES ASSUME Init PROVE PostsRemembered
      BY TypeInit DEF CooldownInv
    <2>1. \A d \in Drones, l \in Levels : since[d] = Cooldown /\ sincePost[d][l] = Cooldown
      BY DEF Init
    <2> QED BY <2>1, StrobeAssumption DEF PostsRemembered
  <1>2. CooldownInv /\ [Next]_vars => CooldownInv'
    BY TypeNext, CooldownNext DEF CooldownInv
  <1>3. CooldownInv =>
          \A d \in Drones, l \in Levels :
            Posts(d, l) => sincePost[d][l] \in {Cooldown, Unknown}
    <2> SUFFICES ASSUME CooldownInv, NEW d \in Drones, NEW l \in Levels, ~Suppressed(d, l)
                 PROVE  sincePost[d][l] \in {Cooldown, Unknown}
      BY DEF Posts
    <2>1. Rank[l] >= Rank[l] BY DEF Levels, Rank
    <2> QED BY <2>1, PostedLevelIsOld DEF CooldownInv
  <1> QED BY <1>1, <1>2, <1>3, PTL DEF Spec, NoRepeatWithinCooldown
=============================================================================
