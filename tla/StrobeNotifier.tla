--------------------------- MODULE StrobeNotifier ---------------------------
(***************************************************************************)
(* The strobe of aegis-server: AlgoNotifier                                *)
(* (integrations/algo_notifier.py) as AlertEngine.evaluate drives it       *)
(* (mqtt/alert_engine.py 157-190), and the device behind it.               *)
(*                                                                         *)
(* The subscriber evaluates one detection at a time, so `work' holds the   *)
(* one evaluation under way; the test flash comes from an API task and     *)
(* runs between any two of its requests.  Time is counted in ticks and     *)
(* only as far as the cooldown, so nothing else bounds the model; a        *)
(* request is shorter than a tick, and the state a request leaves in the   *)
(* notifier is written in the same step.  The server may be restarted at   *)
(* any moment; the device goes on with what it does.  Left out: the        *)
(* _last_trigger_* fields the status endpoint shows, and the disabled      *)
(* notifier, which does nothing.                                           *)
(***************************************************************************)
EXTENDS Integers

CONSTANTS
  Drones,
  Cooldown   \* algo_8128_cooldown_seconds, in ticks

ASSUME StrobeAssumption == Cooldown \in Nat \ {0}

Levels == {"low", "medium", "high"}
None   == "none"     \* no level: not tracked, or no rule violated
Answers == {"ok", "refused", "unanswered"}

\* A post the notifier knows nothing of.
Unknown == Cooldown + 1

\* _RANK
Rank == [none |-> -1, low |-> 0, medium |-> 1, high |-> 2]

VARIABLES
  level,      \* level of _drone_state[d]
  since,      \* ticks since the timestamp of _drone_state[d], up to Cooldown
  device,     \* the last command the device took: "off", "test" or a level
  answers,    \* what becomes of a request sent now: the device takes and
              \* answers it, never gets it, or takes it and the answer is lost
  work,       \* the evaluation under way: its drone and top rule level
  \* History.
  sincePost,  \* ticks since the device last took the level for the drone, up to
              \* Cooldown; Cooldown too when the drone has been cleared since; Unknown
              \* when the answer was lost or the server was restarted since
  unseen      \* a stop failed, an answer was lost or the server was restarted, and
              \* the device has been set by no other request since

vars == <<level, since, device, answers, work, sincePost, unseen>>

notifierVars == <<level, since, device, sincePost, unseen>>

Idle == [drone |-> None, top |-> None]

Init ==
  /\ level = [d \in Drones |-> None]
  /\ since = [d \in Drones |-> Cooldown]
  /\ device = "off"
  /\ work = Idle
  /\ sincePost = [d \in Drones |-> [l \in Levels |-> Cooldown]]
  /\ unseen = FALSE
  /\ answers = "ok"

Older(age) == IF age < Cooldown THEN age + 1 ELSE age

Tick ==
  /\ since' = [d \in Drones |-> Older(since[d])]
  /\ sincePost' = [d \in Drones |-> [l \in Levels |-> Older(sincePost[d][l])]]
  /\ UNCHANGED <<level, device, answers, work, unseen>>

\* The network between the server and the device, and the device, change.
AnswersChange ==
  /\ answers' \in Answers \ {answers}
  /\ UNCHANGED <<notifierVars, work>>

-----------------------------------------------------------------------------
Taken    == answers # "refused"   \* the device takes the request
Answered == answers = "ok"        \* and the notifier knows

\* Mutant: a stop request that fails is taken for one that succeeded.
StopRequest_FailureIgnored ==
  /\ device' = IF Taken THEN "off" ELSE device
  /\ unseen' = FALSE

\* The request of clear(): {"action": "stop"} stops the device, whichever drone
\* set it off; a failure is logged.
StopRequest ==
  /\ device' = IF Taken THEN "off" ELSE device
  /\ unseen' = ~Taken

\* What was posted for the drone counts no more.
ForgetPosts(d) == sincePost' = [sincePost EXCEPT ![d] = [l \in Levels |-> Cooldown]]

\* Mutant: the drone is not forgotten, its level is blanked.
ClearDrone_Blank(d) ==
  /\ StopRequest
  /\ level' = [level EXCEPT ![d] = "off"]
  /\ since' = [since EXCEPT ![d] = Cooldown]
  /\ ForgetPosts(d)

\* clear(), then clear_drone_state(d), which the result of clear() does not stop.
ClearDrone(d) ==
  /\ StopRequest
  /\ level' = [level EXCEPT ![d] = None]
  /\ since' = [since EXCEPT ![d] = Cooldown]
  /\ ForgetPosts(d)

\* Mutant: an escalation is not what is compared, any change of level is.
Suppressed_OtherLevel(d, l) == l = level[d] /\ since[d] < Cooldown

\* trigger(): the same or a lower level within the cooldown.
Suppressed(d, l) == Rank[l] <= Rank[level[d]] /\ since[d] < Cooldown

\* Mutant: a trigger that is suppressed starts the cooldown again.
SuppressedTrigger_Restarts(d) ==
  /\ since' = [since EXCEPT ![d] = 0]
  /\ UNCHANGED <<level, device, sincePost, unseen>>

SuppressedTrigger(d) == UNCHANGED notifierVars

\* A request that fails leaves no state, although the device may have taken it.
TriggerFails(d, l) ==
  /\ UNCHANGED <<level, since>>
  /\ \/ ~Taken /\ UNCHANGED <<device, sincePost, unseen>>
     \/ /\ Taken /\ ~Answered
        /\ device' = l /\ unseen' = TRUE
        /\ sincePost' = [sincePost EXCEPT ![d][l] = Unknown]

TriggerSucceeds(d, l) ==
  /\ Answered
  /\ device' = l /\ unseen' = FALSE
  /\ level' = [level EXCEPT ![d] = l]
  /\ since' = [since EXCEPT ![d] = 0]
  /\ sincePost' = [sincePost EXCEPT ![d][l] = 0]

\* trigger(l, d) up to its return.
Trigger(d, l) ==
  \/ Suppressed(d, l) /\ SuppressedTrigger(d)
  \/ ~Suppressed(d, l) /\ (TriggerFails(d, l) \/ TriggerSucceeds(d, l))

-----------------------------------------------------------------------------
\* evaluate() up to 165: top is the highest level of the rules the detection
\* violates.  quiet_s is NOW() minus the timestamp the detection itself has just
\* written to last_seen, so it says whether this detection arrived late.
BeginEvaluate(d, top, late) ==
  /\ work = Idle
  /\ work' = [drone |-> d, top |-> top]
  /\ IF late /\ level[d] # None
       THEN ClearDrone(d)
       ELSE UNCHANGED notifierVars
  /\ UNCHANGED answers

\* 176-190: trigger at the top level, or clear a drone that was tracked.
Strobe(d) ==
  /\ work.drone = d
  /\ work' = Idle
  /\ \/ work.top # None /\ Trigger(d, work.top)
     \/ work.top = None /\ level[d] # None /\ ClearDrone(d)
     \/ work.top = None /\ level[d] = None /\ UNCHANGED notifierVars
  /\ UNCHANGED answers

\* An exception from the SELECT or from an alert's INSERT leaves evaluate()
\* before the strobe logic.
EvaluateFails ==
  /\ work # Idle
  /\ work' = Idle
  /\ UNCHANGED <<notifierVars, answers>>

\* test_flash() from the API; one the device does not take changes nothing.
TestFlash ==
  /\ Taken
  /\ device' = "test" /\ unseen' = FALSE
  /\ UNCHANGED <<level, since, answers, work, sincePost>>

\* The device ends the test pattern after its 5 s.
TestEnds ==
  /\ device = "test"
  /\ device' = "off"
  /\ UNCHANGED <<level, since, answers, work, sincePost, unseen>>

\* The server is restarted: a new notifier, whose _drone_state is empty.  Nothing
\* is sent to the device, at the end or at the start.
Restart ==
  /\ level' = [d \in Drones |-> None]
  /\ since' = [d \in Drones |-> Cooldown]
  /\ work' = Idle
  /\ sincePost' = [d \in Drones |-> [l \in Levels |-> Unknown]]
  /\ unseen' = TRUE
  /\ UNCHANGED <<device, answers>>

Evaluates(d) ==
  \E top \in Levels \cup {None}, late \in BOOLEAN : BeginEvaluate(d, top, late)

Next ==
  \/ Tick \/ AnswersChange
  \/ \E d \in Drones : Evaluates(d) \/ Strobe(d)
  \/ EvaluateFails \/ TestFlash \/ TestEnds \/ Restart

Spec == Init /\ [][Next]_vars

\* Time passes, an evaluation begun is finished, a test pattern ends.  Nothing
\* makes a drone broadcast or the device answer.
Fairness ==
  /\ WF_vars(Tick) /\ WF_vars(TestEnds)
  /\ WF_vars(\E d \in Drones : Strobe(d))

FairSpec == Spec /\ Fairness

-----------------------------------------------------------------------------
(* Properties. *)

TypeOK ==
  /\ level \in [Drones -> Levels \cup {None}]
  /\ since \in [Drones -> 0..Cooldown]
  /\ device \in Levels \cup {"off", "test"}
  /\ work \in [drone: Drones, top: Levels \cup {None}] \cup {Idle}
  /\ sincePost \in [Drones -> [Levels -> 0..Unknown]]
  /\ answers \in Answers
  /\ unseen \in BOOLEAN

\* If the device flashes a threat pattern, the notifier tracks a drone at that
\* level; or the two have lost touch: a stop did not reach the device, a request it
\* carried out was not answered, or the server was restarted, which tells the device
\* nothing, and no other request has reached it since.  Nothing else lets the
\* pattern of one drone outlive the state kept for it, although all drones share one
\* device (__init__ 55-66, trigger 88-135, clear 137-159, clear_drone_state).
FlashExplained ==
  device \in Levels => unseen \/ \E d \in Drones : level[d] = device

\* The device takes the level of an evaluation for its drone.
Posts(d, l) == work.top = l /\ Strobe(d) /\ ~Suppressed(d, l) /\ Taken

\* Until the drone is cleared, the device is not given a level twice for it within
\* the cooldown, whatever other levels are posted in between (algo_notifier 20-21,
\* 105-108), unless the notifier does not know of the first time: the device took the
\* request and its answer was lost (116-126), or the server was restarted since.
NoRepeatWithinCooldown ==
  [][\A d \in Drones, l \in Levels :
       Posts(d, l) => sincePost[d][l] \in {Cooldown, Unknown}]_vars

\* A drone that goes on violating a rule while the device can be reached is
\* flashed again and again, although its triggers are suppressed most of the
\* time and the stop of any other drone turns the device off.
Violates(d) == work.drone = d /\ work.top # None /\ Strobe(d)

ActiveThreatFlashesAgain ==
  \A d \in Drones :
    []<><<Violates(d)>>_vars /\ <>[](answers = "ok") => []<>(device \in Levels)

\* Documented (aegis-server/README.md 54): the strobe is cleared, and a stop
\* command sent, when the drone stops broadcasting for more than 60 seconds.
\* When all of them have stopped, none is left with a flashing strobe.
QuietDroneCleared ==
  <>[][~\E d \in Drones : Evaluates(d)]_vars /\ <>[](answers = "ok")
    => \A d \in Drones : []<>(level[d] = None \/ device \notin Levels)
=============================================================================
