---------------------------- MODULE ThreatScore ----------------------------
(***************************************************************************)
(* ThreatScorer (aegis-server/analysis/threat_scoring.py): a weighted sum  *)
(* of eight factors.  Factors are percents; what is continuous in the code *)
(* is represented by its ends, its thresholds and points between them.     *)
(***************************************************************************)
EXTENDS Integers

\* What the row of a drone says, as far as the score tells it apart.
Rows == [
  operator:  {"none", "short", "full"},              \* operator_id: absent, < 6, >= 6 characters
  atNull:    BOOLEAN,                                \* lat and lon are 0
  altitude:  {"low", "over400", "over600", "over800"},  \* ft
  uaType:    {"known", "ground_obstacle", "unknown"},
  nodes:     {1, 2, 3},                              \* len(detecting_nodes); 3 is more than 2
  speed:     {"low", "raised", "implausible"},
  age:       {"new", "old", "replayed"},             \* last_seen: < 5 s, 1 minute, > 2 minutes ago
  described: BOOLEAN]

\* Mutant: an ID of any length counts as too short.
NoOperator_Half(r) == IF r.operator = "none" THEN 100 ELSE 50

NoOperator(r) == CASE r.operator = "none" -> 100 [] r.operator = "short" -> 50 [] OTHER -> 0

\* The sigmoid at 0, 250, 400 and 1000 m; the position (0, 0) is suspicious in itself.
Sigmoid(d) == CASE d = "agrees" -> 16 [] d = "at" -> 50 [] d = "beyond" -> 73 [] OTHER -> 99

Mismatch(r, d) ==
  CASE d = "none" -> IF r.atNull THEN 85 ELSE 0
    [] OTHER      -> IF r.atNull /\ Sigmoid(d) < 90 THEN 90 ELSE Sigmoid(d)

\* A ramp from 400 to 800 ft without an operator ID; with one, only from 600 ft on.
Altitude(r) ==
  IF r.operator = "none"
    THEN CASE r.altitude = "over400" -> 25 [] r.altitude = "over600" -> 60
           [] r.altitude = "over800" -> 100 [] OTHER -> 0
    ELSE IF r.altitude \in {"over600", "over800"} THEN 30 ELSE 0

UaType(r) == CASE r.uaType = "unknown" -> 100 [] r.uaType = "ground_obstacle" -> 90 [] OTHER -> 0
FewNodes(r) == CASE r.nodes = 1 -> 100 [] r.nodes = 2 -> 40 [] OTHER -> 0
Speed(r) == CASE r.speed = "implausible" -> 100 [] r.speed = "raised" -> 50 [] OTHER -> 0
Stale(r) == CASE r.age = "replayed" -> 100 [] r.age = "old" -> 48 [] OTHER -> 0

NoDescription(r) == IF r.described THEN 0 ELSE 100

\* WEIGHTS, and the score in tenths of a point, rounded.
Score(r, d) ==
  ( 30 * NoOperator(r) + 25 * Mismatch(r, d) + 15 * Altitude(r) + 8 * UaType(r)
      + 7 * FewNodes(r) + 8 * Speed(r) + 4 * Stale(r) + 3 * NoDescription(r) + 5 ) \div 10

Level(score) == IF score >= 700 THEN "high" ELSE IF score >= 400 THEN "medium" ELSE "low"
=============================================================================
