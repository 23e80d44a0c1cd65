--------------------------- MODULE Trilateration ---------------------------
(***************************************************************************)
(* TrilaterationEngine (aegis-server/analysis/trilateration.py), of one    *)
(* drone: the observations kept, one per node, and what a new one leads    *)
(* to.  An observation carries the time of the node's clock: it may arrive *)
(* late, out of order, or from a clock that is ahead.  Ages are counted in *)
(* ticks up to ObsWindow, from where on all are alike.                     *)
(*                                                                         *)
(* Left out: geometry and least squares.  What they make of the nodes they *)
(* are given is any distance between the position broadcast and the        *)
(* estimate, or a failure.                                                 *)
(***************************************************************************)
EXTENDS Integers, FiniteSets

CONSTANTS
  Nodes,
  MinNodes,    \* MIN_NODES
  ObsWindow,   \* _obs_window_s, in ticks
  Ahead        \* bound of the model: how far a node's clock is ahead, in ticks

ASSUME TrilaterationAssumption ==
  MinNodes \in Nat \ {0} /\ ObsWindow \in Nat \ {0} /\ Ahead \in Nat

ObsAges == -Ahead..ObsWindow

\* mismatch_m and spoof_confidence: the estimate agrees, lies at the threshold of
\* 250 m, beyond it, or far beyond.
Distances == {"agrees", "at", "beyond", "far"}

VARIABLES
  obs,      \* _obs[drone_id]: the ages of the observations kept, by node
  used,     \* the nodes whose observations _compute was given last
  mlat,     \* what update() returned: a distance, or why it returned None:
            \* "weak", "few", "failed"; "none" before
  \* History.
  taken     \* age of the last observation accepted from each node since the start

trilatVars == <<obs, used, mlat, taken>>

NoObs == [n \in {} |-> 0]

TrilatInit ==
  obs = NoObs /\ used = {} /\ mlat = "none" /\ taken = [n \in Nodes |-> ObsWindow]

Ageing(a) == IF a < ObsWindow THEN a + 1 ELSE a

TrilatTick ==
  /\ obs' = [n \in DOMAIN obs |-> Ageing(obs[n])]
  /\ taken' = [n \in Nodes |-> Ageing(taken[n])]
  /\ UNCHANGED <<used, mlat>>

\* Mutant: an observation leaves only when the node sends another.
Recent_All(o) == o

\* The expiry of the drone's observations.
Recent(o) == [n \in {m \in DOMAIN o : o[m] < ObsWindow} |-> o[n]]

\* Mutant: an observation that is older than the one kept is not taken.
Taking_Newest(n, age) ==
  [m \in DOMAIN obs \cup {n} |->
     IF m = n /\ (n \notin DOMAIN obs \/ age < obs[n]) THEN age ELSE obs[m]]

\* One observation per node, whatever its age.
Taking(n, age) == [m \in DOMAIN obs \cup {n} |-> IF m = n THEN age ELSE obs[m]]

\* _compute(): the estimate from the observations kept, or a failure that is logged.
Compute == used' = DOMAIN obs' /\ mlat' \in Distances \cup {"failed"}

\* update(): a reading below MIN_RSSI_DBM leaves everything as it is.
Update(n, age, weak) ==
  IF weak
    THEN used' = {} /\ mlat' = "weak" /\ UNCHANGED <<obs, taken>>
    ELSE /\ taken' = [taken EXCEPT ![n] = age]
         /\ obs' = Recent(Taking(n, age))
         /\ IF Cardinality(DOMAIN obs') < MinNodes
              THEN used' = {} /\ mlat' = "few"
              ELSE Compute

\* The sweep that the update of another drone does every 5 minutes: what is stale
\* altogether goes.
Sweep ==
  /\ obs # NoObs /\ \A n \in DOMAIN obs : obs[n] >= ObsWindow
  /\ obs' = NoObs /\ UNCHANGED <<used, mlat, taken>>

TrilatTypeOK ==
  /\ DOMAIN obs \subseteq Nodes /\ \A n \in DOMAIN obs : obs[n] \in ObsAges
  /\ used \subseteq Nodes /\ mlat \in Distances \cup {"none", "weak", "few", "failed"}
  /\ taken \in [Nodes -> ObsAges]

\* A position is estimated from exactly the nodes whose last accepted reading was taken
\* less than the window ago, by the time it carries, and whenever there are enough of
\* them: no stale reading takes part however readings are delayed, reordered or weak and
\* whenever other drones are swept, and none is left out (update 164-197).
FixFromRecent ==
  [][ LET recent == {n \in Nodes : taken'[n] < ObsWindow} IN
        /\ used' # {} /\ used' # used => used' = recent
        /\ mlat' = "few" /\ mlat # "few" => Cardinality(recent) < MinNodes
        /\ mlat' \in Distances => Cardinality(used') >= MinNodes ]_trilatVars
=============================================================================
