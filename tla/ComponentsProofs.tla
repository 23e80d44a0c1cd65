-------------------------- MODULE ComponentsProofs --------------------------
(***************************************************************************)
(* Theorems about the GPS thread, a Wi-Fi adapter, the reassembly of       *)
(* extended advertisements and the Bluetooth thread of a node, and about   *)
(* what the variables of all the components of MCComponents can hold.      *)
(***************************************************************************)
EXTENDS MCComponents, AnalysisProofs, SequenceTheorems

-----------------------------------------------------------------------------
(* GpsDaemon. *)

\* What SurveyHonest rests on, while no finished survey failed to reach the file: a port
\* is open only where it is used, and only a u-blox receiver is initialised as one; a
\* report in the port is of the survey the receiver has done, unless it is not needed any
\* more; and the flag is never up without a file, but while the file is written.
PortInv ==
  /\ port = "open" => gpsThread \in {"init", "read", "save"}
  /\ isUblox /\ gpsThread \in {"open", "init", "read", "save"} => active = "ublox"
  /\ gpsThread = "save" => surveyed # Unset

SvinInv ==
  ~notSaved =>
    /\ svin # Unset => port = "open" /\ active = "ublox"
    /\ svin # Unset /\ ~surveyComplete => rcv.mode = "done" /\ rcv.at = svin
    /\ surveyComplete => survey # Unset \/ gpsThread = "save"

GpsInv == PortInv /\ SvinInv /\ SurveyHonest

\* It holds initially.
LEMMA GpsInvInit == GpsInit => GpsInv
BY DEF GpsInit, FreshDaemon, GpsInv, PortInv, SvinInv, SurveyHonest

\* Each step keeps it.
LEMMA GpsInvStep == GpsInv /\ [GpsNext]_gpsVars => GpsInv'
<1> SUFFICES ASSUME GpsInv, [GpsNext]_gpsVars PROVE GpsInv'
  OBVIOUS
<1> USE DEF GpsInv, PortInv, SvinInv, SurveyHonest, gpsDaemonVars, receiverVars
<1>1. CASE DetectPort  BY <1>1 DEF DetectPort
<1>2. CASE EndDetect   BY <1>2 DEF EndDetect
<1>3. CASE Identify    BY <1>3 DEF Identify
<1>4. CASE OpenPort    BY <1>4 DEF OpenPort
<1>5. CASE InitUblox
  <2>1. CASE Saved
    <3>1. /\ surveyComplete' = TRUE /\ rcv'.mode = "fixed" /\ rcv'.at = survey
          /\ survey' = survey /\ survey # Unset
      BY <1>5, <2>1 DEF InitUblox, Saved
    <3>2. ~notSaved' => ~notSaved
      BY <1>5 DEF InitUblox
    <3> QED
      BY <1>5, <3>1, <3>2 DEF InitUblox
  <2>2. CASE ~Saved
    <3>1. ~notSaved' => ~notSaved /\ ~surveyComplete /\ svin = Unset
      BY <1>5, <2>2 DEF InitUblox, Saved
    <3> QED
      BY <1>5, <2>2, <3>1 DEF InitUblox
  <2> QED
    BY <2>1, <2>2
<1>6. CASE InitFails   BY <1>6 DEF InitFails, Saved
<1>7. CASE Sleep       BY <1>7 DEF Sleep
<1>8. CASE ParseNavPvt BY <1>8 DEF ParseNavPvt, TakeFix, LoseFix
<1>9. CASE ParseNmea   BY <1>9 DEF ParseNmea, TakeFix, LoseFix
<1>10. CASE ParseNavSvin BY <1>10 DEF ParseNavSvin
<1>11. CASE SaveSurvey BY <1>11 DEF SaveSurvey
<1>12. CASE ReadEnds   BY <1>12 DEF ReadEnds
<1>13. CASE PlugIn     BY <1>13 DEF PlugIn
<1>14. CASE Unplug     BY <1>14 DEF Unplug, PowerUp
<1>15. CASE Carry      BY <1>15 DEF Carry
<1>16. CASE SurveyEnds BY <1>16 DEF SurveyEnds
<1>17. CASE ReportSvin BY <1>17 DEF ReportSvin
<1>18. CASE GpsRestart BY <1>18 DEF GpsRestart
<1>19. CASE StopGps    BY <1>19 DEF StopGps
<1>20. CASE UNCHANGED gpsVars BY <1>20 DEF gpsVars
<1> QED
  BY <1>1, <1>2, <1>3, <1>4, <1>5, <1>6, <1>7, <1>8, <1>9, <1>10, <1>11, <1>12, <1>13, <1>14, <1>15,
     <1>16, <1>17, <1>18, <1>19, <1>20 DEF GpsNext, GpsDaemonNext

\* survey_complete is true of the receiver unless a finished survey did not reach the file
\* (heartbeat_extras, _init_ublox, _parse_nav_svin), for any places, restarts and receivers.
THEOREM SurveyClaimHonest == GpsSpec => []SurveyHonest
<1>1. GpsInv => SurveyHonest
  BY DEF GpsInv
<1> QED
  BY <1>1, GpsInvInit, GpsInvStep, PTL DEF GpsSpec

-----------------------------------------------------------------------------
(* WifiScanner. *)

Ages == -MaxSlip..Capped

\* The memory of a drone and the true time since its publication differ by what the clock
\* was stepped by, in both directions, unless the publisher refused it since then.
DriftInv ==
  /\ slip \in 0..MaxSlip
  /\ seenAge \in [Drones -> Ages] /\ sincePub \in [Drones -> 0..Capped]
  /\ refused \in [Drones -> BOOLEAN]
  /\ \A d \in Drones :
       /\ seenAge[d] <= sincePub[d] + slip /\ seenAge[d] >= slip - MaxSlip
       /\ ~refused[d] => seenAge[d] >= sincePub[d] + slip - MaxSlip
       /\ outcome = [of |-> d, as |-> "suppressed"] => sincePub[d] < Window + MaxSlip \/ refused[d]

\* Nothing is remembered of any drone at first, and nothing was published.
LEMMA DriftInit == WifiInit => DriftInv
<1> SUFFICES ASSUME WifiInit PROVE DriftInv
  OBVIOUS
<1>1. Window \in Nat /\ MaxSlip \in Nat
  BY WifiAssumption
<1>2. Capped \in Nat /\ Capped = Window + MaxSlip
  BY <1>1 DEF Capped
<1>3. \A d : outcome # [of |-> d, as |-> "suppressed"]
  BY DEF WifiInit, Nothing
<1> QED
  BY <1>1, <1>2, <1>3 DEF WifiInit, DriftInv, Ages

\* Each step keeps it.
LEMMA DriftStep == DriftInv /\ [WifiNext]_wifiVars => DriftInv'
<1> SUFFICES ASSUME DriftInv, [WifiNext]_wifiVars PROVE DriftInv'
  OBVIOUS
<1> USE DEF DriftInv, Ages
<1>0. Window \in Nat /\ MaxSlip \in Nat /\ Capped \in Nat /\ Capped = Window + MaxSlip
  BY WifiAssumption DEF Capped
<1>a. \A d : Nothing # [of |-> d, as |-> "suppressed"]
  BY DEF Nothing
<1>b. CASE UNCHANGED dedupVars
  BY <1>b DEF dedupVars
<1>1. CASE StartWifi  BY <1>1, <1>b DEF StartWifi
<1>2. CASE SniffFails BY <1>2, <1>b DEF SniffFails
<1>3. CASE RetrySniff BY <1>3, <1>b DEF RetrySniff
<1>4. CASE EndWifi    BY <1>4, <1>b DEF EndWifi
<1>5. CASE Hop        BY <1>5, <1>b DEF Hop
<1>6. CASE WifiTick
  <2>1. \A d \in Drones : seenAge'[d] = Upto(seenAge[d] + 1) /\ sincePub'[d] = Upto(sincePub[d] + 1)
    BY <1>6 DEF WifiTick
  <2>2. \A t \in Int : Upto(t) = IF t > Capped THEN Capped ELSE t
    BY DEF Upto
  <2>3. \A d \in Drones : seenAge[d] \in Ages /\ sincePub[d] \in 0..Capped
    OBVIOUS
  <2>4. \A d \in Drones : seenAge'[d] \in Ages /\ sincePub'[d] \in 0..Capped
    BY <1>0, <2>1, <2>2, <2>3
  <2>5. seenAge' \in [Drones -> Ages] /\ sincePub' \in [Drones -> 0..Capped]
    BY <1>6, <2>1, <2>4 DEF WifiTick
  <2>6. \A d \in Drones : seenAge'[d] <= sincePub'[d] + slip /\ seenAge'[d] >= slip - MaxSlip
    BY <1>0, <2>1, <2>2, <2>3
  <2>7. \A d \in Drones : ~refused[d] => seenAge'[d] >= sincePub'[d] + slip - MaxSlip
    BY <1>0, <2>1, <2>2, <2>3
  <2> QED
    BY <1>a, <1>6, <2>5, <2>6, <2>7 DEF WifiTick
<1>7. CASE StepClock
  <2>1. PICK s \in 0..MaxSlip \ {slip} :
          slip' = s /\ seenAge' = [d \in Drones |-> Upto(seenAge[d] + (s - slip))]
    BY <1>7 DEF StepClock
  <2>2. \A t \in Int : Upto(t) = IF t > Capped THEN Capped ELSE t
    BY DEF Upto
  <2>3. \A d \in Drones : seenAge[d] \in Ages /\ sincePub[d] \in 0..Capped
    OBVIOUS
  <2>4. \A d \in Drones : seenAge'[d] = IF seenAge[d] + (s - slip) > Capped THEN Capped
                                        ELSE seenAge[d] + (s - slip)
    BY <1>0, <2>1, <2>2, <2>3
  <2>5. sincePub' = sincePub /\ refused' = refused /\ outcome' = Nothing
    BY <1>7 DEF StepClock
  <2>6. \A d \in Drones : seenAge'[d] <= sincePub[d] + s /\ seenAge'[d] >= s - MaxSlip
    BY <1>0, <2>1, <2>3, <2>4
  <2>7. \A d \in Drones : ~refused[d] => seenAge'[d] >= sincePub[d] + s - MaxSlip
    BY <1>0, <2>1, <2>3, <2>4
  <2>8. \A d \in Drones : seenAge'[d] \in Ages
    BY <1>0, <2>1, <2>3, <2>4, <2>6
  <2>9. seenAge' \in [Drones -> Ages]
    BY <2>1, <2>8
  <2> QED
    BY <1>a, <2>1, <2>5, <2>6, <2>7, <2>9
<1>8. CASE HandlePacket
  <2>1. PICK d \in Drones : Deduplicate(d)
    BY <1>8 DEF HandlePacket, Process, ProcessBeacon
  <2>2. slip' = slip
    BY <1>8 DEF HandlePacket
  <2>3. CASE seenAge[d] < Window
    <3>1. /\ seenAge' = seenAge /\ sincePub' = sincePub /\ refused' = refused
          /\ outcome' = [of |-> d, as |-> "suppressed"]
      BY <2>1, <2>3 DEF Deduplicate, Suppress
    <3>2. \A e \in Drones : outcome' = [of |-> e, as |-> "suppressed"] => e = d
      BY <3>1
    <3>3. sincePub[d] < Window + MaxSlip \/ refused[d]
      BY <1>0, <2>3
    <3> QED
      BY <2>2, <3>1, <3>2, <3>3
  <2>4. CASE ~(seenAge[d] < Window)
    <3>1. seenAge' = [seenAge EXCEPT ![d] = 0]
      BY <2>1, <2>4 DEF Deduplicate, Publish
    <3>2. \A e \in Drones : outcome' # [of |-> e, as |-> "suppressed"]
      BY <2>1, <2>4 DEF Deduplicate, Publish
    <3>3. CASE sincePub' = [sincePub EXCEPT ![d] = 0] /\ refused' = [refused EXCEPT ![d] = FALSE]
      BY <1>0, <2>2, <3>1, <3>2, <3>3
    <3>4. CASE refused' = [refused EXCEPT ![d] = TRUE] /\ sincePub' = sincePub
      BY <1>0, <2>2, <3>1, <3>2, <3>4
    <3> QED
      BY <2>1, <2>4, <3>3, <3>4 DEF Deduplicate, Publish
  <2> QED
    BY <2>3, <2>4
<1>9. CASE StopWifi BY <1>9, <1>b DEF StopWifi
<1>10. CASE UNCHANGED wifiVars BY <1>10, <1>b DEF wifiVars
<1> QED
  BY <1>1, <1>2, <1>3, <1>4, <1>5, <1>6, <1>7, <1>8, <1>9, <1>10 DEF WifiNext

\* What a packet is not about keeps its outcome, and a publication or a suppression is
\* as far from the last publication as OncePerWindow says.
LEMMA WindowStep ==
  ASSUME DriftInv, DriftInv', [WifiNext]_wifiVars, NEW d \in Drones
  PROVE  /\ outcome' = [of |-> d, as |-> "published"] /\ outcome' # outcome
              => sincePub[d] >= Window - MaxSlip
         /\ outcome' = [of |-> d, as |-> "suppressed"]
              => sincePub[d] < Window + MaxSlip \/ refused[d]
<1>0. Window \in Nat /\ MaxSlip \in Nat /\ Capped \in Nat /\ Capped = Window + MaxSlip
  BY WifiAssumption DEF Capped
<1>a. \A w \in {"published", "suppressed"} : Nothing # [of |-> d, as |-> w]
  BY DEF Nothing
<1>1. CASE outcome' = outcome
  BY <1>1 DEF DriftInv
<1>2. CASE outcome' # outcome
  <2>1. CASE outcome' = Nothing
    BY <1>a, <2>1
  <2>2. CASE HandlePacket
    <3>1. PICK e \in Drones : Deduplicate(e)
      BY <2>2 DEF HandlePacket, Process, ProcessBeacon
    <3>2. seenAge[e] \in Int /\ sincePub[e] \in Int /\ slip \in 0..MaxSlip
      BY <1>0 DEF DriftInv, Ages
    <3>3. CASE seenAge[e] < Window
      <4>1. outcome' = [of |-> e, as |-> "suppressed"]
        BY <3>1, <3>3 DEF Deduplicate, Suppress
      <4>2. sincePub[e] < Window + MaxSlip \/ refused[e]
        BY <1>0, <3>2, <3>3 DEF DriftInv
      <4> QED
        BY <4>1, <4>2
    <3>4. CASE ~(seenAge[e] < Window)
      <4>1. PICK w \in {"published", "refused"} : outcome' = [of |-> e, as |-> w]
        BY <3>1, <3>4 DEF Deduplicate, Publish
      <4>2. sincePub[e] >= Window - MaxSlip
        BY <1>0, <3>2, <3>4 DEF DriftInv
      <4> QED
        BY <4>1, <4>2
    <3> QED
      BY <3>3, <3>4
  <2>3. CASE UNCHANGED dedupVars
    BY <1>2, <2>3 DEF dedupVars
  <2>4. CASE StartWifi \/ SniffFails \/ RetrySniff \/ EndWifi \/ Hop \/ StopWifi
    BY <2>3, <2>4 DEF StartWifi, SniffFails, RetrySniff, EndWifi, Hop, StopWifi
  <2>5. CASE WifiTick \/ StepClock
    BY <2>1, <2>5 DEF WifiTick, StepClock
  <2>6. CASE UNCHANGED wifiVars
    BY <2>3, <2>6 DEF wifiVars, dedupVars
  <2> QED
    BY <2>2, <2>4, <2>5, <2>6 DEF WifiNext
<1> QED
  BY <1>1, <1>2

\* A drone heard without a pause is published once a window, up to what the clock was
\* stepped by (_process, _process_beacon), for any drones, window and steps of the clock.
THEOREM PublishedOncePerWindow == WifiSpec => OncePerWindow
<1>1. DriftInv /\ DriftInv' /\ [WifiNext]_wifiVars =>
        [ \A d \in Drones :
            /\ outcome' = [of |-> d, as |-> "published"] /\ outcome' # outcome
                 => sincePub[d] >= Window - MaxSlip
            /\ outcome' = [of |-> d, as |-> "suppressed"]
                 => sincePub[d] < Window + MaxSlip \/ refused[d] ]_wifiVars
  BY WindowStep
<1> QED
  BY <1>1, DriftInit, DriftStep, PTL DEF WifiSpec, OncePerWindow

-----------------------------------------------------------------------------
(* ExtReassembler. *)

Piece == BOOLEAN \X Nat

\* The types of what add() handles.
PartsType ==
  /\ DOMAIN parts \subseteq Advertisers
  /\ \A a \in DOMAIN parts : parts[a] \in [age: 0..MaxAge + 1, buf: Seq(Piece)]
  /\ sending \in [Advertisers -> Seq(Piece)] /\ odd \in [Advertisers -> BOOLEAN]
  /\ age \in [Advertisers -> 0..MaxAge + 1] /\ lossy \in [Advertisers -> BOOLEAN]

IsEndOf(t, s) == \E k \in 1..Len(s) + 1 : t = SubSeq(s, k, Len(s))

\* While no report was lost, the buffer of a transmitter holds what was sent of its advert,
\* or an end of it once the advert is late.
Buffered(a) ==
  \/ sending[a] = <<>> /\ a \notin DOMAIN parts
  \/ /\ sending[a] # <<>> /\ a \in DOMAIN parts
     /\ parts[a].buf = sending[a] /\ parts[a].age = age[a]
  \/ sending[a] # <<>> /\ age[a] > MaxAge /\ IsEndOf(Begun(a).buf, sending[a])

BufferInv ==
  \A a \in Advertisers : (sending[a] = <<>> => age[a] = 0) /\ (~lossy[a] => Buffered(a))

JoinInv == PartsType /\ BufferInv /\ JoinedAsSent

\* Nothing is an end of anything.
LEMMA EmptyEnd ==
  ASSUME NEW s \in Seq(Piece) PROVE IsEndOf(<<>>, s)
<1>1. SubSeq(s, Len(s) + 1, Len(s)) = <<>>
  OBVIOUS
<1> QED
  BY <1>1 DEF IsEndOf

\* So is all of it.
LEMMA WholeEnd ==
  ASSUME NEW s \in Seq(Piece) PROVE IsEndOf(s, s)
<1>1. SubSeq(s, 1, Len(s)) = s
  OBVIOUS
<1> QED
  BY <1>1 DEF IsEndOf

\* An end stays one when both grow by the same.
LEMMA EndAppend ==
  ASSUME NEW s \in Seq(Piece), NEW t \in Seq(Piece), NEW x \in Piece, IsEndOf(t, s)
  PROVE  IsEndOf(Append(t, x), Append(s, x))
<1>1. PICK k \in 1..Len(s) + 1 : t = SubSeq(s, k, Len(s))
  BY DEF IsEndOf
<1>2. Append(t, x) = SubSeq(Append(s, x), k, Len(s) + 1)
  <2> DEFINE u == SubSeq(Append(s, x), k, Len(s) + 1)
  <2>1. Append(s, x) \in Seq(Piece) /\ Len(Append(s, x)) = Len(s) + 1 /\ Len(s) \in Nat
    OBVIOUS
  <2>2. u \in Seq(Piece) /\ Len(u) = Len(s) + 2 - k
    BY <2>1
  <2>3. Len(t) = Len(s) + 1 - k /\ Append(t, x) \in Seq(Piece) /\ Len(Append(t, x)) = Len(t) + 1
    BY <1>1, <2>1
  <2>4. ASSUME NEW i \in 1..Len(u) PROVE u[i] = Append(t, x)[i]
    <3>1. u[i] = Append(s, x)[k + i - 1]
      BY <2>1, <2>2
    <3>2. CASE i = Len(u)
      BY <3>1, <3>2, <2>1, <2>2, <2>3
    <3>3. CASE i # Len(u)
      <4>1. Append(s, x)[k + i - 1] = s[k + i - 1]
        BY <3>3, <2>1, <2>2
      <4>2. Append(t, x)[i] = t[i]
        BY <3>3, <2>2, <2>3
      <4>3. t[i] = s[k + i - 1]
        BY <1>1, <3>3, <2>1, <2>2, <2>3
      <4> QED
        BY <3>1, <4>1, <4>2, <4>3
    <3> QED
      BY <3>2, <3>3
  <2> HIDE DEF u
  <2>5. u = Append(t, x)
    <3>1. Append(t, x) \in Seq(Piece) /\ u \in Seq(Piece) /\ Len(u) = Len(Append(t, x))
      BY <2>2, <2>3
    <3> QED
      BY <2>4, <3>1, SeqEqual
  <2> QED
    BY <2>5 DEF u
<1>3. k \in 1..Len(Append(s, x)) + 1 /\ Len(Append(s, x)) = Len(s) + 1
  OBVIOUS
<1> QED
  BY <1>2, <1>3 DEF IsEndOf

\* What expiry leaves of an entry.
LEMMA ExpiryKeeps ==
  ASSUME NEW ps, NEW a
  PROVE  /\ a \in DOMAIN Unexpired(ps) <=> a \in DOMAIN ps /\ ps[a].age <= MaxAge
         /\ a \in DOMAIN Unexpired(ps) => Unexpired(ps)[a] = ps[a]
BY DEF Unexpired

\* Begun is what the entry is, or empty.
LEMMA BegunType ==
  ASSUME PartsType, NEW a \in Advertisers
  PROVE  Begun(a) \in [age: 0..MaxAge + 1, buf: Seq(Piece)]
<1>1. <<>> \in Seq(Piece) /\ 0 \in 0..MaxAge + 1
  BY ReassemblerAssumption
<1> QED
  BY <1>1 DEF Begun, PartsType

\* Expiry alone keeps what is buffered, whoever's entries it drops.
LEMMA BufferedAfterExpiry ==
  ASSUME PartsType, NEW a \in Advertisers, Buffered(a),
         a \in DOMAIN parts' <=> a \in DOMAIN parts /\ parts[a].age <= MaxAge,
         a \in DOMAIN parts' => parts'[a] = parts[a],
         sending'[a] = sending[a], age'[a] = age[a]
  PROVE  Buffered(a)'
<1>0. sending[a] \in Seq(Piece)
  BY DEF PartsType
<1>1. CASE a \in DOMAIN parts'
  <2>1. Begun(a)' = Begun(a)
    BY <1>1 DEF Begun
  <2> QED
    BY <1>1, <2>1 DEF Buffered
<1>2. CASE a \notin DOMAIN parts' /\ a \in DOMAIN parts
  <2>1. Begun(a)'.buf = <<>> /\ parts[a].age > MaxAge
    BY <1>2, ReassemblerAssumption DEF Begun, PartsType
  <2>2. sending[a] # <<>> /\ age[a] > MaxAge
    BY <1>2, <2>1 DEF Buffered
  <2> QED
    BY <1>0, <2>1, <2>2, EmptyEnd DEF Buffered
<1>3. CASE a \notin DOMAIN parts
  <2>1. Begun(a)' = Begun(a)
    BY <1>3 DEF Begun
  <2> QED
    BY <1>3, <2>1 DEF Buffered
<1> QED
  BY <1>1, <1>2, <1>3

\* Nothing is kept and nothing sent at first.
LEMMA JoinInit == ReassemblerInit => JoinInv
<1> SUFFICES ASSUME ReassemblerInit PROVE JoinInv
  OBVIOUS
<1>1. <<>> \in Seq(Piece) /\ 0 \in 0..MaxAge + 1
  BY ReassemblerAssumption
<1>2. PartsType
  BY <1>1 DEF ReassemblerInit, PartsType
<1>3. BufferInv
  BY DEF ReassemblerInit, BufferInv, Buffered
<1>4. JoinedAsSent
  BY DEF ReassemblerInit, JoinedAsSent, NoAdvert
<1> QED
  BY <1>2, <1>3, <1>4 DEF JoinInv

\* Time makes the buffer and the advert older alike.
LEMMA TickKeepsJoin == JoinInv /\ ReassemblerTick => JoinInv'
<1> SUFFICES ASSUME JoinInv, ReassemblerTick PROVE JoinInv'
  OBVIOUS
<1> USE DEF JoinInv
<1>1. \A t \in 0..MaxAge + 1 : Older(t) \in 0..MaxAge + 1 /\ (t > MaxAge => Older(t) > MaxAge)
  BY ReassemblerAssumption DEF Older
<1>2. DOMAIN parts' = DOMAIN parts
  BY DEF ReassemblerTick
<1>3. \A a \in DOMAIN parts : parts'[a].age = Older(parts[a].age) /\ parts'[a].buf = parts[a].buf
                              /\ parts'[a] \in [age: 0..MaxAge + 1, buf: Seq(Piece)]
  BY <1>1 DEF ReassemblerTick, PartsType
<1>4. \A a \in Advertisers : age'[a] = IF sending[a] = <<>> THEN 0 ELSE Older(age[a])
  BY DEF ReassemblerTick
<1>5. PartsType'
  <2>1. age' \in [Advertisers -> 0..MaxAge + 1]
    BY <1>1, ReassemblerAssumption DEF ReassemblerTick, PartsType
  <2> QED
    BY <1>2, <1>3, <2>1 DEF ReassemblerTick, PartsType
<1>6. ASSUME NEW a \in Advertisers
      PROVE  (sending[a] = <<>> => age'[a] = 0) /\ (~lossy[a] => Buffered(a)')
  <2>1. age[a] \in 0..MaxAge + 1 /\ sending'[a] = sending[a]
    BY DEF PartsType, ReassemblerTick
  <2>2. Begun(a)'.buf = Begun(a).buf
    BY <1>2, <1>3 DEF Begun
  <2> QED
    BY <1>1, <1>2, <1>3, <1>4, <2>1, <2>2 DEF BufferInv, Buffered
<1>7. BufferInv'
  BY <1>6 DEF BufferInv, ReassemblerTick
<1>8. JoinedAsSent'
  BY DEF ReassemblerTick, JoinedAsSent, NoAdvert
<1> QED
  BY <1>5, <1>7, <1>8

\* So does expiry.
LEMMA ExpireKeepsJoin == JoinInv /\ ExpireOnly => JoinInv'
<1> SUFFICES ASSUME JoinInv, ExpireOnly PROVE JoinInv'
  OBVIOUS
<1> USE DEF JoinInv
<1>1. ASSUME NEW a
      PROVE  /\ a \in DOMAIN parts' <=> a \in DOMAIN parts /\ parts[a].age <= MaxAge
             /\ a \in DOMAIN parts' => parts'[a] = parts[a]
  BY ExpiryKeeps DEF ExpireOnly
<1>2. PartsType'
  BY <1>1 DEF PartsType, ExpireOnly
<1>3. ASSUME NEW a \in Advertisers, ~lossy[a] PROVE Buffered(a)'
  BY <1>1, <1>3, BufferedAfterExpiry DEF BufferInv, ExpireOnly
<1>4. BufferInv'
  BY <1>3 DEF BufferInv, ExpireOnly
<1>5. JoinedAsSent'
  BY DEF ExpireOnly, JoinedAsSent, NoAdvert
<1> QED
  BY <1>2, <1>4, <1>5

\* What a report adds to the buffer of its transmitter, and that it leaves the others alone.
LEMMA AddEntry ==
  ASSUME PartsType, NEW a \in Advertisers, NEW piece \in Piece, Add(a, "more", piece)
  PROVE  LET entry == [Begun(a) EXCEPT !.buf = Append(@, piece)] IN
           /\ a \in DOMAIN parts' <=> entry.age <= MaxAge
           /\ a \in DOMAIN parts' => parts'[a] = entry
           /\ entry.age = Begun(a).age /\ entry.buf = Append(Begun(a).buf, piece)
           /\ entry \in [age: 0..MaxAge + 1, buf: Seq(Piece)]
           /\ \A b \in Advertisers \ {a} :
                /\ b \in DOMAIN parts' <=> b \in DOMAIN parts /\ parts[b].age <= MaxAge
                /\ b \in DOMAIN parts' => parts'[b] = parts[b]
           /\ DOMAIN parts' \subseteq DOMAIN parts \cup {a}
<1> DEFINE entry == [Begun(a) EXCEPT !.buf = Append(@, piece)]
<1>1. Begun(a) \in [age: 0..MaxAge + 1, buf: Seq(Piece)]
  BY BegunType
<1>2. entry.age = Begun(a).age /\ entry.buf = Append(Begun(a).buf, piece)
      /\ entry \in [age: 0..MaxAge + 1, buf: Seq(Piece)]
  BY <1>1
<1> HIDE DEF entry
<1>3. parts' = Unexpired(With(a, entry))
  BY DEF Add, entry
<1>4. /\ DOMAIN With(a, entry) = DOMAIN parts \cup {a} /\ With(a, entry)[a] = entry
      /\ \A b \in DOMAIN parts \ {a} : With(a, entry)[b] = parts[b]
  BY DEF With
<1>5. a \in DOMAIN parts' <=> entry.age <= MaxAge
  BY <1>3, <1>4, ExpiryKeeps
<1>6. a \in DOMAIN parts' => parts'[a] = entry
  BY <1>3, <1>4, ExpiryKeeps
<1>7. ASSUME NEW b \in Advertisers \ {a}
      PROVE  /\ b \in DOMAIN parts' <=> b \in DOMAIN parts /\ parts[b].age <= MaxAge
             /\ b \in DOMAIN parts' => parts'[b] = parts[b]
  BY <1>3, <1>4, ExpiryKeeps
<1>8. DOMAIN parts' \subseteq DOMAIN parts \cup {a}
  BY <1>3, <1>4 DEF Unexpired
<1> QED
  BY <1>2, <1>5, <1>6, <1>7, <1>8 DEF entry

\* The final report takes the entry away and leaves the others alone.
LEMMA FinalEntry ==
  ASSUME NEW a \in Advertisers, NEW piece, NEW kind \in {"complete", "truncated"},
         Add(a, kind, piece)
  PROVE  /\ a \notin DOMAIN parts'
         /\ \A b \in Advertisers \ {a} :
              /\ b \in DOMAIN parts' <=> b \in DOMAIN parts /\ parts[b].age <= MaxAge
              /\ b \in DOMAIN parts' => parts'[b] = parts[b]
         /\ DOMAIN parts' \subseteq DOMAIN parts
         /\ joined' = IF kind = "truncated" \/ Begun(a).age > MaxAge
                        THEN <<>> ELSE Append(Begun(a).buf, piece)
<1>1. parts' = Unexpired(Popped(a, kind))
  BY DEF Add
<1>2. /\ DOMAIN Popped(a, kind) = DOMAIN parts \ {a}
      /\ \A b \in DOMAIN parts \ {a} : Popped(a, kind)[b] = parts[b]
  BY DEF Popped
<1>3. ASSUME NEW b \in Advertisers \ {a}
      PROVE  /\ b \in DOMAIN parts' <=> b \in DOMAIN parts /\ parts[b].age <= MaxAge
             /\ b \in DOMAIN parts' => parts'[b] = parts[b]
  BY <1>1, <1>2, ExpiryKeeps
<1>4. a \notin DOMAIN parts' /\ DOMAIN parts' \subseteq DOMAIN parts
  BY <1>1, <1>2 DEF Unexpired
<1> QED
  BY <1>3, <1>4 DEF Add

\* A piece that arrives goes where the parts before it went.
LEMMA MoreBuffered ==
  ASSUME PartsType, BufferInv, NEW a \in Advertisers, NEW piece \in Piece,
         Add(a, "more", piece), Buffered(a),
         sending'[a] = Append(sending[a], piece), age'[a] = age[a]
  PROVE  Buffered(a)'
<1> DEFINE entry == [Begun(a) EXCEPT !.buf = Append(@, piece)]
<1>1. /\ a \in DOMAIN parts' <=> entry.age <= MaxAge
      /\ a \in DOMAIN parts' => parts'[a] = entry
      /\ entry.age = Begun(a).age /\ entry.buf = Append(Begun(a).buf, piece)
  BY AddEntry
<1> HIDE DEF entry
<1>2. Begun(a) \in [age: 0..MaxAge + 1, buf: Seq(Piece)]
  BY BegunType
<1>3. sending[a] \in Seq(Piece) /\ sending'[a] \in Seq(Piece) /\ sending'[a] # <<>>
  <2>1. sending[a] \in Seq(Piece)
    BY DEF PartsType
  <2> QED
    BY <2>1, AppendProperties
<1>4. Begun(a)'.buf = IF entry.age <= MaxAge THEN entry.buf ELSE <<>>
  BY <1>1 DEF Begun
<1>5. CASE sending[a] = <<>> /\ a \notin DOMAIN parts
  <2>1. Begun(a).age = 0 /\ Begun(a).buf = <<>> /\ age[a] = 0
    BY <1>5 DEF Begun, BufferInv
  <2>2. a \in DOMAIN parts' /\ parts'[a].age = age'[a] /\ parts'[a].buf = sending'[a]
    BY <1>1, <1>5, <2>1, ReassemblerAssumption
  <2> QED
    BY <1>3, <2>2 DEF Buffered
<1>6. CASE /\ sending[a] # <<>> /\ a \in DOMAIN parts
           /\ parts[a].buf = sending[a] /\ parts[a].age = age[a]
  <2>1. entry.age = age[a] /\ entry.buf = sending'[a]
    BY <1>1, <1>6 DEF Begun
  <2>2. CASE entry.age <= MaxAge
    BY <1>1, <1>3, <2>1, <2>2 DEF Buffered
  <2>3. CASE ~(entry.age <= MaxAge)
    <3>1. age'[a] > MaxAge
      BY <2>1, <2>3, ReassemblerAssumption DEF PartsType
    <3> QED
      BY <1>3, <1>4, <2>3, <3>1, EmptyEnd DEF Buffered
  <2> QED
    BY <2>2, <2>3
<1>7. CASE sending[a] # <<>> /\ age[a] > MaxAge /\ IsEndOf(Begun(a).buf, sending[a])
  <2>1. IsEndOf(entry.buf, sending'[a])
    BY <1>1, <1>2, <1>3, <1>7, EndAppend
  <2>2. IsEndOf(Begun(a)'.buf, sending'[a])
    BY <1>3, <1>4, <2>1, EmptyEnd
  <2> QED
    BY <1>3, <1>7, <2>2 DEF Buffered
<1> QED
  BY <1>5, <1>6, <1>7 DEF Buffered

\* What the final report hands on, of an advert before which no report was lost.
LEMMA FinalJoined ==
  ASSUME PartsType, BufferInv, NEW a \in Advertisers, NEW piece \in Piece,
         NEW kind \in {"complete", "truncated"}, Add(a, kind, piece), Buffered(a)
  PROVE  LET data == Append(sending[a], piece) IN
           /\ kind = "complete" /\ age[a] <= MaxAge => joined' = data
           /\ kind = "truncated" => joined' = <<>>
           /\ IsEndOf(joined', data)
<1> DEFINE data == Append(sending[a], piece)
<1>1. joined' = IF kind = "truncated" \/ Begun(a).age > MaxAge
                  THEN <<>> ELSE Append(Begun(a).buf, piece)
  BY FinalEntry
<1>2. Begun(a) \in [age: 0..MaxAge + 1, buf: Seq(Piece)]
  BY BegunType
<1>3. sending[a] \in Seq(Piece) /\ data \in Seq(Piece)
  <2>1. sending[a] \in Seq(Piece)
    BY DEF PartsType
  <2> QED
    BY <2>1, AppendProperties
<1>4. age[a] \in 0..MaxAge + 1
  BY DEF PartsType
<1>5. \/ Begun(a).buf = sending[a] /\ (age[a] <= MaxAge => Begun(a).age <= MaxAge)
      \/ age[a] > MaxAge /\ IsEndOf(Begun(a).buf, sending[a])
  BY ReassemblerAssumption DEF Buffered, Begun
<1>6. IsEndOf(Begun(a).buf, sending[a])
  BY <1>3, <1>5, WholeEnd
<1>7. IsEndOf(joined', data)
  BY <1>1, <1>2, <1>3, <1>6, EndAppend, EmptyEnd
<1>8. kind = "complete" /\ age[a] <= MaxAge => joined' = data
  BY <1>1, <1>2, <1>4, <1>5, ReassemblerAssumption
<1>9. kind = "truncated" => joined' = <<>>
  BY <1>1
<1> QED
  BY <1>7, <1>8, <1>9

\* A report keeps the invariant, whether it arrives and whatever it says.
LEMMA ReportKeepsJoin ==
  ASSUME JoinInv, NEW a \in Advertisers, Report(a)
  PROVE  JoinInv'
<1> USE DEF JoinInv
<1> DEFINE piece == <<odd[a], Len(sending[a]) + 1>>
           data == Append(sending[a], piece)
<1>1. piece \in Piece /\ sending[a] \in Seq(Piece) /\ data \in Seq(Piece)
  <2>1. sending[a] \in Seq(Piece) /\ piece \in Piece
    BY DEF PartsType, Piece
  <2> QED
    BY <2>1, AppendProperties
<1>2. PICK kind \in {"more", "complete", "truncated"}, arrives \in BOOLEAN :
        /\ IF arrives THEN Add(a, kind, piece) ELSE parts' = Unexpired(parts) /\ joined' = <<>>
        /\ lossy' = [lossy EXCEPT ![a] = ~arrives \/ (kind = "more" /\ @)]
        /\ sending' = [sending EXCEPT ![a] = IF kind = "more" THEN data ELSE <<>>]
        /\ odd' = [odd EXCEPT ![a] = IF kind = "more" THEN @ ELSE ~@]
        /\ age' = [age EXCEPT ![a] = IF kind = "more" THEN @ ELSE 0]
        /\ ended' = IF kind # "more" /\ arrives
                      THEN [data |-> data, complete |-> kind = "complete",
                            inTime |-> age[a] <= MaxAge, clean |-> ~lossy[a]]
                      ELSE NoAdvert
  BY DEF Report
<1> HIDE DEF piece
<1>3. /\ \A b \in Advertisers \ {a} :
           /\ b \in DOMAIN parts' <=> b \in DOMAIN parts /\ parts[b].age <= MaxAge
           /\ b \in DOMAIN parts' => parts'[b] = parts[b]
      /\ DOMAIN parts' \subseteq DOMAIN parts \cup {a}
      /\ a \in DOMAIN parts' => parts'[a] \in [age: 0..MaxAge + 1, buf: Seq(Piece)]
  <2>1. CASE arrives /\ kind = "more"
    BY <1>1, <1>2, <2>1, AddEntry
  <2>2. CASE arrives /\ kind # "more"
    BY <1>2, <2>2, FinalEntry
  <2>3. CASE ~arrives
    <3>1. \A b : /\ b \in DOMAIN parts' <=> b \in DOMAIN parts /\ parts[b].age <= MaxAge
                 /\ b \in DOMAIN parts' => parts'[b] = parts[b]
      BY <1>2, <2>3, ExpiryKeeps
    <3> QED
      BY <3>1 DEF PartsType
  <2> QED
    BY <2>1, <2>2, <2>3
<1>4. PartsType'
  <2>1. DOMAIN parts' \subseteq Advertisers
    BY <1>3 DEF PartsType
  <2>2. \A b \in DOMAIN parts' : parts'[b] \in [age: 0..MaxAge + 1, buf: Seq(Piece)]
    BY <1>3, <2>1 DEF PartsType
  <2>3. sending' \in [Advertisers -> Seq(Piece)]
    <3>1. <<>> \in Seq(Piece)
      OBVIOUS
    <3> QED
      BY <1>1, <1>2, <3>1 DEF PartsType
  <2>4. age' \in [Advertisers -> 0..MaxAge + 1]
    BY <1>2, ReassemblerAssumption DEF PartsType
  <2>5. odd' \in [Advertisers -> BOOLEAN] /\ lossy' \in [Advertisers -> BOOLEAN]
    BY <1>2 DEF PartsType
  <2> QED
    BY <2>1, <2>2, <2>3, <2>4, <2>5 DEF PartsType
<1>5. ASSUME NEW b \in Advertisers
      PROVE  (sending'[b] = <<>> => age'[b] = 0) /\ (~lossy'[b] => Buffered(b)')
  <2>1. CASE b # a
    <3>1. sending'[b] = sending[b] /\ age'[b] = age[b] /\ lossy'[b] = lossy[b]
      BY <1>2, <2>1 DEF PartsType
    <3> QED
      BY <1>3, <2>1, <3>1, BufferedAfterExpiry DEF BufferInv
  <2>2. CASE b = a /\ kind = "more"
    <3>1. sending'[a] = data /\ age'[a] = age[a] /\ lossy'[a] = (~arrives \/ lossy[a])
      BY <1>2, <2>2 DEF PartsType
    <3>2. data # <<>>
      BY <1>1, AppendProperties
    <3>3. ASSUME ~lossy'[a] PROVE Buffered(a)'
      <4>1. Add(a, "more", piece) /\ Buffered(a)
        BY <1>2, <2>2, <3>1, <3>3 DEF BufferInv
      <4> QED
        BY <1>1, <3>1, <4>1, MoreBuffered
    <3> QED
      BY <2>2, <3>1, <3>2, <3>3
  <2>3. CASE b = a /\ kind # "more"
    <3>1. sending'[a] = <<>> /\ age'[a] = 0 /\ lossy'[a] = ~arrives
      BY <1>2, <2>3 DEF PartsType
    <3>2. arrives => a \notin DOMAIN parts'
      BY <1>2, <2>3, FinalEntry
    <3> QED
      BY <2>3, <3>1, <3>2 DEF Buffered
  <2> QED
    BY <2>1, <2>2, <2>3
<1>6. JoinedAsSent'
  <2>1. CASE kind # "more" /\ arrives
    <3>1. /\ ended'.clean = ~lossy[a] /\ ended'.data = data
          /\ ended'.inTime = (age[a] <= MaxAge) /\ ended'.complete = (kind = "complete")
      BY <1>2, <2>1
    <3>2. SUFFICES ASSUME ~lossy[a]
                   PROVE  /\ age[a] <= MaxAge /\ kind = "complete" => joined' = data
                          /\ kind # "complete" => joined' = <<>>
                          /\ IsEndOf(joined', data)
      BY <3>1 DEF JoinedAsSent, IsEndOf
    <3>3. Buffered(a) /\ Add(a, kind, piece) /\ kind \in {"complete", "truncated"}
      BY <1>2, <2>1, <3>2 DEF BufferInv
    <3> QED
      BY <1>1, <3>3, FinalJoined
  <2>2. CASE ~(kind # "more" /\ arrives)
    BY <1>2, <2>2 DEF JoinedAsSent, NoAdvert
  <2> QED
    BY <2>1, <2>2
<1> QED
  BY <1>4, <1>5, <1>6 DEF BufferInv

\* A complete advert is handed on as it was sent if its parts came in time, and never with
\* parts of another (add, expire), for any transmitters, ages and numbers of parts.
THEOREM AdvertsJoinedAsSent == ReassemblerSpec => []JoinedAsSent
<1>1. JoinInv /\ [ReassemblerNext]_reassemblerVars => JoinInv'
  <2> SUFFICES ASSUME JoinInv, [ReassemblerNext]_reassemblerVars PROVE JoinInv'
    OBVIOUS
  <2>1. CASE UNCHANGED reassemblerVars
    BY <2>1 DEF reassemblerVars, JoinInv, PartsType, BufferInv, Buffered, Begun, JoinedAsSent
  <2>2. CASE ReassemblerNext
    BY <2>2, TickKeepsJoin, ExpireKeepsJoin, ReportKeepsJoin DEF ReassemblerNext
  <2> QED
    BY <2>1, <2>2
<1>2. JoinInv => JoinedAsSent
  BY DEF JoinInv
<1> QED
  BY <1>1, <1>2, JoinInit, PTL DEF ReassemblerSpec

-----------------------------------------------------------------------------
(* HciScanner: what is outstanding when start() returns. *)

\* Commands and events, for the provers.
Reset    == Cmd("reset", "-")
Setup    == Cmd("setup", "-")
Features == Cmd("features", "-")

Cmds ==
  {Reset, Setup, Features, Cmd("params", "-"), Cmd("enable", "on"), Cmd("enable", "off"),
   Cmd("ext_params", "1M"), Cmd("ext_params", "coded"), Cmd("ext_enable", "on"), Cmd("ext_enable", "off")}
Answers == {Answer(c, ok) : c \in Cmds, ok \in BOOLEAN}
Adverts == {Advert(s) : s \in Scans}
Events  == Answers \cup Adverts

CtlType == ctl \in [family: {"none", "ext", "legacy"}, phys: {"coded", "1M"}, scan: Scans \cup {"off"}]

HciTypes ==
  /\ events \in Seq(Events) /\ commands \in Seq(Cmds)
  /\ CtlType /\ works \subseteq {"ext", "coded"} /\ slow \in BOOLEAN /\ written \in BOOLEAN
  /\ leaving \in {"reopen", "fallback", "ended", "dead"}

IsAnswer(e) == e.type = "answer"
IsReset(e)  == e.type = "answer" /\ e.op = "reset"
NoAnswers   == \A i \in DOMAIN events : ~IsAnswer(events[i])

\* What start() has yet to send in each of its stages.
Params  == IF stage = "legacy" THEN Cmd("params", "-") ELSE Cmd("ext_params", stage)
Enable  == IF stage = "legacy" THEN Cmd("enable", "on") ELSE Cmd("ext_enable", "on")

TodoInv ==
  \/ stage = "probe" /\ todo \in {<<Reset, Setup, Features>>, <<Setup, Features>>, <<Features>>}
  \/ stage \in {"1M", "legacy"} /\ todo \in {<<Reset, Setup, Params, Enable>>, <<Setup, Params, Enable>>}
  \/ stage \in Scans /\ todo \in {<<Params, Enable>>, <<Enable>>}

\* The state of the controller when the last command has been carried out, and before.
Started == [family |-> IF stage = "legacy" THEN "legacy" ELSE "ext",
            phys   |-> IF stage = "legacy" THEN "1M" ELSE stage,
            scan   |-> stage]

Before == IF Head(todo) = Enable THEN [Started EXCEPT !.scan = "off"] ELSE Idle
After  == CASE Head(todo) = Enable -> Started
            [] Head(todo) = Params -> [Started EXCEPT !.scan = "off"]
            [] OTHER -> Idle

\* While a reset is awaited: what follows one that was carried out are resets again, and
\* only where the stage before was given up at its reset.
ResetInv ==
  /\ \A i \in DOMAIN events : IsReset(events[i]) =>
       /\ ctl = Idle
       /\ \A j \in DOMAIN events : i < j => stage = "legacy" /\ IsReset(events[j])
       /\ \A j \in DOMAIN commands : stage = "legacy" /\ commands[j].op = "reset"
  /\ \A i, j \in DOMAIN commands :
       i < j /\ commands[i].op = "reset" => stage = "legacy" /\ commands[j].op = "reset"
  /\ stage # "legacy" /\ ~written =>
       /\ \A i \in DOMAIN events : ~IsReset(events[i])
       /\ \A i \in DOMAIN commands : commands[i].op # "reset"

\* Once one was answered: nothing is left of the stages before, but for resets.
SetupInv ==
  /\ ctl = Idle /\ pending = {}
  /\ \A i \in DOMAIN events :
       \/ stage = "legacy" /\ IsReset(events[i])
       \/ /\ IsAnswer(events[i]) /\ events[i].op = "setup"
          /\ written /\ i = Len(events) /\ commands = <<>>
  /\ \A i \in DOMAIN commands :
       \/ stage = "legacy" /\ commands[i].op = "reset"
       \/ commands[i].op = "setup" /\ written /\ i = Len(commands)

\* After that: nothing is left at all, and the controller is where the commands led it.
CleanInv ==
  /\ ~written => commands = <<>> /\ NoAnswers /\ ctl = Before
  /\ written /\ commands # <<>> => commands = <<Head(todo)>> /\ NoAnswers /\ ctl = Before
  /\ \A i, j \in DOMAIN events : IsAnswer(events[i]) /\ IsAnswer(events[j]) => i = j
  /\ \A i \in DOMAIN events : IsAnswer(events[i]) =>
       /\ events[i].op = Head(todo).op
       /\ events[i].ok => ctl = After /\ (Head(todo) = Params /\ stage # "legacy" => "ext" \in works)
  /\ ctl \in {Before, After}
  /\ Head(todo) = Enable /\ stage # "legacy" => "ext" \in works
  /\ \A i \in DOMAIN events : ~IsAnswer(events[i]) => events[i].scan = stage /\ ctl.scan = stage
  /\ \A s \in pending : s = stage /\ ctl.scan = stage

\* While it scans.
ScanInv ==
  /\ commands = <<>> /\ ctl = Started /\ mode = stage /\ stage \in Scans
  /\ stage # "legacy" => "ext" \in works
  /\ pending \subseteq {stage}
  /\ \A i \in DOMAIN events : ~IsAnswer(events[i]) => events[i].scan = stage

StartInv ==
  CASE Head(todo).op = "reset" -> ResetInv
    [] Head(todo).op = "setup" -> SetupInv
    [] OTHER -> CleanInv

HciInv ==
  /\ HciTypes
  /\ thread = "start" => TodoInv
  /\ thread = "start" /\ channel = "open" => StartInv
  /\ thread = "scan" /\ channel = "open" => ScanInv
  /\ thread \notin {"start", "scan", "wait", "stop", "close"} =>
       channel = "closed" /\ commands = <<>> /\ events = <<>>

\* What the members of Cmds are, by their op.
LEMMA CmdFacts ==
  ASSUME NEW c \in Cmds
  PROVE  /\ c.op \in {"reset", "setup", "features", "params", "enable", "ext_params", "ext_enable"}
         /\ c.op = "ext_params" => c.arg \in {"1M", "coded"}
         /\ c.op = "reset" => c = Reset
         /\ c.op = "setup" => c = Setup
         /\ c.op = "features" => c = Features
BY DEF Cmds, Cmd, Reset, Setup, Features

\* An answer to a command is an event, and not an advert.
LEMMA AnswerFacts ==
  ASSUME NEW c \in Cmds, NEW ok \in BOOLEAN
  PROVE  /\ Answer(c, ok) \in Events /\ IsAnswer(Answer(c, ok))
         /\ Answer(c, ok).op = c.op /\ Answer(c, ok).ok = ok
BY DEF Answer, Answers, Events, IsAnswer

\* An advert is an event, and not an answer.
LEMMA AdvertFacts ==
  ASSUME NEW s \in Scans
  PROVE  Advert(s) \in Events /\ ~IsAnswer(Advert(s)) /\ Advert(s).scan = s
BY DEF Advert, Adverts, Events, IsAnswer

\* Every event is an answer or an advert, and not both.
LEMMA EventFacts ==
  ASSUME NEW e \in Events
  PROVE  \/ IsAnswer(e) /\ e.ok \in BOOLEAN
         \/ ~IsAnswer(e) /\ e.type = "advert" /\ e.scan \in Scans
<1>1. CASE e \in Answers
  <2>1. PICK c \in Cmds, ok \in BOOLEAN : e = Answer(c, ok)
    BY <1>1 DEF Answers
  <2> QED
    BY <2>1 DEF Answer, IsAnswer
<1>2. CASE e \in Adverts
  BY <1>2 DEF Adverts, Advert, IsAnswer
<1> QED
  BY <1>1, <1>2 DEF Events

\* What a command makes of the controller has the type of one; a reset and a setup are
\* always accepted.
LEMMA CarriedFacts ==
  ASSUME CtlType, NEW c \in Cmds
  PROVE  /\ Carried(c) \in [family: {"none", "ext", "legacy"}, phys: {"coded", "1M"}, scan: Scans \cup {"off"}]
         /\ c.op = "reset" => Carried(c) = Idle /\ Accepts(c)
         /\ c.op = "setup" => Carried(c) = ctl /\ Accepts(c)
         /\ Accepts(c) \in BOOLEAN
<1>1. Accepts(c) \in BOOLEAN
  BY DEF Accepts
<1>2. c.op \in {"reset", "setup"} => c.arg = "-"
  BY DEF Cmds, Cmd, Reset, Setup, Features
<1>3. c.op \in {"reset", "setup"} => Accepts(c)
  BY <1>2 DEF Accepts, Family
<1>4. c.op = "reset" => Carried(c) = Idle
  BY DEF Carried
<1>5. c.op = "setup" => Carried(c) = ctl
  BY DEF Carried
<1>6. Carried(c) \in [family: {"none", "ext", "legacy"}, phys: {"coded", "1M"}, scan: Scans \cup {"off"}]
  BY CmdFacts DEF Carried, CtlType, Idle, Scans
<1> QED
  BY <1>1, <1>3, <1>4, <1>5, <1>6

\* Append, element by element.
LEMMA Appended ==
  ASSUME NEW S, NEW s \in Seq(S), NEW x \in S
  PROVE  /\ Append(s, x) \in Seq(S) /\ Len(s) \in Nat
         /\ DOMAIN s = 1..Len(s) /\ DOMAIN Append(s, x) = 1..Len(s) + 1
         /\ Append(s, x)[Len(s) + 1] = x /\ Len(Append(s, x)) = Len(s) + 1
         /\ \A i \in DOMAIN s : Append(s, x)[i] = s[i]
BY AppendProperties, LenProperties

\* Head and Tail, element by element.
LEMMA Shifted ==
  ASSUME NEW S, NEW s \in Seq(S), s # <<>>
  PROVE  /\ Tail(s) \in Seq(S) /\ Head(s) \in S /\ Head(s) = s[1]
         /\ Len(s) \in Nat \ {0} /\ Len(Tail(s)) = Len(s) - 1
         /\ DOMAIN s = 1..Len(s) /\ DOMAIN Tail(s) = 1..Len(s) - 1
         /\ \A i \in DOMAIN Tail(s) : i + 1 \in DOMAIN s /\ Tail(s)[i] = s[i + 1]
<1>1. Tail(s) \in Seq(S) /\ Len(Tail(s)) = Len(s) - 1 /\ Len(s) \in Nat \ {0} /\ Head(s) \in S /\ Head(s) = s[1]
  BY HeadTailProperties, EmptySeq
<1>2. DOMAIN s = 1..Len(s) /\ DOMAIN Tail(s) = 1..Len(Tail(s))
  BY <1>1, LenProperties
<1>3. \A i \in 1..Len(Tail(s)) : Tail(s)[i] = s[i + 1]
  BY HeadTailProperties
<1> QED
  BY <1>1, <1>2, <1>3

\* What start() has to send next.
LEMMA TodoFacts ==
  ASSUME TodoInv
  PROVE  /\ Head(todo) \in Cmds /\ todo # <<>>
         /\ Head(todo) \in {Reset, Setup, Features, Params, Enable}
         /\ Head(todo).op \notin {"reset", "setup"} => Head(todo) \in {Features, Params, Enable}
         /\ stage \in Scans \cup {"probe"}
<1>1. stage \in Scans => Params \in Cmds /\ Enable \in Cmds /\ Params.op \notin {"reset", "setup"} /\ Enable.op \notin {"reset", "setup"}
  BY DEF Params, Enable, Cmds, Cmd, Scans
<1>2. Features \in Cmds /\ Reset \in Cmds /\ Setup \in Cmds /\ Features.op \notin {"reset", "setup"}
      /\ Reset.op = "reset" /\ Setup.op = "setup"
  BY DEF Features, Reset, Setup, Cmds, Cmd
<1>3. stage \in Scans \cup {"probe"}
  BY DEF TodoInv, Scans
<1>4. \/ stage = "probe" /\ todo # <<>> /\ Head(todo) \in {Reset, Setup, Features}
      \/ stage \in Scans /\ todo # <<>> /\ Head(todo) \in {Reset, Setup, Params, Enable}
  BY DEF TodoInv, Scans
<1> QED
  BY <1>1, <1>2, <1>3, <1>4

\* Awaiting a reset: the controller answers a command.
LEMMA AnswerReset ==
  ASSUME HciTypes, TodoInv, AnswerCommand, ResetInv, UNCHANGED <<stage, todo, written>>
  PROVE  ResetInv'
<1> DEFINE c == Head(commands)
           a == Answer(c, Accepts(c))
<1>1. /\ commands # <<>> /\ commands' = Tail(commands) /\ events' = Append(events, a)
      /\ ctl' = IF Accepts(c) THEN Carried(c) ELSE ctl
  BY DEF AnswerCommand
<1>2. c \in Cmds /\ Accepts(c) \in BOOLEAN
  BY <1>1, Shifted, CarriedFacts DEF HciTypes
<1>3. /\ c = commands[1] /\ 1 \in DOMAIN commands
      /\ \A i \in DOMAIN commands' : i + 1 \in DOMAIN commands /\ commands'[i] = commands[i + 1] /\ i \in Int /\ i > 0
  BY <1>1, Shifted DEF HciTypes
<1>4. a \in Events /\ IsAnswer(a) /\ a.op = c.op
  BY <1>2, AnswerFacts
<1>5. /\ \A i \in DOMAIN events : events'[i] = events[i] /\ i < Len(events) + 1 /\ i \in Int
      /\ DOMAIN events' = DOMAIN events \cup {Len(events) + 1} /\ events'[Len(events) + 1] = a
      /\ Len(events) \in Nat
  BY <1>1, <1>4, Appended DEF HciTypes
<1>6. c.op = "reset" => ctl' = Idle
  BY <1>1, <1>2, CarriedFacts DEF HciTypes
<1> HIDE DEF a, c
<1>7. ASSUME NEW i \in DOMAIN events', IsReset(events'[i])
      PROVE  /\ ctl' = Idle
             /\ \A j \in DOMAIN events' : i < j => stage = "legacy" /\ IsReset(events'[j])
             /\ \A j \in DOMAIN commands' : stage = "legacy" /\ commands'[j].op = "reset"
  <2>1. CASE i \in DOMAIN events
    <3>1. IsReset(events[i])
      BY <1>5, <1>7, <2>1
    <3>2. /\ \A j \in DOMAIN events : i < j => stage = "legacy" /\ IsReset(events[j])
          /\ \A j \in DOMAIN commands : stage = "legacy" /\ commands[j].op = "reset"
      BY <3>1, <2>1 DEF ResetInv
    <3>3. c.op = "reset" /\ stage = "legacy"
      BY <3>2, <1>3
    <3>4. IsReset(a)
      BY <3>3, <1>4 DEF IsReset, IsAnswer
    <3> QED
      BY <1>3, <1>5, <1>6, <3>2, <3>3, <3>4
  <2>2. CASE i = Len(events) + 1
    <3>1. c.op = "reset"
      BY <1>4, <1>5, <1>7, <2>2 DEF IsReset
    <3>2. \A j \in DOMAIN events' : ~(i < j)
      BY <1>5, <2>2
    <3>3. \A j \in DOMAIN commands : 1 < j => stage = "legacy" /\ commands[j].op = "reset"
      BY <1>3, <3>1 DEF ResetInv
    <3>4. \A j \in DOMAIN commands' : stage = "legacy" /\ commands'[j].op = "reset"
      BY <1>3, <3>3
    <3> QED
      BY <1>6, <3>1, <3>2, <3>4
  <2> QED
    BY <1>5, <1>7, <2>1, <2>2
<1>8. ASSUME NEW i \in DOMAIN commands', NEW j \in DOMAIN commands', i < j, commands'[i].op = "reset"
      PROVE  stage = "legacy" /\ commands'[j].op = "reset"
  BY <1>3, <1>8 DEF ResetInv
<1>9. ASSUME stage # "legacy", ~written
      PROVE  /\ \A i \in DOMAIN events' : ~IsReset(events'[i])
             /\ \A i \in DOMAIN commands' : commands'[i].op # "reset"
  BY <1>3, <1>4, <1>5, <1>9 DEF ResetInv, IsReset
<1> QED
  BY <1>7, <1>8, <1>9 DEF ResetInv

\* Awaiting the setup: the controller answers a command.
LEMMA AnswerSetup ==
  ASSUME HciTypes, TodoInv, AnswerCommand, SetupInv, UNCHANGED <<stage, todo, written, pending>>
  PROVE  SetupInv'
<1> DEFINE c == Head(commands)
           a == Answer(c, Accepts(c))
<1>1. /\ commands # <<>> /\ commands' = Tail(commands) /\ events' = Append(events, a)
      /\ ctl' = IF Accepts(c) THEN Carried(c) ELSE ctl
  BY DEF AnswerCommand
<1>2. c \in Cmds /\ Accepts(c) \in BOOLEAN
  BY <1>1, Shifted, CarriedFacts DEF HciTypes
<1>3. /\ c = commands[1] /\ 1 \in DOMAIN commands /\ Len(commands') = Len(commands) - 1
      /\ Len(commands) \in Nat
      /\ \A i \in DOMAIN commands' : i + 1 \in DOMAIN commands /\ commands'[i] = commands[i + 1] /\ i \in Int /\ i > 0
      /\ Len(commands) = 1 => commands' = <<>>
  BY <1>1, Shifted, EmptySeq DEF HciTypes
<1>4. a \in Events /\ IsAnswer(a) /\ a.op = c.op
  BY <1>2, AnswerFacts
<1>5. /\ \A i \in DOMAIN events : events'[i] = events[i]
      /\ DOMAIN events' = DOMAIN events \cup {Len(events) + 1} /\ events'[Len(events) + 1] = a
      /\ Len(events') = Len(events) + 1
  BY <1>1, <1>4, Appended DEF HciTypes
<1>6. \/ stage = "legacy" /\ c.op = "reset"
      \/ c.op = "setup" /\ written /\ commands' = <<>>
  BY <1>3 DEF SetupInv
<1>7. ctl' = Idle
  BY <1>1, <1>2, <1>6, CarriedFacts DEF HciTypes, SetupInv
<1> HIDE DEF a, c
<1>8. \A i \in DOMAIN events : stage = "legacy" /\ IsReset(events[i])
  BY <1>1 DEF SetupInv
<1>9. \A i \in DOMAIN events' :
        \/ stage = "legacy" /\ IsReset(events'[i])
        \/ /\ IsAnswer(events'[i]) /\ events'[i].op = "setup"
           /\ written /\ i = Len(events') /\ commands' = <<>>
  BY <1>4, <1>5, <1>6, <1>8 DEF IsReset, IsAnswer
<1>10. \A i \in DOMAIN commands' :
        \/ stage = "legacy" /\ commands'[i].op = "reset"
        \/ commands'[i].op = "setup" /\ written /\ i = Len(commands')
  BY <1>3 DEF SetupInv
<1> QED
  BY <1>7, <1>9, <1>10 DEF SetupInv

\* The command awaited, carried out where the one before it led, leads where After says.
LEMMA HeadCarried ==
  ASSUME TodoInv, Head(todo).op \notin {"reset", "setup"}, ctl = Before
  PROVE  /\ Carried(Head(todo)) = After
         /\ Accepts(Head(todo)) /\ Head(todo) = Params /\ stage # "legacy" => "ext" \in works
         /\ ctl.scan = "off" /\ stage # "off"
<1>1. stage \in Scans \cup {"probe"} /\ Head(todo) \in {Features, Params, Enable}
  BY TodoFacts
<1>2. stage = "probe" => Head(todo) = Features
  <2>1. Reset.op = "reset" /\ Setup.op = "setup"
    BY DEF Reset, Setup, Cmd
  <2>2. stage = "probe" => Head(todo) \in {Reset, Setup, Features}
    BY DEF TodoInv, Scans
  <2> QED
    BY <2>1, <2>2
<1>3. CASE Head(todo) = Features
  <2>1. Features # Params /\ Features # Enable /\ Features.op = "features" /\ Features # Params
    BY DEF Features, Params, Enable, Cmd
  <2>2. ctl = Idle /\ After = Idle
    BY <1>3, <2>1 DEF Before, After
  <2>3. Carried(Head(todo)) = ctl
    BY <1>3, <2>1 DEF Carried
  <2> QED
    BY <1>1, <1>3, <2>1, <2>2, <2>3 DEF Idle, Scans
<1>4. CASE Head(todo) = Params /\ stage = "legacy"
  <2>1. Params = Cmd("params", "-") /\ Enable = Cmd("enable", "on")
    BY <1>4 DEF Params, Enable
  <2>2. ctl = Idle /\ After = [Started EXCEPT !.scan = "off"]
    BY <1>4, <2>1 DEF Before, After, Cmd
  <2>3. Carried(Head(todo)) = [ctl EXCEPT !.family = "legacy"]
    BY <1>4, <2>1 DEF Carried, Cmd
  <2> QED
    BY <1>4, <2>2, <2>3 DEF Idle, Started
<1>5. CASE Head(todo) = Params /\ stage \in {"1M", "coded"}
  <2>1. Params = Cmd("ext_params", stage) /\ Enable = Cmd("ext_enable", "on")
    BY <1>5 DEF Params, Enable
  <2>2. ctl = Idle /\ After = [Started EXCEPT !.scan = "off"]
    BY <1>5, <2>1 DEF Before, After, Cmd
  <2>3. Carried(Head(todo)) = [ctl EXCEPT !.family = "ext", !.phys = stage]
    <3>1. Head(todo).op = "ext_params" /\ Head(todo).arg = stage
      BY <1>5, <2>1 DEF Cmd
    <3> QED
      BY <3>1 DEF Carried
  <2>4. Accepts(Head(todo)) => "ext" \in works
    BY <1>5, <2>1 DEF Accepts, Family, Cmd
  <2>5. Carried(Head(todo)) = After
    <3>1. Started = [family |-> "ext", phys |-> stage, scan |-> stage]
      BY <1>5 DEF Started
    <3>2. After = [family |-> "ext", phys |-> stage, scan |-> "off"]
      BY <2>2, <3>1
    <3>3. Carried(Head(todo)) = [family |-> "ext", phys |-> stage, scan |-> "off"]
      <4>1. ctl = [family |-> "none", phys |-> "1M", scan |-> "off"]
        BY <2>2 DEF Idle
      <4>2. [ctl EXCEPT !.family = "ext"] = [family |-> "ext", phys |-> "1M", scan |-> "off"]
        BY <4>1
      <4>3. [ctl EXCEPT !.family = "ext", !.phys = stage] = [[ctl EXCEPT !.family = "ext"] EXCEPT !.phys = stage]
        BY <4>1
      <4> QED
        BY <2>3, <4>2, <4>3
    <3> QED
      BY <3>2, <3>3
  <2> QED
    BY <1>5, <2>2, <2>4, <2>5 DEF Idle
<1>6. CASE Head(todo) = Enable /\ stage = "legacy"
  <2>1. Params = Cmd("params", "-") /\ Enable = Cmd("enable", "on")
    BY <1>6 DEF Params, Enable
  <2>2. ctl = [Started EXCEPT !.scan = "off"] /\ After = Started /\ Head(todo) # Params
    BY <1>6, <2>1 DEF Before, After, Cmd
  <2>3. Carried(Head(todo)) = [ctl EXCEPT !.family = "legacy", !.scan = "legacy"]
    <3>1. Head(todo).op = "enable" /\ Head(todo).arg = "on"
      BY <1>6, <2>1 DEF Cmd
    <3> QED
      BY <3>1 DEF Carried
  <2> QED
    BY <1>6, <2>2, <2>3 DEF Started
<1>7. CASE Head(todo) = Enable /\ stage \in {"1M", "coded"}
  <2>1. Params = Cmd("ext_params", stage) /\ Enable = Cmd("ext_enable", "on")
    BY <1>7 DEF Params, Enable
  <2>2. ctl = [Started EXCEPT !.scan = "off"] /\ After = Started /\ Head(todo) # Params
    BY <1>7, <2>1 DEF Before, After, Cmd
  <2>3. Carried(Head(todo)) = [ctl EXCEPT !.family = "ext", !.scan = ctl.phys]
    <3>1. Head(todo).op = "ext_enable" /\ Head(todo).arg = "on"
      BY <1>7, <2>1 DEF Cmd
    <3> QED
      BY <3>1 DEF Carried
  <2> QED
    BY <1>7, <2>2, <2>3 DEF Started
<1> QED
  BY <1>1, <1>2, <1>3, <1>4, <1>5, <1>6, <1>7 DEF Scans

\* Awaiting a later command: the controller answers it.
LEMMA AnswerClean ==
  ASSUME HciTypes, TodoInv, AnswerCommand, CleanInv, Head(todo).op \notin {"reset", "setup"},
         UNCHANGED <<stage, todo, written, pending>>
  PROVE  CleanInv'
<1> DEFINE c == Head(commands)
           a == Answer(c, Accepts(c))
<1>1. /\ commands # <<>> /\ commands' = Tail(commands) /\ events' = Append(events, a)
      /\ ctl' = IF Accepts(c) THEN Carried(c) ELSE ctl
      /\ UNCHANGED works
  BY DEF AnswerCommand
<1>2. written /\ commands = <<Head(todo)>> /\ NoAnswers /\ ctl = Before
  BY <1>1 DEF CleanInv
<1>3. c = Head(todo) /\ commands' = <<>> /\ c \in Cmds
  BY <1>1, <1>2, TodoFacts
<1>4. Accepts(c) \in BOOLEAN
  BY <1>3, CarriedFacts DEF HciTypes
<1>5. a \in Events /\ IsAnswer(a) /\ a.op = c.op /\ a.ok = Accepts(c)
  BY <1>3, <1>4, AnswerFacts
<1>6. /\ \A i \in DOMAIN events : events'[i] = events[i]
      /\ DOMAIN events' = DOMAIN events \cup {Len(events) + 1} /\ events'[Len(events) + 1] = a
  BY <1>1, <1>5, Appended DEF HciTypes
<1> HIDE DEF a
<1>7. /\ Carried(c) = After /\ ctl.scan = "off" /\ stage # "off"
      /\ Accepts(c) /\ Head(todo) = Params /\ stage # "legacy" => "ext" \in works
  BY <1>2, <1>3, HeadCarried
<1>8. Before' = Before /\ After' = After /\ Params' = Params /\ Enable' = Enable
  BY DEF Before, After, Started, Params, Enable
<1>9. (\A i \in DOMAIN events : ~IsAnswer(events[i]) /\ events[i].scan = stage /\ FALSE) /\ pending = {}
  BY <1>2, <1>7 DEF CleanInv, NoAnswers
<1>10. \A i \in DOMAIN events' : i = Len(events) + 1 /\ events'[i] = a
  BY <1>6, <1>9
<1>11. ctl' = (IF Accepts(c) THEN After ELSE Before)
  BY <1>1, <1>2, <1>7
<1> QED
  BY <1>1, <1>2, <1>3, <1>4, <1>5, <1>7, <1>8, <1>9, <1>10, <1>11 DEF CleanInv, NoAnswers

\* Awaiting a reset: a command, or its answer, is lost.
LEMMA LoseReset ==
  ASSUME HciTypes, TodoInv, LoseCommand, ResetInv, UNCHANGED <<stage, todo, written>>
  PROVE  ResetInv'
<1> DEFINE c == Head(commands)
<1>1. /\ commands # <<>> /\ commands' = Tail(commands) /\ events' = events
      /\ ctl' \in {ctl, Carried(c)}
  BY DEF LoseCommand
<1>2. c \in Cmds
  BY <1>1, Shifted DEF HciTypes
<1>3. /\ c = commands[1] /\ 1 \in DOMAIN commands
      /\ \A i \in DOMAIN commands' : i + 1 \in DOMAIN commands /\ commands'[i] = commands[i + 1] /\ i \in Int /\ i > 0
  BY <1>1, Shifted DEF HciTypes
<1>4. c.op = "reset" => ctl' \in {ctl, Idle}
  BY <1>1, <1>2, CarriedFacts DEF HciTypes
<1> HIDE DEF c
<1>5. ASSUME NEW i \in DOMAIN events, IsReset(events[i])
      PROVE  ctl' = Idle /\ \A j \in DOMAIN commands' : stage = "legacy" /\ commands'[j].op = "reset"
  BY <1>3, <1>4, <1>5 DEF ResetInv
<1>6. ASSUME NEW i \in DOMAIN commands', NEW j \in DOMAIN commands', i < j, commands'[i].op = "reset"
      PROVE  stage = "legacy" /\ commands'[j].op = "reset"
  BY <1>3, <1>6 DEF ResetInv
<1>7. ASSUME stage # "legacy", ~written
      PROVE  /\ \A i \in DOMAIN events' : ~IsReset(events'[i])
             /\ \A i \in DOMAIN commands' : commands'[i].op # "reset"
  BY <1>1, <1>3, <1>7 DEF ResetInv
<1>8. \A i \in DOMAIN events : IsReset(events[i]) =>
        \A j \in DOMAIN events : i < j => stage = "legacy" /\ IsReset(events[j])
  BY DEF ResetInv
<1> QED
  BY <1>1, <1>5, <1>6, <1>7, <1>8 DEF ResetInv

\* Awaiting the setup: a command, or its answer, is lost.
LEMMA LoseSetup ==
  ASSUME HciTypes, TodoInv, LoseCommand, SetupInv, UNCHANGED <<stage, todo, written, pending>>
  PROVE  SetupInv'
<1> DEFINE c == Head(commands)
<1>1. /\ commands # <<>> /\ commands' = Tail(commands) /\ events' = events
      /\ ctl' \in {ctl, Carried(c)}
  BY DEF LoseCommand
<1>2. c \in Cmds
  BY <1>1, Shifted DEF HciTypes
<1>3. /\ c = commands[1] /\ 1 \in DOMAIN commands /\ Len(commands') = Len(commands) - 1
      /\ Len(commands) \in Nat
      /\ \A i \in DOMAIN commands' : i + 1 \in DOMAIN commands /\ commands'[i] = commands[i + 1] /\ i \in Int /\ i > 0
  BY <1>1, Shifted DEF HciTypes
<1>4. c.op \in {"reset", "setup"}
  BY <1>3 DEF SetupInv
<1>5. ctl' = Idle
  BY <1>1, <1>2, <1>4, CarriedFacts DEF HciTypes, SetupInv
<1> HIDE DEF c
<1>6. \A i \in DOMAIN events' : stage = "legacy" /\ IsReset(events'[i])
  BY <1>1 DEF SetupInv
<1>7. \A i \in DOMAIN commands' :
        \/ stage = "legacy" /\ commands'[i].op = "reset"
        \/ commands'[i].op = "setup" /\ written /\ i = Len(commands')
  BY <1>3 DEF SetupInv
<1> QED
  BY <1>5, <1>6, <1>7 DEF SetupInv

\* Awaiting a later command: it, or its answer, is lost.
LEMMA LoseClean ==
  ASSUME HciTypes, TodoInv, LoseCommand, CleanInv, Head(todo).op \notin {"reset", "setup"},
         UNCHANGED <<stage, todo, written, pending>>
  PROVE  CleanInv'
<1> DEFINE c == Head(commands)
<1>1. /\ commands # <<>> /\ commands' = Tail(commands) /\ events' = events
      /\ ctl' \in {ctl, Carried(c)} /\ UNCHANGED works
  BY DEF LoseCommand
<1>2. written /\ commands = <<Head(todo)>> /\ NoAnswers /\ ctl = Before
  BY <1>1 DEF CleanInv
<1>3. c = Head(todo) /\ commands' = <<>>
  BY <1>1, <1>2
<1>4. Carried(c) = After /\ ctl.scan = "off" /\ stage # "off"
  BY <1>2, <1>3, HeadCarried
<1>5. Before' = Before /\ After' = After /\ Params' = Params /\ Enable' = Enable
  BY DEF Before, After, Started, Params, Enable
<1>6. (\A i \in DOMAIN events : FALSE) /\ pending = {}
  BY <1>2, <1>4 DEF CleanInv, NoAnswers
<1> QED
  BY <1>1, <1>2, <1>3, <1>4, <1>5, <1>6 DEF CleanInv, NoAnswers

\* What is left to send after each command.
LEMMA TodoTails ==
  ASSUME TodoInv
  PROVE  \/ Head(todo) = Reset /\ Len(todo) > 1 /\ Head(Tail(todo)) = Setup
              /\ stage \in {"probe", "1M", "legacy"}
              /\ Tail(todo) = IF stage = "probe" THEN <<Setup, Features>> ELSE <<Setup, Params, Enable>>
         \/ Head(todo) = Setup /\ Len(todo) > 1 /\ stage \in {"probe", "1M", "legacy"}
              /\ Tail(todo) = IF stage = "probe" THEN <<Features>> ELSE <<Params, Enable>>
         \/ Head(todo) = Features /\ Len(todo) = 1 /\ stage = "probe"
         \/ Head(todo) = Params /\ Len(todo) > 1 /\ stage \in Scans /\ Tail(todo) = <<Enable>>
         \/ Head(todo) = Enable /\ Len(todo) = 1 /\ stage \in Scans
<1>1. CASE todo = <<Reset, Setup, Features>> /\ stage = "probe"
  BY <1>1
<1>2. CASE todo = <<Setup, Features>> /\ stage = "probe"
  BY <1>2
<1>3. CASE todo = <<Features>> /\ stage = "probe"
  BY <1>3
<1>4. CASE todo = <<Reset, Setup, Params, Enable>> /\ stage \in {"1M", "legacy"}
  BY <1>4
<1>5. CASE todo = <<Setup, Params, Enable>> /\ stage \in {"1M", "legacy"}
  BY <1>5
<1>6. CASE todo = <<Params, Enable>> /\ stage \in Scans
  BY <1>6
<1>7. CASE todo = <<Enable>> /\ stage \in Scans
  BY <1>7
<1> QED
  BY <1>1, <1>2, <1>3, <1>4, <1>5, <1>6, <1>7 DEF TodoInv

\* The commands of a stage are told apart.
LEMMA Commands ==
  /\ Reset.op = "reset" /\ Setup.op = "setup" /\ Features.op = "features"
  /\ Params.op \in {"params", "ext_params"} /\ Enable.op \in {"enable", "ext_enable"}
  /\ Features # Params /\ Features # Enable /\ Params # Enable
BY DEF Reset, Setup, Features, Params, Enable, Cmd

\* Writing a reset.
LEMMA SendReset ==
  ASSUME HciTypes, ResetInv, Head(todo) = Reset, ~written, written',
         commands' = Append(commands, Head(todo)), UNCHANGED <<stage, todo, events, ctl>>
  PROVE  ResetInv'
<1>1. Reset \in Cmds /\ Reset.op = "reset"
  BY DEF Cmds, Reset, Cmd
<1>2. /\ \A i \in DOMAIN commands : commands'[i] = commands[i] /\ i < Len(commands) + 1 /\ i \in Int
      /\ DOMAIN commands' = DOMAIN commands \cup {Len(commands) + 1}
      /\ commands'[Len(commands) + 1] = Reset /\ Len(commands) \in Nat
  BY <1>1, Appended DEF HciTypes
<1>3. ASSUME NEW i \in DOMAIN events, IsReset(events[i])
      PROVE  /\ ctl' = Idle
             /\ \A j \in DOMAIN events : i < j => stage = "legacy" /\ IsReset(events[j])
             /\ \A j \in DOMAIN commands' : stage = "legacy" /\ commands'[j].op = "reset"
  BY <1>1, <1>2, <1>3 DEF ResetInv
<1>4. ASSUME NEW i \in DOMAIN commands', NEW j \in DOMAIN commands', i < j, commands'[i].op = "reset"
      PROVE  stage = "legacy" /\ commands'[j].op = "reset"
  BY <1>1, <1>2, <1>4 DEF ResetInv
<1> QED
  BY <1>3, <1>4 DEF ResetInv

\* Writing the setup.
LEMMA SendSetup ==
  ASSUME HciTypes, SetupInv, Head(todo) = Setup, ~written, written',
         commands' = Append(commands, Head(todo)), UNCHANGED <<stage, todo, events, ctl, pending>>
  PROVE  SetupInv'
<1>1. Setup \in Cmds /\ Setup.op = "setup"
  BY DEF Cmds, Setup, Cmd
<1>2. /\ \A i \in DOMAIN commands : commands'[i] = commands[i]
      /\ DOMAIN commands' = DOMAIN commands \cup {Len(commands) + 1}
      /\ commands'[Len(commands) + 1] = Setup /\ Len(commands') = Len(commands) + 1
  BY <1>1, Appended DEF HciTypes
<1> QED
  BY <1>1, <1>2 DEF SetupInv

\* Writing a later command.
LEMMA SendClean ==
  ASSUME HciTypes, CleanInv, ~written, written', todo # <<>>,
         commands' = Append(commands, Head(todo)),
         UNCHANGED <<stage, todo, events, ctl, works, pending>>
  PROVE  CleanInv'
<1>1. commands' = <<Head(todo)>> /\ NoAnswers /\ ctl = Before
  <2>1. commands = <<>> /\ NoAnswers /\ ctl = Before
    BY DEF CleanInv
  <2> QED
    BY <2>1
<1>2. Before' = Before /\ After' = After /\ Params' = Params /\ Enable' = Enable
  BY DEF Before, After, Started, Params, Enable
<1> QED
  BY <1>1, <1>2 DEF CleanInv, NoAnswers

\* Awaiting a reset: a controller that scans reports an advert, so no reset was carried
\* out.
LEMMA ReportReset ==
  ASSUME HciTypes, ResetInv, ReportAdvert, UNCHANGED <<stage, todo, written>>
  PROVE  ResetInv'
<1> DEFINE e == Advert(ctl.scan)
<1>1. ctl.scan \in Scans /\ ctl # Idle
  BY DEF ReportAdvert, HciTypes, CtlType, Idle
<1>2. e \in Events /\ ~IsAnswer(e) /\ ~IsReset(e)
  BY <1>1, AdvertFacts DEF IsReset, IsAnswer
<1>3. events' = Append(events, e) /\ UNCHANGED <<commands, ctl>>
  BY DEF ReportAdvert
<1> HIDE DEF e
<1>4. /\ \A i \in DOMAIN events : events'[i] = events[i]
      /\ DOMAIN events' = DOMAIN events \cup {Len(events) + 1} /\ events'[Len(events) + 1] = e
  BY <1>2, <1>3, Appended DEF HciTypes
<1>5. \A i \in DOMAIN events' : ~IsReset(events'[i])
  BY <1>1, <1>2, <1>4 DEF ResetInv
<1> QED
  BY <1>3, <1>5 DEF ResetInv

\* Awaiting a later command: an advert is of the scan being started.
LEMMA ReportClean ==
  ASSUME HciTypes, TodoInv, CleanInv, ReportAdvert, UNCHANGED <<stage, todo, written, pending, works>>
  PROVE  CleanInv'
<1> DEFINE e == Advert(ctl.scan)
<1>1. ctl.scan \in Scans
  BY DEF ReportAdvert, HciTypes, CtlType
<1>2. e \in Events /\ ~IsAnswer(e) /\ e.scan = ctl.scan
  BY <1>1, AdvertFacts
<1>3. events' = Append(events, e) /\ UNCHANGED <<commands, ctl>>
  BY DEF ReportAdvert
<1> HIDE DEF e
<1>4. /\ \A i \in DOMAIN events : events'[i] = events[i]
      /\ DOMAIN events' = DOMAIN events \cup {Len(events) + 1} /\ events'[Len(events) + 1] = e
  BY <1>2, <1>3, Appended DEF HciTypes
<1>5. Before.scan = "off"
  BY DEF Before, Started, Idle
<1>6. ctl = After /\ ctl # Before
  BY <1>1, <1>5 DEF CleanInv, Scans
<1>7. ctl.scan = stage
  BY <1>1, <1>6 DEF After, Started, Idle, Scans
<1>8. Before' = Before /\ After' = After /\ Params' = Params /\ Enable' = Enable
  BY DEF Before, After, Started, Params, Enable
<1>9. \A i \in DOMAIN events' : (i \in DOMAIN events /\ events'[i] = events[i]) \/ events'[i] = e
  BY <1>4
<1>10. \A i \in DOMAIN events' : ~IsAnswer(events'[i]) => events'[i].scan = stage /\ ctl'.scan = stage
  BY <1>2, <1>3, <1>7, <1>9 DEF CleanInv
<1>11. \A i \in DOMAIN events' : IsAnswer(events'[i]) => i \in DOMAIN events /\ events'[i] = events[i]
  BY <1>2, <1>9
<1> QED
  BY <1>3, <1>6, <1>8, <1>10, <1>11 DEF CleanInv, NoAnswers

\* Awaiting a reset: another event is read.
LEMMA SkipReset ==
  ASSUME HciTypes, ResetInv, events # <<>>, events' = Tail(events), written, written',
         UNCHANGED <<stage, commands, ctl>>
  PROVE  ResetInv'
<1>1. \A i \in DOMAIN events' : i + 1 \in DOMAIN events /\ events'[i] = events[i + 1] /\ i \in Int
  BY Shifted DEF HciTypes
<1>2. ASSUME NEW i \in DOMAIN events', IsReset(events'[i])
      PROVE  /\ ctl' = Idle
             /\ \A j \in DOMAIN events' : i < j => stage = "legacy" /\ IsReset(events'[j])
             /\ \A j \in DOMAIN commands' : stage = "legacy" /\ commands'[j].op = "reset"
  BY <1>1, <1>2 DEF ResetInv
<1> QED
  BY <1>2 DEF ResetInv

\* Awaiting the setup: the answer of an older reset is read.
LEMMA SkipSetup ==
  ASSUME HciTypes, SetupInv, events # <<>>, events' = Tail(events), IsReset(Head(events)), written, written',
         UNCHANGED <<stage, commands, ctl, pending>>
  PROVE  SetupInv'
<1>1. /\ \A i \in DOMAIN events' : i + 1 \in DOMAIN events /\ events'[i] = events[i + 1] /\ i \in Int
      /\ Len(events') = Len(events) - 1 /\ Len(events) \in Nat
  BY Shifted DEF HciTypes
<1>2. ASSUME NEW i \in DOMAIN events'
      PROVE  \/ stage = "legacy" /\ IsReset(events'[i])
             \/ /\ IsAnswer(events'[i]) /\ events'[i].op = "setup"
                /\ written' /\ i = Len(events') /\ commands' = <<>>
  BY <1>1, <1>2 DEF SetupInv
<1> QED
  BY <1>2 DEF SetupInv

\* Awaiting a later command: an advert is read and kept.
LEMMA AdvertClean ==
  ASSUME HciTypes, CleanInv, events # <<>>, events' = Tail(events), ~IsAnswer(Head(events)),
         pending' = pending \cup {Head(events).scan}, written, written',
         UNCHANGED <<stage, todo, commands, ctl, works>>
  PROVE  CleanInv'
<1>1. /\ \A i \in DOMAIN events' : i + 1 \in DOMAIN events /\ events'[i] = events[i + 1] /\ i \in Int
      /\ Head(events) = events[1] /\ 1 \in DOMAIN events
  BY Shifted DEF HciTypes
<1>2. Before' = Before /\ After' = After /\ Params' = Params /\ Enable' = Enable
  BY DEF Before, After, Started, Params, Enable
<1>3. Head(events).scan = stage /\ ctl.scan = stage
  BY <1>1 DEF CleanInv
<1>4. \A i, j \in DOMAIN events' : IsAnswer(events'[i]) /\ IsAnswer(events'[j]) => i = j
  <2> SUFFICES ASSUME NEW i \in DOMAIN events', NEW j \in DOMAIN events',
                      IsAnswer(events'[i]), IsAnswer(events'[j])
               PROVE  i = j
    OBVIOUS
  <2>1. i + 1 = j + 1
    BY <1>1 DEF CleanInv
  <2> QED
    BY <1>1, <2>1
<1>5. NoAnswers => NoAnswers'
  BY <1>1 DEF NoAnswers
<1>6. \A i \in DOMAIN events' : IsAnswer(events'[i]) =>
       /\ events'[i].op = Head(todo).op
       /\ events'[i].ok => ctl = After /\ (Head(todo) = Params /\ stage # "legacy" => "ext" \in works)
  BY <1>1 DEF CleanInv
<1>7. \A i \in DOMAIN events' : ~IsAnswer(events'[i]) => events'[i].scan = stage /\ ctl.scan = stage
  BY <1>1 DEF CleanInv
<1> QED
  BY <1>2, <1>3, <1>4, <1>5, <1>6, <1>7 DEF CleanInv

\* The answer to a reset: whatever was before it is gone.
LEMMA ResetAnswered ==
  ASSUME HciTypes, ResetInv, events # <<>>, events' = Tail(events), IsReset(Head(events)),
         pending' = {}, UNCHANGED <<stage, commands, ctl>>
  PROVE  SetupInv'
<1>1. /\ \A i \in DOMAIN events' : i + 1 \in DOMAIN events /\ events'[i] = events[i + 1] /\ i \in Int /\ i > 0
      /\ Head(events) = events[1] /\ 1 \in DOMAIN events
  BY Shifted DEF HciTypes
<1>2. /\ ctl = Idle
      /\ \A j \in DOMAIN events : 1 < j => stage = "legacy" /\ IsReset(events[j])
      /\ \A j \in DOMAIN commands : stage = "legacy" /\ commands[j].op = "reset"
  BY <1>1 DEF ResetInv
<1> QED
  BY <1>1, <1>2 DEF SetupInv

\* An idle controller with nothing outstanding is where a scan begins.
LEMMA FreshClean ==
  ASSUME (\A i \in DOMAIN events' : FALSE), commands' = <<>>, ctl' = Idle, pending' = {}, ~written',
         Head(todo') \in {Features, Params'}
  PROVE  CleanInv'
<1>1. Params' # Enable' /\ Features # Enable'
  BY DEF Params, Enable, Features, Cmd
<1>2. Before' = Idle
  BY <1>1 DEF Before
<1>3. Head(todo') # Enable'
  BY <1>1
<1>4. \A s \in pending' : FALSE
  OBVIOUS
<1> QED
  BY <1>2, <1>3, <1>4 DEF CleanInv, NoAnswers

\* The answer to the setup: nothing is outstanding.
LEMMA SetupAnswered ==
  ASSUME HciTypes, SetupInv, events # <<>>, events' = Tail(events), IsAnswer(Head(events)),
         Head(events).op = "setup", UNCHANGED <<commands, ctl, pending>>
  PROVE  (\A i \in DOMAIN events' : FALSE) /\ commands' = <<>> /\ ctl' = Idle /\ pending' = {}
<1>1. /\ \A i \in DOMAIN events' : i + 1 \in DOMAIN events /\ events'[i] = events[i + 1] /\ i \in Int /\ i > 0
      /\ Head(events) = events[1] /\ 1 \in DOMAIN events
      /\ DOMAIN events' = 1..Len(events) - 1
  BY Shifted DEF HciTypes
<1>2. 1 = Len(events) /\ commands = <<>>
  BY <1>1 DEF SetupInv, IsReset
<1> QED
  BY <1>1, <1>2 DEF SetupInv

\* The answer to a later command: nothing but adverts of its scan is outstanding, and
\* the controller is where it led.
LEMMA CleanAnswered ==
  ASSUME HciTypes, CleanInv, written, events # <<>>, events' = Tail(events), IsAnswer(Head(events)),
         UNCHANGED <<commands>>
  PROVE  /\ commands' = <<>> /\ \A i \in DOMAIN events' : ~IsAnswer(events'[i])
         /\ \A i \in DOMAIN events' : events'[i].scan = stage /\ ctl.scan = stage
         /\ Head(events).ok => ctl = After /\ (Head(todo) = Params /\ stage # "legacy" => "ext" \in works)
<1>1. /\ \A i \in DOMAIN events' : i + 1 \in DOMAIN events /\ events'[i] = events[i + 1] /\ i \in Int /\ i > 0
      /\ Head(events) = events[1] /\ 1 \in DOMAIN events
  BY Shifted DEF HciTypes
<1>2. ~NoAnswers
  BY <1>1 DEF NoAnswers
<1>3. commands = <<>>
  BY <1>2 DEF CleanInv
<1>4. \A i \in DOMAIN events' : ~IsAnswer(events'[i])
  BY <1>1 DEF CleanInv
<1>5. \A i \in DOMAIN events' : events'[i].scan = stage /\ ctl.scan = stage
  BY <1>1, <1>4 DEF CleanInv
<1> QED
  BY <1>1, <1>3, <1>4, <1>5 DEF CleanInv

\* The answer to the probe: the scan is chosen.
LEMMA FeaturesAnswered ==
  ASSUME HciTypes, TodoInv, CleanInv, written, events # <<>>, events' = Tail(events), IsAnswer(Head(events)),
         Head(events).ok, Head(todo) = Features, UNCHANGED <<commands, ctl, pending>>,
         ~written', stage' \in Scans, Head(todo') = Params'
  PROVE  CleanInv'
<1>1. stage = "probe" /\ Features # Params /\ Features # Enable
  BY TodoTails, Commands
<1>2. ctl = Idle
  BY <1>1, CleanAnswered DEF After
<1>3. ctl.scan = "off" /\ ctl.scan # stage
  BY <1>1, <1>2 DEF Idle
<1>4. (\A i \in DOMAIN events' : FALSE) /\ commands' = <<>>
  BY <1>3, CleanAnswered
<1>5. pending = {}
  BY <1>3 DEF CleanInv
<1> QED
  BY <1>2, <1>4, <1>5, FreshClean

\* The answer to the parameters: the scan is enabled next.
LEMMA ParamsAnswered ==
  ASSUME HciTypes, TodoInv, CleanInv, written, events # <<>>, events' = Tail(events), IsAnswer(Head(events)),
         Head(events).ok, Head(todo) = Params, UNCHANGED <<stage, commands, ctl, pending, works>>,
         ~written', Head(todo') = Enable
  PROVE  CleanInv'
<1>1. stage \in Scans /\ Params # Enable /\ stage # "off"
  BY TodoTails, Commands DEF Scans
<1>2. ctl = [Started EXCEPT !.scan = "off"] /\ (stage # "legacy" => "ext" \in works)
  BY <1>1, CleanAnswered DEF After
<1>3. ctl.scan = "off"
  BY <1>2 DEF Started
<1>4. (\A i \in DOMAIN events' : FALSE) /\ commands' = <<>>
  BY <1>1, <1>3, CleanAnswered
<1>5. pending = {}
  BY <1>1, <1>3 DEF CleanInv
<1>6. Enable' = Enable /\ Params' = Params /\ Started' = Started
  BY DEF Enable, Params, Started
<1>7. ctl' = Before'
  BY <1>2, <1>6 DEF Before
<1>8. \A s \in pending' : FALSE
  BY <1>5
<1> QED
  BY <1>2, <1>4, <1>6, <1>7, <1>8 DEF CleanInv, NoAnswers

\* The answer to the last command: the controller scans as the thread believes.
LEMMA EnableAnswered ==
  ASSUME HciTypes, TodoInv, CleanInv, written, events # <<>>, events' = Tail(events), IsAnswer(Head(events)),
         Head(events).ok, Head(todo) = Enable, UNCHANGED <<stage, commands, ctl, pending, works>>,
         mode' = stage
  PROVE  ScanInv'
<1>1. stage \in Scans
  BY TodoTails, Commands
<1>2. ctl = Started
  <2>1. ctl = After
    BY CleanAnswered
  <2> QED
    BY <2>1, Commands DEF After
<1>6. stage # "legacy" => "ext" \in works
  BY DEF CleanInv
<1>3. Started' = Started
  BY DEF Started
<1>4. pending \subseteq {stage}
  BY DEF CleanInv
<1>5. commands' = <<>> /\ \A i \in DOMAIN events' : ~IsAnswer(events'[i]) => events'[i].scan = stage
  BY CleanAnswered
<1> QED
  BY <1>1, <1>2, <1>3, <1>4, <1>5, <1>6 DEF ScanInv

\* What can be outstanding of a stage that is given up: a reset only as the last of all.
LEMMA Outstanding ==
  ASSUME HciTypes, TodoInv, StartInv, written
  PROVE  /\ stage = "coded" => /\ \A i \in DOMAIN events : ~IsReset(events[i])
                               /\ \A i \in DOMAIN commands : commands[i].op # "reset"
         /\ stage = "1M" => /\ \A i \in DOMAIN events : IsReset(events[i]) =>
                                 /\ ctl = Idle
                                 /\ \A j \in DOMAIN events : ~(i < j)
                                 /\ \A j \in DOMAIN commands : FALSE
                            /\ \A i, j \in DOMAIN commands : ~(i < j /\ commands[i].op = "reset")
<1>1. CASE Head(todo).op = "reset"
  <2>1. ResetInv
    BY <1>1 DEF StartInv
  <2>2. stage # "coded"
    BY <1>1, TodoTails, Commands, TodoFacts
  <2> QED
    BY <2>1, <2>2 DEF ResetInv
<1>2. CASE Head(todo).op = "setup"
  <2>1. SetupInv
    BY <1>2 DEF StartInv
  <2>2. stage # "coded"
    BY <1>2, TodoTails, Commands, TodoFacts
  <2> QED
    BY <2>1, <2>2 DEF SetupInv, IsReset
<1>3. CASE Head(todo).op \notin {"reset", "setup"}
  <2>1. CleanInv
    BY <1>3 DEF StartInv
  <2>2. \A i \in DOMAIN events : ~IsReset(events[i])
    BY <1>3, <2>1 DEF CleanInv, IsReset, IsAnswer
  <2>3. commands = <<>> \/ commands = <<Head(todo)>>
    BY <2>1 DEF CleanInv
  <2>4. \A i \in DOMAIN commands : commands[i].op # "reset"
    BY <1>3, <2>3
  <2> QED
    BY <2>2, <2>4
<1> QED
  BY <1>1, <1>2, <1>3

\* The next stage awaits its reset.
LEMMA FallbackReset ==
  ASSUME HciTypes, TodoInv, StartInv, written, stage \in {"coded", "1M"},
         events' = events \/ (events # <<>> /\ events' = Tail(events)),
         UNCHANGED <<commands, ctl>>, ~written', stage' = IF stage = "coded" THEN "1M" ELSE "legacy"
  PROVE  ResetInv'
<1>1. CASE events' = events
  BY <1>1, Outstanding DEF ResetInv
<1>2. CASE events # <<>> /\ events' = Tail(events)
  <2>1. \A i \in DOMAIN events' : i + 1 \in DOMAIN events /\ events'[i] = events[i + 1] /\ i \in Int /\ i > 0
    BY <1>2, Shifted DEF HciTypes
  <2>2. CASE stage = "coded"
    BY <2>1, <2>2, Outstanding DEF ResetInv
  <2>3. CASE stage = "1M"
    <3>1. \A i \in DOMAIN events' : IsReset(events'[i]) =>
            /\ ctl' = Idle
            /\ \A j \in DOMAIN events' : ~(i < j)
            /\ \A j \in DOMAIN commands' : FALSE
      BY <2>1, <2>3, Outstanding
    <3>2. \A i, j \in DOMAIN commands' : ~(i < j /\ commands'[i].op = "reset")
      BY <2>3, Outstanding
    <3> QED
      BY <2>3, <3>1, <3>2 DEF ResetInv
  <2> QED
    BY <2>2, <2>3
<1> QED
  BY <1>1, <1>2

\* A third command appended to two.
LEMMA Longer ==
  ASSUME NEW a \in Cmds, NEW b \in Cmds, NEW c \in Cmds
  PROVE  Append(<<a, b>>, c) = <<a, b, c>>
<1> DEFINE s == Append(<<a, b>>, c)
           t == <<a, b, c>>
<1>1. <<a, b>> \in Seq(Cmds) /\ Len(<<a, b>>) = 2 /\ <<a, b>>[1] = a /\ <<a, b>>[2] = b
  OBVIOUS
<1>2. s \in Seq(Cmds) /\ Len(s) = 3 /\ s[1] = a /\ s[2] = b /\ s[3] = c
  BY <1>1, AppendProperties
<1>3. t \in Seq(Cmds) /\ Len(t) = 3 /\ t[1] = a /\ t[2] = b /\ t[3] = c
  OBVIOUS
<1> HIDE DEF s, t
<1>4. \A i \in 1..Len(s) : s[i] = t[i]
  <2>1. \A i \in 1..3 : i = 1 \/ i = 2 \/ i = 3
    OBVIOUS
  <2> QED
    BY <2>1, <1>2, <1>3
<1>5. s = t
  BY <1>2, <1>3, <1>4, SeqEqual
<1> QED
  BY <1>5 DEF s, t

\* Two commands after two.
LEMMA Joined ==
  ASSUME NEW a \in Cmds, NEW b \in Cmds, NEW c \in Cmds, NEW d \in Cmds
  PROVE  <<a, b>> \o <<c, d>> = <<a, b, c, d>>
<1> DEFINE s == <<a, b>> \o <<c, d>>
           t == <<a, b, c, d>>
<1>1. s \in Seq(Cmds) /\ t \in Seq(Cmds)
  OBVIOUS
<1>2. Len(s) = 4 /\ Len(t) = 4
  OBVIOUS
<1>3. s[1] = a /\ s[2] = b /\ s[3] = c /\ s[4] = d
  OBVIOUS
<1>4. t[1] = a /\ t[2] = b /\ t[3] = c /\ t[4] = d
  OBVIOUS
<1> HIDE DEF s, t
<1>5. \A i \in 1..Len(s) : s[i] = t[i]
  <2>1. \A i \in 1..4 : i = 1 \/ i = 2 \/ i = 3 \/ i = 4
    OBVIOUS
  <2> QED
    BY <2>1, <1>2, <1>3, <1>4
<1>6. s = t
  BY <1>1, <1>2, <1>5, SeqEqual
<1> QED
  BY <1>6 DEF s, t

\* What the stages begin with.
LEMMA Stages ==
  /\ Reset \in Cmds /\ Reset.op = "reset"
  /\ Append(BaseInit, Cmd("features", "-")) = <<Reset, Setup, Features>>
  /\ BaseInit \o StartLegacy = <<Reset, Setup, Cmd("params", "-"), Cmd("enable", "on")>>
  /\ BaseInit \o StartExtended("1M") = <<Reset, Setup, Cmd("ext_params", "1M"), Cmd("ext_enable", "on")>>
<1>1. Reset \in Cmds /\ Reset.op = "reset"
  BY DEF Cmds, Reset, Cmd
<1>2. Append(BaseInit, Cmd("features", "-")) = <<Reset, Setup, Features>>
  <2>1. BaseInit = <<Reset, Setup>>
    BY DEF BaseInit, Reset, Setup
  <2>2. Reset \in Cmds /\ Setup \in Cmds /\ Features \in Cmds
    BY DEF Cmds
  <2> QED
    BY <2>1, <2>2, Longer DEF Features
<1>3. \A a, b, c, d \in Cmds : <<a, b>> \o <<c, d>> = <<a, b, c, d>>
  BY Joined
<1>6. Reset \in Cmds /\ Setup \in Cmds
  BY DEF Cmds
<1>4. BaseInit \o StartLegacy = <<Reset, Setup, Cmd("params", "-"), Cmd("enable", "on")>>
  <2>1. Cmd("params", "-") \in Cmds /\ Cmd("enable", "on") \in Cmds
    BY DEF Cmds
  <2> QED
    BY <1>3, <1>6, <2>1 DEF BaseInit, StartLegacy, Reset, Setup
<1>5. BaseInit \o StartExtended("1M") = <<Reset, Setup, Cmd("ext_params", "1M"), Cmd("ext_enable", "on")>>
  <2>1. Cmd("ext_params", "1M") \in Cmds /\ Cmd("ext_enable", "on") \in Cmds
    BY DEF Cmds
  <2> QED
    BY <1>3, <1>6, <2>1 DEF BaseInit, StartExtended, Reset, Setup
<1> QED
  BY <1>1, <1>2, <1>4, <1>5

\* A refusal or a time limit: the next stage, or the end of start().
LEMMA FallsBack ==
  ASSUME HciTypes, TodoInv, StartInv, written, Fallback,
         events' = events \/ (events # <<>> /\ events' = Tail(events)),
         UNCHANGED <<commands, ctl, channel, works, slow>>, thread = "start", channel = "open"
  PROVE  HciInv'
<1>1. HciTypes'
  <2>1. events' \in Seq(Events)
    BY Shifted DEF HciTypes
  <2>2. written' \in BOOLEAN /\ leaving' \in {"reopen", "fallback", "ended", "dead"}
    BY DEF Fallback, Enter, Fail, HciTypes
  <2> QED
    BY <2>1, <2>2 DEF HciTypes, CtlType
<1>2. CASE stage = "coded"
  <2>1. stage' = "1M" /\ todo' = BaseInit \o StartExtended("1M") /\ ~written' /\ thread' = thread
    BY <1>2 DEF Fallback, Enter
  <2>2. Params' = Cmd("ext_params", "1M") /\ Enable' = Cmd("ext_enable", "on")
    BY <2>1 DEF Params, Enable
  <2>3. todo' = <<Reset, Setup, Params', Enable'>>
    BY <2>1, <2>2, Stages
  <2>4. TodoInv'
    BY <2>1, <2>3 DEF TodoInv
  <2>5. Head(todo').op = "reset"
    BY <2>3, Stages
  <2>6. ResetInv'
    BY <1>2, <2>1, FallbackReset
  <2> QED
    BY <1>1, <2>1, <2>4, <2>5, <2>6 DEF HciInv, StartInv
<1>3. CASE stage = "1M"
  <2>1. stage' = "legacy" /\ todo' = BaseInit \o StartLegacy /\ ~written' /\ thread' = thread
    BY <1>3 DEF Fallback, Enter
  <2>2. Params' = Cmd("params", "-") /\ Enable' = Cmd("enable", "on")
    BY <2>1 DEF Params, Enable
  <2>3. todo' = <<Reset, Setup, Params', Enable'>>
    BY <2>1, <2>2, Stages
  <2>4. TodoInv'
    BY <2>1, <2>3 DEF TodoInv
  <2>5. Head(todo').op = "reset"
    BY <2>3, Stages
  <2>6. ResetInv'
    BY <1>3, <2>1, FallbackReset
  <2> QED
    BY <1>1, <2>1, <2>4, <2>5, <2>6 DEF HciInv, StartInv
<1>4. CASE stage \notin {"coded", "1M"}
  <2>1. thread' \in {"stop", "wait"}
    BY <1>4 DEF Fallback, Fail
  <2> QED
    BY <1>1, <2>1 DEF HciInv
<1> QED
  BY <1>2, <1>3, <1>4

\* A command of start() succeeded: each command leads to the invariant of the next.
LEMMA Advances ==
  ASSUME HciTypes, TodoInv, StartInv, written, Advance, IsAnswer(Head(events)),
         Head(events).op = Head(todo).op, Head(events).ok,
         events # <<>>, events' = Tail(events), pending' = PendingAfter(Head(todo)),
         UNCHANGED <<commands, ctl, channel, works, slow>>, thread = "start", channel = "open"
  PROVE  HciInv'
<1>1. HciTypes'
  <2>1. events' \in Seq(Events)
    BY Shifted DEF HciTypes
  <2>2. written' \in BOOLEAN /\ leaving' = leaving
    BY DEF Advance, Enter
  <2> QED
    BY <2>1, <2>2 DEF HciTypes, CtlType
<1>2. CASE Head(todo) = Reset
  <2>1. Head(todo).op = "reset" /\ Len(todo) > 1 /\ Head(Tail(todo)) = Setup
        /\ stage \in {"probe", "1M", "legacy"}
        /\ Tail(todo) = IF stage = "probe" THEN <<Setup, Features>> ELSE <<Setup, Params, Enable>>
    BY <1>2, TodoTails, Commands
  <2>2. stage' = stage /\ todo' = Tail(todo) /\ ~written' /\ thread' = thread /\ pending' = {}
    BY <2>1 DEF Advance, Enter, PendingAfter
  <2>3. Params' = Params /\ Enable' = Enable
    BY <2>2 DEF Params, Enable
  <2>4. TodoInv'
    BY <2>1, <2>2, <2>3 DEF TodoInv
  <2>5. ResetInv /\ IsReset(Head(events))
    BY <2>1 DEF StartInv, IsReset, IsAnswer
  <2>6. SetupInv'
    BY <2>2, <2>5, ResetAnswered
  <2>7. Head(todo').op = "setup"
    BY <2>1, <2>2, Commands
  <2> QED
    BY <1>1, <2>2, <2>4, <2>6, <2>7 DEF HciInv, StartInv
<1>3. CASE Head(todo) = Setup
  <2>1. Head(todo).op = "setup" /\ Len(todo) > 1 /\ stage \in {"probe", "1M", "legacy"}
        /\ Tail(todo) = IF stage = "probe" THEN <<Features>> ELSE <<Params, Enable>>
    BY <1>3, TodoTails, Commands
  <2>2. stage' = stage /\ todo' = Tail(todo) /\ ~written' /\ thread' = thread /\ pending' = pending
    BY <2>1 DEF Advance, Enter, PendingAfter
  <2>3. Params' = Params /\ Enable' = Enable
    BY <2>2 DEF Params, Enable
  <2>4. TodoInv'
    BY <2>1, <2>2, <2>3 DEF TodoInv, Scans
  <2>5. SetupInv
    BY <2>1 DEF StartInv
  <2>6. (\A i \in DOMAIN events' : FALSE) /\ commands' = <<>> /\ ctl' = Idle /\ pending' = {}
    BY <2>1, <2>2, <2>5, SetupAnswered
  <2>7. Head(todo') \in {Features, Params'}
    <3>1. Head(<<Features>>) = Features /\ Head(<<Params, Enable>>) = Params
      OBVIOUS
    <3>2. todo' = IF stage = "probe" THEN <<Features>> ELSE <<Params, Enable>>
      BY <2>1, <2>2
    <3>3. Head(todo') = IF stage = "probe" THEN Features ELSE Params
      BY <3>1, <3>2
    <3> QED
      BY <2>3, <3>3
  <2>8. CleanInv'
    BY <2>2, <2>6, <2>7, FreshClean
  <2>9. Head(todo').op \notin {"reset", "setup"}
    BY <2>3, <2>7, Commands
  <2> QED
    BY <1>1, <2>2, <2>4, <2>8, <2>9 DEF HciInv, StartInv
<1>4. CASE Head(todo) = Features
  <2>1. Head(todo).op = "features" /\ Len(todo) = 1 /\ stage = "probe"
    BY <1>4, TodoTails, Commands
  <2>2. \/ \E phys \in {"coded", "1M"} : Enter(phys, StartExtended(phys))
        \/ Enter("legacy", StartLegacy)
    BY <2>1 DEF Advance
  <2>3. stage' \in Scans /\ todo' = <<Params', Enable'>> /\ ~written' /\ thread' = thread
    <3>1. ASSUME NEW phys \in {"coded", "1M"}, Enter(phys, StartExtended(phys))
          PROVE  stage' \in Scans /\ todo' = <<Params', Enable'>> /\ ~written' /\ thread' = thread
      BY <3>1 DEF Enter, StartExtended, Params, Enable, Scans
    <3>2. ASSUME Enter("legacy", StartLegacy)
          PROVE  stage' \in Scans /\ todo' = <<Params', Enable'>> /\ ~written' /\ thread' = thread
      BY <3>2 DEF Enter, StartLegacy, Params, Enable, Scans
    <3> QED
      BY <2>2, <3>1, <3>2
  <2>4. pending' = pending
    BY <2>1 DEF PendingAfter
  <2>5. CleanInv /\ Head(todo') = Params'
    BY <2>1, <2>3 DEF StartInv
  <2>6. CleanInv'
    BY <1>4, <2>3, <2>4, <2>5, FeaturesAnswered
  <2>7. TodoInv'
    BY <2>3 DEF TodoInv
  <2>8. Params'.op \notin {"reset", "setup"}
    BY DEF Params, Cmd
  <2> QED
    BY <1>1, <2>3, <2>5, <2>6, <2>7, <2>8 DEF HciInv, StartInv
<1>5. CASE Head(todo) = Params
  <2>1. Head(todo).op \notin {"reset", "setup"} /\ Len(todo) > 1 /\ stage \in Scans /\ Tail(todo) = <<Enable>>
    BY <1>5, TodoTails, Commands
  <2>2. stage' = stage /\ todo' = Tail(todo) /\ ~written' /\ thread' = thread /\ pending' = pending
    BY <2>1 DEF Advance, Enter, PendingAfter
  <2>3. Enable' = Enable /\ Head(todo') = Enable
    <3>1. Head(<<Enable>>) = Enable
      OBVIOUS
    <3>2. Head(todo') = Enable
      BY <2>1, <2>2, <3>1
    <3> QED
      BY <2>2, <3>2 DEF Enable
  <2>4. TodoInv'
    BY <2>1, <2>2, <2>3 DEF TodoInv
  <2>5. CleanInv
    BY <2>1 DEF StartInv
  <2>6. CleanInv'
    BY <1>5, <2>2, <2>3, <2>5, ParamsAnswered
  <2>7. Head(todo').op \notin {"reset", "setup"}
    BY <2>3, Commands
  <2> QED
    BY <1>1, <2>2, <2>4, <2>6, <2>7 DEF HciInv, StartInv
<1>6. CASE Head(todo) = Enable
  <2>1. Head(todo).op \notin {"reset", "setup"} /\ Len(todo) = 1 /\ stage \in Scans
    BY <1>6, TodoTails, Commands
  <2>2. thread' = "scan" /\ mode' = stage /\ stage' = stage /\ pending' = pending
    BY <2>1 DEF Advance, PendingAfter, Scans
  <2>3. CleanInv
    BY <2>1 DEF StartInv
  <2>4. ScanInv'
    BY <1>6, <2>2, <2>3, EnableAnswered
  <2> QED
    BY <1>1, <2>2, <2>4 DEF HciInv
<1> QED
  BY <1>2, <1>3, <1>4, <1>5, <1>6, TodoFacts

\* An event is read by _command.
LEMMA Reads ==
  ASSUME HciInv, ReadEvent
  PROVE  HciInv'
<1>1. /\ thread = "start" /\ written /\ events # <<>> /\ channel = "open" /\ events' = Tail(events)
      /\ UNCHANGED <<channel, slow, works, ctl, commands>>
      /\ HciTypes /\ TodoInv /\ StartInv
  BY DEF ReadEvent, HciInv
<1>2. Head(events) \in Events /\ events' \in Seq(Events)
  BY <1>1, Shifted DEF HciTypes
<1> DEFINE Skipped == /\ UNCHANGED <<thread, leaving, stage, todo, written>>
                      /\ \/ ~IsAnswer(Head(events)) /\ pending' = pending \cup {Head(events).scan}
                         \/ IsAnswer(Head(events)) /\ Head(events).op # Head(todo).op /\ pending' = pending
<1>3. CASE Skipped
  <2>1. HciTypes'
    BY <1>1, <1>2, <1>3 DEF HciTypes, CtlType
  <2>2. Params' = Params /\ Enable' = Enable
    BY <1>3 DEF Params, Enable
  <2>3. TodoInv'
    BY <1>1, <1>3, <2>2 DEF TodoInv
  <2>4. CASE Head(todo).op = "reset"
    <3>1. ResetInv'
      BY <1>1, <1>3, <2>4, SkipReset DEF StartInv
    <3> QED
      BY <1>1, <1>3, <2>1, <2>3, <2>4, <3>1 DEF HciInv, StartInv
  <2>5. CASE Head(todo).op = "setup"
    <3>1. SetupInv /\ Head(events) = events[1] /\ 1 \in DOMAIN events
      BY <1>1, <2>5, Shifted DEF StartInv, HciTypes
    <3>2. IsReset(Head(events))
      BY <1>3, <2>5, <3>1 DEF SetupInv, IsReset, IsAnswer
    <3>3. pending' = pending
      BY <1>3, <3>2 DEF IsReset, IsAnswer
    <3>4. SetupInv'
      BY <1>1, <1>3, <3>1, <3>2, <3>3, SkipSetup
    <3> QED
      BY <1>1, <1>3, <2>1, <2>3, <2>5, <3>4 DEF HciInv, StartInv
  <2>6. CASE Head(todo).op \notin {"reset", "setup"}
    <3>1. CleanInv /\ Head(events) = events[1] /\ 1 \in DOMAIN events
      BY <1>1, <2>6, Shifted DEF StartInv, HciTypes
    <3>2. ~IsAnswer(Head(events)) /\ pending' = pending \cup {Head(events).scan}
      BY <1>3, <3>1 DEF CleanInv
    <3>3. CleanInv'
      BY <1>1, <1>3, <3>1, <3>2, AdvertClean
    <3> QED
      BY <1>1, <1>3, <2>1, <2>3, <2>6, <3>3 DEF HciInv, StartInv
  <2> QED
    BY <2>4, <2>5, <2>6
<1>4. CASE IsAnswer(Head(events)) /\ Head(events).op = Head(todo).op /\ Head(events).ok
  <2>1. Advance /\ pending' = PendingAfter(Head(todo))
    BY <1>4 DEF ReadEvent, IsAnswer
  <2> QED
    BY <1>1, <1>4, <2>1, Advances
<1>5. CASE IsAnswer(Head(events)) /\ Head(events).op = Head(todo).op /\ ~Head(events).ok
  <2>1. Fallback
    BY <1>5 DEF ReadEvent, IsAnswer
  <2> QED
    BY <1>1, <2>1, FallsBack
<1>6. Skipped \/ (IsAnswer(Head(events)) /\ Head(events).op = Head(todo).op)
  BY <1>2, EventFacts DEF ReadEvent, IsAnswer
<1> QED
  BY <1>3, <1>4, <1>5, <1>6

\* A step that changes nothing the invariant looks at.
LEMMA Untouched ==
  ASSUME HciInv, slow' \in BOOLEAN,
         UNCHANGED <<thread, leaving, stage, todo, written, mode, pending, channel, works, ctl, commands, events>>
  PROVE  HciInv'
<1>1. HciTypes'
  BY DEF HciInv, HciTypes, CtlType
<1>2. Params' = Params /\ Enable' = Enable /\ Started' = Started
  BY DEF Params, Enable, Started
<1>3. Before' = Before /\ After' = After /\ NoAnswers' = NoAnswers
  BY <1>2 DEF Before, After, NoAnswers
<1>4. TodoInv => TodoInv'
  BY <1>2 DEF TodoInv
<1>5. ResetInv => ResetInv'
  BY DEF ResetInv
<1>6. SetupInv => SetupInv'
  BY DEF SetupInv
<1>7. CleanInv => CleanInv'
  BY <1>2, <1>3 DEF CleanInv
<1>8. ScanInv => ScanInv'
  BY <1>2 DEF ScanInv
<1>9. StartInv => StartInv'
  BY <1>5, <1>6, <1>7 DEF StartInv
<1> QED
  BY <1>1, <1>4, <1>8, <1>9 DEF HciInv

\* Outside start() and the scan, the types and a closed channel are all there is.
LEMMA Elsewhere ==
  ASSUME HciTypes', thread' \notin {"start", "scan"},
         \/ thread' \in {"wait", "stop", "close"}
         \/ channel' = "closed" /\ commands' = <<>> /\ events' = <<>>
  PROVE  HciInv'
BY DEF HciInv

\* TodoInv looks at the stage and what is left of it.
LEMMA TodoKept ==
  ASSUME TodoInv, UNCHANGED <<stage, todo>>
  PROVE  TodoInv'
<1>1. Params' = Params /\ Enable' = Enable
  BY DEF Params, Enable
<1> QED
  BY <1>1 DEF TodoInv

\* The dongle is pulled.
LEMMA Pulls ==
  ASSUME HciInv, Pull
  PROVE  HciInv'
<1>1. /\ channel' # "open" /\ commands' = <<>> /\ events' = <<>> /\ ctl' = Idle
      /\ UNCHANGED <<thread, leaving, stage, todo, written, mode, pending, works, slow>>
      /\ channel = "closed" => channel' = "closed"
  BY DEF Pull, threadVars
<1>2. HciTypes'
  BY <1>1 DEF HciInv, HciTypes, CtlType, Idle
<1>3. thread = "start" => TodoInv'
  BY <1>1, TodoKept DEF HciInv
<1> QED
  BY <1>1, <1>2, <1>3 DEF HciInv

\* The controller answers.
LEMMA Answering ==
  ASSUME HciInv, AnswerCommand
  PROVE  HciInv'
<1>1. /\ commands # <<>> /\ commands' = Tail(commands)
      /\ events' = Append(events, Answer(Head(commands), Accepts(Head(commands))))
      /\ ctl' \in {ctl, Carried(Head(commands))}
      /\ UNCHANGED <<channel, slow, works, thread, leaving, stage, todo, written, mode, pending>>
      /\ HciTypes
  BY DEF AnswerCommand, threadVars, HciInv
<1>2. commands' \in Seq(Cmds) /\ Head(commands) \in Cmds
  BY <1>1, Shifted DEF HciTypes
<1>3. events' \in Seq(Events)
  BY <1>1, <1>2, CarriedFacts, AnswerFacts, Appended DEF HciTypes
<1>4. HciTypes'
  BY <1>1, <1>2, <1>3, CarriedFacts DEF HciTypes, CtlType
<1>5. thread \in {"start", "scan", "wait", "stop", "close"}
  BY <1>1 DEF HciInv
<1>6. ~(thread = "scan" /\ channel = "open")
  BY <1>1 DEF HciInv, ScanInv
<1>7. ASSUME thread = "start", channel = "open"
      PROVE  TodoInv' /\ StartInv'
  <2>1. TodoInv /\ StartInv
    BY <1>7 DEF HciInv
  <2>2. TodoInv'
    BY <1>1, <2>1, TodoKept
  <2>3. CASE Head(todo).op = "reset"
    BY <1>1, <2>1, <2>2, <2>3, AnswerReset DEF StartInv
  <2>4. CASE Head(todo).op = "setup"
    BY <1>1, <2>1, <2>2, <2>4, AnswerSetup DEF StartInv
  <2>5. CASE Head(todo).op \notin {"reset", "setup"}
    BY <1>1, <2>1, <2>2, <2>5, AnswerClean DEF StartInv
  <2> QED
    BY <2>3, <2>4, <2>5
<1>8. thread = "start" => TodoInv'
  BY <1>1, TodoKept DEF HciInv
<1> QED
  BY <1>1, <1>4, <1>5, <1>6, <1>7, <1>8 DEF HciInv

\* The controller loses a command or an answer.
LEMMA Losing ==
  ASSUME HciInv, LoseCommand
  PROVE  HciInv'
<1>1. /\ commands # <<>> /\ commands' = Tail(commands)
      /\ ctl' \in {ctl, Carried(Head(commands))}
      /\ UNCHANGED <<events, channel, slow, works, thread, leaving, stage, todo, written, mode, pending>>
      /\ HciTypes
  BY DEF LoseCommand, threadVars, HciInv
<1>2. commands' \in Seq(Cmds) /\ Head(commands) \in Cmds
  BY <1>1, Shifted DEF HciTypes
<1>4. HciTypes'
  BY <1>1, <1>2, CarriedFacts DEF HciTypes, CtlType
<1>5. thread \in {"start", "scan", "wait", "stop", "close"}
  BY <1>1 DEF HciInv
<1>6. ~(thread = "scan" /\ channel = "open")
  BY <1>1 DEF HciInv, ScanInv
<1>7. ASSUME thread = "start", channel = "open"
      PROVE  TodoInv' /\ StartInv'
  <2>1. TodoInv /\ StartInv
    BY <1>7 DEF HciInv
  <2>2. TodoInv'
    BY <1>1, <2>1, TodoKept
  <2>3. CASE Head(todo).op = "reset"
    BY <1>1, <2>1, <2>2, <2>3, LoseReset DEF StartInv
  <2>4. CASE Head(todo).op = "setup"
    BY <1>1, <2>1, <2>2, <2>4, LoseSetup DEF StartInv
  <2>5. CASE Head(todo).op \notin {"reset", "setup"}
    BY <1>1, <2>1, <2>2, <2>5, LoseClean DEF StartInv
  <2> QED
    BY <2>3, <2>4, <2>5
<1>8. thread = "start" => TodoInv'
  BY <1>1, TodoKept DEF HciInv
<1> QED
  BY <1>1, <1>4, <1>5, <1>6, <1>7, <1>8 DEF HciInv

\* While it scans, an advert is of this scan.
LEMMA ReportScan ==
  ASSUME HciTypes, ScanInv, ReportAdvert, UNCHANGED <<stage, mode, pending, works>>
  PROVE  ScanInv'
<1> DEFINE e == Advert(ctl.scan)
<1>1. ctl.scan = stage /\ stage \in Scans
  BY DEF ScanInv, Started
<1>2. e \in Events /\ e.scan = stage
  BY <1>1, AdvertFacts
<1>3. events' = Append(events, e) /\ UNCHANGED <<commands, ctl>>
  BY DEF ReportAdvert
<1> HIDE DEF e
<1>4. /\ \A i \in DOMAIN events : events'[i] = events[i]
      /\ DOMAIN events' = DOMAIN events \cup {Len(events) + 1} /\ events'[Len(events) + 1] = e
  BY <1>2, <1>3, Appended DEF HciTypes
<1>5. Started' = Started
  BY DEF Started
<1> QED
  BY <1>2, <1>3, <1>4, <1>5 DEF ScanInv

\* The controller reports an advert.
LEMMA Reporting ==
  ASSUME HciInv, ReportAdvert
  PROVE  HciInv'
<1>1. /\ channel = "open" /\ ctl.scan # "off" /\ events' = Append(events, Advert(ctl.scan))
      /\ UNCHANGED <<commands, ctl, channel, slow, works, thread, leaving, stage, todo, written, mode, pending>>
      /\ HciTypes
  BY DEF ReportAdvert, threadVars, HciInv
<1>2. ctl.scan \in Scans
  BY <1>1 DEF HciTypes, CtlType
<1>3. events' \in Seq(Events)
  BY <1>1, <1>2, AdvertFacts, Appended DEF HciTypes
<1>4. HciTypes'
  BY <1>1, <1>3 DEF HciTypes, CtlType
<1>5. thread \in {"start", "scan", "wait", "stop", "close"}
  BY <1>1 DEF HciInv
<1>6. thread = "scan" => ScanInv'
  BY <1>1, ReportScan DEF HciInv
<1>7. ASSUME thread = "start"
      PROVE  TodoInv' /\ StartInv'
  <2>1. TodoInv /\ StartInv
    BY <1>1, <1>7 DEF HciInv
  <2>2. TodoInv'
    BY <1>1, <2>1, TodoKept
  <2>3. CASE Head(todo).op = "reset"
    BY <1>1, <2>1, <2>2, <2>3, ReportReset DEF StartInv
  <2>4. CASE Head(todo).op = "setup"
    BY <1>1, <2>1, <2>4 DEF StartInv, SetupInv, Idle
  <2>5. CASE Head(todo).op \notin {"reset", "setup"}
    BY <1>1, <2>1, <2>2, <2>5, ReportClean DEF StartInv
  <2> QED
    BY <2>3, <2>4, <2>5
<1> QED
  BY <1>1, <1>4, <1>5, <1>6, <1>7 DEF HciInv

\* The channel opens with nothing outstanding, whatever the controller did before.
LEMMA Opening ==
  ASSUME HciInv, OpenChannel
  PROVE  HciInv'
<1>1. /\ thread = "open" /\ thread' = "start" /\ channel' = "open" /\ stage' = "probe" /\ ~written'
      /\ todo' = Append(BaseInit, Cmd("features", "-")) /\ written' = FALSE
      /\ UNCHANGED <<leaving, slow, works, ctl, commands, events>>
      /\ HciTypes /\ commands = <<>> /\ events = <<>>
  BY DEF OpenChannel, HciInv
<1>2. HciTypes'
  BY <1>1 DEF HciTypes, CtlType
<1>3. todo' = <<Reset, Setup, Features>>
  BY <1>1, Stages
<1>4. TodoInv'
  BY <1>1, <1>3 DEF TodoInv
<1>5. Head(todo').op = "reset"
  BY <1>3, Stages
<1>6. ResetInv'
  BY <1>1 DEF ResetInv
<1> QED
  BY <1>1, <1>2, <1>4, <1>5, <1>6 DEF HciInv, StartInv

\* An exception ends start() or the scan.
LEMMA Failing ==
  ASSUME HciInv, Fail, UNCHANGED <<slow, works, ctl, commands, events>>
  PROVE  HciInv'
<1>1. HciTypes'
  BY DEF Fail, HciInv, HciTypes, CtlType
<1>2. thread' \in {"stop", "wait"}
  BY DEF Fail
<1> QED
  BY <1>1, <1>2, Elsewhere

\* A command of start() is written.
LEMMA Sending ==
  ASSUME HciInv, SendCommand
  PROVE  HciInv'
<1>1. CASE channel = "open"
  <2>1. /\ thread = "start" /\ ~written /\ written' /\ commands' = Append(commands, Head(todo))
        /\ written' = TRUE
        /\ UNCHANGED <<thread, leaving, todo, stage, mode, pending, channel, slow, works, ctl, events>>
        /\ HciTypes /\ TodoInv /\ StartInv
    BY <1>1 DEF SendCommand, HciInv
  <2>2. Head(todo) \in Cmds /\ todo # <<>>
    BY <2>1, TodoFacts
  <2>3. commands' \in Seq(Cmds)
    BY <2>1, <2>2, Appended DEF HciTypes
  <2>4. HciTypes'
    BY <2>1, <2>3 DEF HciTypes, CtlType
  <2>5. TodoInv'
    BY <2>1, TodoKept
  <2>6. CASE Head(todo).op = "reset"
    <3>1. Head(todo) = Reset
      BY <2>2, <2>6, CmdFacts
    <3>2. ResetInv'
      BY <2>1, <2>6, <3>1, SendReset DEF StartInv
    <3> QED
      BY <2>1, <2>4, <2>5, <2>6, <3>2 DEF HciInv, StartInv
  <2>7. CASE Head(todo).op = "setup"
    <3>1. Head(todo) = Setup
      BY <2>2, <2>7, CmdFacts
    <3>2. SetupInv'
      BY <2>1, <2>7, <3>1, SendSetup DEF StartInv
    <3> QED
      BY <2>1, <2>4, <2>5, <2>7, <3>2 DEF HciInv, StartInv
  <2>8. CASE Head(todo).op \notin {"reset", "setup"}
    <3>1. CleanInv'
      BY <2>1, <2>2, <2>8, SendClean DEF StartInv
    <3> QED
      BY <2>1, <2>4, <2>5, <2>8, <3>1 DEF HciInv, StartInv
  <2> QED
    BY <2>6, <2>7, <2>8
<1>2. CASE channel # "open"
  BY <1>2, Failing DEF SendCommand
<1> QED
  BY <1>1, <1>2

\* Adverts are handled.
LEMMA Scanning ==
  ASSUME HciInv, ReadReports
  PROVE  HciInv'
<1>1. /\ thread = "scan" /\ HciTypes
      /\ \/ pending' = {} /\ UNCHANGED events
         \/ pending' = pending /\ channel = "open" /\ events # <<>> /\ events' = Tail(events)
      /\ (thread' = thread /\ leaving' = leaving) \/ (thread' = "stop" /\ leaving' = "dead")
      /\ UNCHANGED <<stage, todo, written, mode, channel, slow, works, ctl, commands>>
  BY DEF ReadReports, HciInv
<1>2. events' \in Seq(Events)
  BY <1>1, Shifted DEF HciTypes
<1>3. HciTypes'
  BY <1>1, <1>2 DEF HciTypes, CtlType
<1>4. ASSUME channel = "open"
      PROVE  ScanInv'
  <2>1. ScanInv
    BY <1>1, <1>4 DEF HciInv
  <2>2. Started' = Started
    BY <1>1 DEF Started
  <2>3. \A i \in DOMAIN events' : \E j \in DOMAIN events : events'[i] = events[j]
    BY <1>1, Shifted DEF HciTypes
  <2>4. \A i \in DOMAIN events' : ~IsAnswer(events'[i]) => events'[i].scan = stage
    BY <2>1, <2>3 DEF ScanInv
  <2>5. pending' \subseteq {stage}
    BY <1>1, <2>1 DEF ScanInv
  <2> QED
    BY <1>1, <2>1, <2>2, <2>4, <2>5 DEF ScanInv
<1> QED
  BY <1>1, <1>3, <1>4 DEF HciInv

\* stop() writes its command.
LEMMA Stopping ==
  ASSUME HciInv, SendStop
  PROVE  HciInv'
<1>1. StopCommand \in Cmds
  BY DEF StopCommand, Cmds
<1>2. /\ thread' \in {"stop", "close"} /\ HciTypes
      /\ (commands' = commands /\ written' = written) \/ (commands' = Append(commands, StopCommand) /\ written' = TRUE)
      /\ UNCHANGED <<leaving, slow, works, ctl, events>>
  BY DEF SendStop, HciInv
<1>3. commands' \in Seq(Cmds)
  <2>1. CASE commands' = Append(commands, StopCommand)
    BY <1>1, <1>2, <2>1, Appended DEF HciTypes
  <2> QED
    BY <1>2, <2>1 DEF HciTypes
<1>4. HciTypes'
  BY <1>2, <1>3 DEF HciTypes, CtlType
<1> QED
  BY <1>2, <1>4, Elsewhere

\* The channel closes, and what was outstanding is gone with it.
LEMMA Closing ==
  ASSUME HciInv, CloseChannel
  PROVE  HciInv'
<1>1. /\ channel' = "closed" /\ commands' = <<>> /\ events' = <<>> /\ leaving' = "reopen" /\ HciTypes
      /\ UNCHANGED <<written, slow, works, ctl>>
  BY DEF CloseChannel, HciInv
<1>2. thread' \in {"loop", "ended", "bleak", "dead"}
  BY <1>1 DEF CloseChannel, Unavailable, HciTypes
<1>3. HciTypes'
  BY <1>1 DEF HciTypes, CtlType
<1> QED
  BY <1>1, <1>2, <1>3, Elsewhere

\* The remaining steps only move the thread, away from start() and the scan.
LEMMA Moving ==
  ASSUME HciInv, CheckStop \/ OpenFails \/ EndWait \/ EndStop \/ StopScanning \/ EndBleak
  PROVE  HciInv'
<1>1. /\ UNCHANGED <<channel, slow, works, ctl, commands, events>>
      /\ thread' \in {"open", "wait", "stop", "close", "loop", "pause", "ended", "bleak"}
      /\ thread' \in {"stop", "close"} \/ thread \notin {"start", "scan", "wait", "stop", "close"}
      /\ written' \in {written, FALSE} /\ leaving' \in {leaving, "ended"}
  BY DEF CheckStop, OpenFails, EndWait, EndStop, StopScanning, EndBleak, ctlVars, Unavailable
<1>2. HciTypes'
  BY <1>1 DEF HciInv, HciTypes, CtlType
<1> QED
  BY <1>1, <1>2, Elsewhere DEF HciInv

\* Each step keeps the invariant.
LEMMA HciKept ==
  ASSUME HciInv, [HciNext]_hciVars
  PROVE  HciInv'
<1>1. CASE Plug \/ Seize \/ ChangePace \/ StopHci \/ UNCHANGED hciVars
  <2>1. slow \in BOOLEAN
    BY DEF HciInv, HciTypes
  <2> QED
    BY <1>1, <2>1, Untouched DEF Plug, Seize, ChangePace, StopHci, hciVars, threadVars, ctlVars
<1>2. CASE TimeOut
  <2>1. /\ thread = "start" /\ written /\ channel = "open" /\ Fallback
        /\ UNCHANGED <<events, commands, ctl, channel, works, slow>>
    BY <1>2 DEF TimeOut, ctlVars
  <2>2. HciTypes /\ TodoInv /\ StartInv
    BY <2>1 DEF HciInv
  <2> QED
    BY <2>1, <2>2, FallsBack
<1>3. CASE ReadFails
  BY <1>3, Failing DEF ReadFails, ctlVars
<1> QED
  BY <1>1, <1>2, <1>3, Pulls, Answering, Losing, Reporting, Opening, Sending, Reads, Scanning,
     Stopping, Closing, Moving DEF HciNext, ScannerStep

\* What the invariant says of a scan is what the property promises.
LEMMA ReportedInScan ==
  ASSUME HciInv
  PROVE  ScanAsReported
<1> SUFFICES ASSUME thread = "scan", channel = "open"
             PROVE  /\ ctl.scan = mode
                    /\ pending \subseteq {mode}
                    /\ \A i \in DOMAIN events : events[i].type = "advert" => events[i].scan = mode
                    /\ Accepts(StopCommand) /\ Carried(StopCommand).scan = "off"
  BY DEF ScanAsReported
<1>1. /\ ctl = Started /\ mode = stage /\ stage \in Scans /\ pending \subseteq {stage}
      /\ stage # "legacy" => "ext" \in works
      /\ \A i \in DOMAIN events : ~IsAnswer(events[i]) => events[i].scan = stage
  BY DEF HciInv, ScanInv
<1>2. ctl.scan = mode
  BY <1>1 DEF Started
<1>3. CASE stage = "legacy"
  <2>1. StopCommand = Cmd("enable", "off") /\ ctl.family = "legacy"
    BY <1>1, <1>3 DEF StopCommand, Started
  <2>2. StopCommand.op = "enable" /\ StopCommand.arg = "off"
    BY <2>1 DEF Cmd
  <2>3. Accepts(StopCommand)
    BY <2>1, <2>2 DEF Accepts, Family
  <2>4. Carried(StopCommand) = [ctl EXCEPT !.family = "legacy", !.scan = "off"]
    BY <2>2 DEF Carried
  <2>5. Carried(StopCommand).scan = "off"
    BY <1>1, <2>4 DEF Started
  <2> QED
    BY <1>1, <1>2, <2>3, <2>5 DEF IsAnswer
<1>4. CASE stage \in {"coded", "1M"}
  <2>1. StopCommand = Cmd("ext_enable", "off") /\ ctl.family = "ext"
    BY <1>1, <1>4 DEF StopCommand, Started
  <2>2. StopCommand.op = "ext_enable" /\ StopCommand.arg = "off"
    BY <2>1 DEF Cmd
  <2>3. Accepts(StopCommand)
    BY <1>1, <1>4, <2>1, <2>2 DEF Accepts, Family
  <2>4. Carried(StopCommand) = [ctl EXCEPT !.family = "ext", !.scan = "off"]
    BY <2>2 DEF Carried
  <2>5. Carried(StopCommand).scan = "off"
    BY <1>1, <2>4 DEF Started
  <2> QED
    BY <1>1, <1>2, <2>3, <2>5 DEF IsAnswer
<1> QED
  BY <1>1, <1>3, <1>4 DEF Scans

\* For any backend, number of attempts, Coded PHY setting and bound of adverts: when
\* start() has returned, the controller scans in the way the flags say, whatever was
\* refused, lost or answered late, and stop() will choose a command that it takes.
THEOREM ScansAsReported == HciSpec => []ScanAsReported
<1>1. HciInit => HciInv
  <2> SUFFICES ASSUME HciInit
               PROVE  HciInv
    OBVIOUS
  <2>1. commands \in Seq(Cmds) /\ events \in Seq(Events) /\ CtlType
    BY EmptySeq DEF HciInit, CtlType, Idle
  <2>2. HciTypes
    BY <2>1 DEF HciInit, HciTypes
  <2> QED
    BY <2>2 DEF HciInit, HciInv
<1>2. HciInv /\ [HciNext]_hciVars => HciInv'
  BY HciKept
<1>3. HciInv => ScanAsReported
  BY ReportedInScan
<1> QED
  BY <1>1, <1>2, <1>3, PTL DEF HciSpec

-----------------------------------------------------------------------------
(* What the variables of the components can hold. *)

\* The thread of the scanner, and what HciInv leaves open.
ThreadTypes ==
  /\ thread \in {"loop", "open", "start", "scan", "wait", "pause", "stop", "close", "bleak", "ended", "dead"}
  /\ first \in BOOLEAN /\ tries \in 0..Attempts - 1
  /\ stage \in Scans \cup {"probe"} /\ mode \in Scans \cup {"none"} /\ pending \subseteq Scans
  /\ access \in {"free", "busy", "denied", "absent"} /\ channel \in {"closed", "open", "stale"}
  /\ features \subseteq {"ext", "coded"}

HciAll == HciInv /\ ThreadTypes

\* A node without Bluetooth satisfies it as well as one with it.
LEMMA HciAllInit == HciInit \/ WithoutBluetooth => HciAll
<1> SUFFICES ASSUME HciInit \/ WithoutBluetooth PROVE HciAll
  OBVIOUS
<1>1. /\ thread \in {"loop", "ended"} /\ first = TRUE /\ tries = 0 /\ leaving = "reopen"
      /\ stage = "probe" /\ written = FALSE /\ mode = "none" /\ pending = {}
      /\ access \in {"free", "busy", "denied", "absent"} /\ channel = "closed" /\ slow = FALSE
      /\ features \subseteq {"ext", "coded"} /\ works \subseteq {"ext", "coded"}
      /\ ctl = Idle /\ commands = <<>> /\ events = <<>>
  BY DEF HciInit, WithoutBluetooth
<1>2. commands \in Seq(Cmds) /\ events \in Seq(Events) /\ CtlType
  BY <1>1, EmptySeq DEF CtlType, Idle
<1>3. HciInv
  BY <1>1, <1>2 DEF HciInv, HciTypes
<1>4. 0 \in 0..Attempts - 1
  BY HciAssumption
<1> QED
  BY <1>1, <1>3, <1>4 DEF HciAll, ThreadTypes

\* Falling back and advancing lead to one of the scans.
LEMMA FallbackTypes ==
  ASSUME ThreadTypes, Fallback
  PROVE  stage' \in Scans \cup {"probe"} /\ thread' \in {thread, "stop", "wait"}
BY DEF Fallback, Enter, Fail, ThreadTypes, Scans

\* A command that succeeded leads to a scan, or to the next command or stage.
LEMMA AdvanceTypes ==
  ASSUME ThreadTypes, Advance
  PROVE  /\ stage' \in Scans \cup {"probe"} /\ thread' \in {thread, "scan"}
         /\ mode' \in Scans \cup {"none"} /\ first' \in BOOLEAN
BY DEF Advance, Enter, ThreadTypes, Scans

\* What waits during the commands are adverts of scans.
LEMMA ReadTypes ==
  ASSUME HciInv, ThreadTypes, ReadEvent
  PROVE  ThreadTypes'
<1> DEFINE e == Head(events)
<1>1. events # <<>> /\ events \in Seq(Events) /\ UNCHANGED <<tries, access, channel, features>>
  BY DEF ReadEvent, HciInv, HciTypes
<1>2. e \in Events
  BY <1>1, Shifted
<1>3. e.type = "advert" => e.scan \in Scans
  BY <1>2, EventFacts DEF IsAnswer
<1>4. \/ /\ e.type = "advert" /\ pending' = pending \cup {e.scan}
         /\ UNCHANGED <<thread, stage, mode, first>>
      \/ UNCHANGED <<pending, thread, stage, mode, first>>
      \/ Advance /\ pending' = PendingAfter(Head(todo))
      \/ Fallback /\ UNCHANGED <<pending, mode, first>>
  BY DEF ReadEvent
<1> HIDE DEF e
<1>5. CASE e.type = "advert" /\ pending' = pending \cup {e.scan} /\ UNCHANGED <<thread, stage, mode, first>>
  BY <1>1, <1>3, <1>5 DEF ThreadTypes
<1>6. CASE UNCHANGED <<pending, thread, stage, mode, first>>
  BY <1>1, <1>6 DEF ThreadTypes
<1>7. CASE Advance /\ pending' = PendingAfter(Head(todo))
  <2>1. pending' \subseteq pending
    BY <1>7 DEF PendingAfter
  <2> QED
    BY <1>1, <1>7, <2>1, AdvanceTypes DEF ThreadTypes
<1>8. CASE Fallback /\ UNCHANGED <<pending, mode, first>>
  BY <1>1, <1>8, FallbackTypes DEF ThreadTypes
<1> QED
  BY <1>4, <1>5, <1>6, <1>7, <1>8

\* Each step of the thread, the controller and those who hold it keeps the types.
LEMMA HciAllStep == HciAll /\ [HciNext]_hciVars => HciAll'
<1> SUFFICES ASSUME HciAll, [HciNext]_hciVars PROVE ThreadTypes'
  BY HciKept DEF HciAll
<1> USE DEF HciAll, ThreadTypes
<1>1. CASE CheckStop
  <2>1. 0 \in 0..Attempts - 1
    BY HciAssumption
  <2> QED
    BY <1>1, <2>1 DEF CheckStop, ctlVars
<1>2. CASE OpenChannel BY <1>2 DEF OpenChannel
<1>3. CASE OpenFails
  <2>1. 0 \in 0..Attempts - 1 /\ Attempts \in Nat
    BY HciAssumption
  <2>2. tries' \in 0..Attempts - 1
    BY <1>3, <2>1 DEF OpenFails
  <2> QED
    BY <1>3, <2>2 DEF OpenFails, Unavailable, ctlVars
<1>4. CASE SendCommand BY <1>4 DEF SendCommand, Fail
<1>5. CASE ReadEvent BY <1>5, ReadTypes
<1>6. CASE TimeOut BY <1>6, FallbackTypes DEF TimeOut, ctlVars
<1>7. CASE ReadFails BY <1>7 DEF ReadFails, Fail, ctlVars
<1>8. CASE ReadReports BY <1>8 DEF ReadReports
<1>9. CASE StopScanning BY <1>9 DEF StopScanning, ctlVars
<1>10. CASE EndWait BY <1>10 DEF EndWait, ctlVars
<1>11. CASE SendStop BY <1>11 DEF SendStop
<1>12. CASE EndStop BY <1>12 DEF EndStop, ctlVars
<1>13. CASE CloseChannel
  <2>1. leaving \in {"reopen", "fallback", "ended", "dead"}
    BY DEF HciInv, HciTypes
  <2> QED
    BY <1>13, <2>1 DEF CloseChannel, Unavailable
<1>14. CASE EndBleak BY <1>14 DEF EndBleak, ctlVars
<1>15. CASE Pull BY <1>15 DEF Pull, threadVars
<1>16. CASE Plug \/ Seize \/ ChangePace BY <1>16 DEF Plug, Seize, ChangePace, threadVars
<1>17. CASE AnswerCommand \/ LoseCommand \/ ReportAdvert
  BY <1>17 DEF AnswerCommand, LoseCommand, ReportAdvert, threadVars
<1>18. CASE StopHci \/ UNCHANGED hciVars BY <1>18 DEF StopHci, hciVars, threadVars, ctlVars
<1> QED
  BY <1>1, <1>2, <1>3, <1>4, <1>5, <1>6, <1>7, <1>8, <1>9, <1>10, <1>11, <1>12, <1>13,
     <1>14, <1>15, <1>16, <1>17, <1>18 DEF HciNext, ScannerStep

\* The stop event makes no difference to it.
LEMMA HciAllKept == HciAll /\ UNCHANGED bluetooth => HciAll'
<1> SUFFICES ASSUME HciAll, UNCHANGED bluetooth PROVE HciAll'
  OBVIOUS
<1>1. UNCHANGED <<threadVars, ctlVars>>
  BY DEF bluetooth
<1>2. slow' \in BOOLEAN
  BY <1>1 DEF ctlVars, HciAll, HciInv, HciTypes
<1>3. HciInv'
  BY <1>1, <1>2, Untouched DEF threadVars, ctlVars, HciAll
<1> QED
  BY <1>1, <1>3 DEF threadVars, ctlVars, HciAll, ThreadTypes

\* The two invariants together are the type invariant.
LEMMA HciTyped == HciAll => HciTypeOK
BY DEF HciAll, HciInv, HciTypes, CtlType, ThreadTypes, HciTypeOK

-----------------------------------------------------------------------------
\* The GPS thread: its type invariant is inductive.
LEMMA PowerUpType == PowerUp \in [mode: {"off", "survey", "done", "fixed"}, at: Places \cup {Unset}]
BY DEF PowerUp

\* A daemon that has just been made has the types.
LEMMA GpsTypeInit == GpsInit => GpsTypeOK
<1> SUFFICES ASSUME GpsInit PROVE GpsTypeOK
  OBVIOUS
<1>1. /\ gpsThread = "detect" /\ active = "none" /\ isUblox = FALSE /\ surveyComplete = FALSE
      /\ hasFix = FALSE /\ pos = Unset /\ surveyed = Unset
  BY DEF GpsInit, FreshDaemon
<1>2. /\ survey = Unset /\ plugged \subseteq Receivers /\ port = "closed" /\ place \in Places
      /\ rcv = PowerUp /\ svin = Unset /\ notSaved = FALSE
  BY DEF GpsInit
<1> QED
  BY <1>1, <1>2, PowerUpType DEF GpsTypeOK

\* Each step of the thread, of the receiver and of who carries them keeps the types.
LEMMA GpsTypeStep == GpsTypeOK /\ [GpsNext]_gpsVars => GpsTypeOK'
<1> SUFFICES ASSUME GpsTypeOK, [GpsNext]_gpsVars PROVE GpsTypeOK'
  OBVIOUS
<1> USE DEF GpsTypeOK, gpsDaemonVars, receiverVars
<1>1. CASE DetectPort BY <1>1 DEF DetectPort, Audible
<1>2. CASE EndDetect BY <1>2 DEF EndDetect
<1>3. CASE Identify
  <2>1. isUblox' \in BOOLEAN
    BY <1>3, Zenon DEF Identify
  <2> QED
    BY <1>3, <2>1 DEF Identify
<1>4. CASE OpenPort BY <1>4 DEF OpenPort
<1>5. CASE InitUblox
  <2>1. rcv' \in [mode: {"off", "survey", "done", "fixed"}, at: Places \cup {Unset}]
    BY <1>5 DEF InitUblox
  <2>2. surveyComplete' \in BOOLEAN /\ notSaved' \in BOOLEAN
    BY <1>5 DEF InitUblox
  <2> QED
    BY <1>5, <2>1, <2>2 DEF InitUblox
<1>6. CASE InitFails
  <2>1. surveyComplete' \in BOOLEAN
    BY <1>6, Zenon DEF InitFails
  <2> QED
    BY <1>6, <2>1 DEF InitFails
<1>7. CASE Sleep BY <1>7 DEF Sleep
<1>8. CASE ParseNavPvt BY <1>8 DEF ParseNavPvt, TakeFix, LoseFix, Reported
<1>9. CASE ParseNmea BY <1>9 DEF ParseNmea, TakeFix, LoseFix, Reported
<1>10. CASE ParseNavSvin BY <1>10 DEF ParseNavSvin
<1>11. CASE SaveSurvey
  <2>1. port' \in {"closed", "open", "stale"} /\ survey' \in Places \cup {Unset}
        /\ gpsThread' \in {"read", "dead"} /\ notSaved' \in BOOLEAN /\ surveyed' = Unset
    BY <1>11 DEF SaveSurvey
  <2> QED
    BY <1>11, <2>1 DEF SaveSurvey
<1>12. CASE ReadEnds BY <1>12 DEF ReadEnds
<1>13. CASE PlugIn BY <1>13 DEF PlugIn
<1>14. CASE Unplug BY <1>14, PowerUpType DEF Unplug
<1>15. CASE Carry BY <1>15 DEF Carry
<1>16. CASE SurveyEnds BY <1>16 DEF SurveyEnds
<1>17. CASE ReportSvin BY <1>17 DEF ReportSvin
<1>18. CASE GpsRestart BY <1>18 DEF GpsRestart
<1>19. CASE StopGps \/ UNCHANGED gpsVars BY <1>19 DEF StopGps, gpsVars
<1> QED
  BY <1>1, <1>2, <1>3, <1>4, <1>5, <1>6, <1>7, <1>8, <1>9, <1>10, <1>11, <1>12, <1>13,
     <1>14, <1>15, <1>16, <1>17, <1>18, <1>19 DEF GpsNext, GpsDaemonNext

\* The stop event makes no difference to them.
LEMMA GpsTypeKept == GpsTypeOK /\ UNCHANGED gps => GpsTypeOK'
BY DEF gps, GpsTypeOK, gpsDaemonVars, receiverVars

-----------------------------------------------------------------------------
\* The Wi-Fi adapter: the hopper stays within the channels.
HopTypes ==
  /\ wifiThread \in {"start", "sniff", "retry", "ended"}
  /\ idx \in DOMAIN Channels /\ tuned \in {Channels[i] : i \in DOMAIN Channels}
  /\ outcome \in {Nothing} \cup [of: Drones, as: {"published", "refused", "suppressed"}]

WifiAll == DriftInv /\ HopTypes

\* The position after a position of the channels is one again.
LEMMA ChannelFacts ==
  /\ Len(Channels) \in Nat \ {0} /\ DOMAIN Channels = 1..Len(Channels)
  /\ 1 \in DOMAIN Channels
  /\ \A i \in DOMAIN Channels : (i % Len(Channels)) + 1 \in DOMAIN Channels
<1>1. Channels \in Seq(Nat) /\ Channels # <<>>
  BY WifiAssumption
<1>2. Len(Channels) \in Nat \ {0} /\ DOMAIN Channels = 1..Len(Channels)
  BY <1>1
<1> QED
  BY <1>2

\* The types hold at the start.
LEMMA WifiAllInit == WifiInit => WifiAll
BY DriftInit, ChannelFacts DEF WifiInit, WifiAll, HopTypes

\* What becomes of a packet is one of three things.
LEMMA PacketOutcome ==
  ASSUME HandlePacket
  PROVE  outcome' \in [of: Drones, as: {"published", "refused", "suppressed"}]
<1>1. PICK d \in Drones : Deduplicate(d)
  BY DEF HandlePacket, Process, ProcessBeacon
<1>2. outcome' \in {[of |-> d, as |-> "published"], [of |-> d, as |-> "refused"],
                    [of |-> d, as |-> "suppressed"]}
  BY <1>1 DEF Deduplicate, Suppress, Publish
<1> QED
  BY <1>2

\* Each step keeps the types: the hopper goes round.
LEMMA WifiAllStep == WifiAll /\ [WifiNext]_wifiVars => WifiAll'
<1> SUFFICES ASSUME WifiAll, [WifiNext]_wifiVars PROVE HopTypes'
  BY DriftStep DEF WifiAll
<1> USE DEF WifiAll, HopTypes, dedupVars
<1>1. CASE StartWifi BY <1>1 DEF StartWifi
<1>2. CASE SniffFails BY <1>2 DEF SniffFails
<1>3. CASE RetrySniff BY <1>3 DEF RetrySniff
<1>4. CASE EndWifi BY <1>4 DEF EndWifi
<1>5. CASE Hop
  <2>1. idx' \in DOMAIN Channels
    BY <1>5, ChannelFacts DEF Hop
  <2>2. tuned' \in {Channels[i] : i \in DOMAIN Channels}
    BY <1>5 DEF Hop
  <2> QED
    BY <1>5, <2>1, <2>2 DEF Hop
<1>6. CASE HandlePacket BY <1>6, PacketOutcome DEF HandlePacket
<1>7. CASE WifiTick BY <1>7 DEF WifiTick
<1>8. CASE StepClock BY <1>8 DEF StepClock
<1>9. CASE StopWifi \/ UNCHANGED wifiVars BY <1>9 DEF StopWifi, wifiVars
<1> QED
  BY <1>1, <1>2, <1>3, <1>4, <1>5, <1>6, <1>7, <1>8, <1>9 DEF WifiNext

\* The stop event makes no difference to them.
LEMMA WifiAllKept == WifiAll /\ UNCHANGED wifi => WifiAll'
BY DEF wifi, WifiAll, HopTypes, DriftInv, dedupVars

\* The two invariants together are the type invariant.
LEMMA WifiTyped == WifiAll => WifiTypeOK
BY DEF WifiAll, HopTypes, DriftInv, Ages, WifiTypeOK
-----------------------------------------------------------------------------
\* The reassembly of adverts.
LEMMA JoinStep == JoinInv /\ [ReassemblerNext]_reassemblerVars => JoinInv'
<1> SUFFICES ASSUME JoinInv, [ReassemblerNext]_reassemblerVars PROVE JoinInv'
  OBVIOUS
<1>1. CASE UNCHANGED reassemblerVars
  BY <1>1 DEF reassemblerVars, JoinInv, PartsType, BufferInv, Buffered, Begun, JoinedAsSent
<1>2. CASE ReassemblerNext
  BY <1>2, TickKeepsJoin, ExpireKeepsJoin, ReportKeepsJoin DEF ReassemblerNext
<1> QED
  BY <1>1, <1>2

\* What is known of the parts includes the type invariant.
LEMMA JoinTyped == JoinInv => ReassemblerTypeOK
BY DEF JoinInv, PartsType, ReassemblerTypeOK

-----------------------------------------------------------------------------
\* The dashboard's connections: the type invariant is inductive.
LEMMA LinkNumbers ==
  /\ MaxLinks \in Nat /\ MaxVersion \in Nat /\ 0 \in 0..MaxLinks /\ 0 \in 0..MaxVersion
  /\ -1 \in -1..MaxVersion /\ -1 \in -2..MaxVersion /\ -2 \in -2..MaxVersion
  /\ \A v \in 0..MaxVersion : v \in -1..MaxVersion /\ v \in -2..MaxVersion
  /\ \A v \in -1..MaxVersion : v \in -2..MaxVersion
BY LinkAssumption

\* The types hold before connect() is called.
LEMMA LinkTypeInit == LinkInit => LinkTypeOK
BY LinkNumbers DEF LinkInit, LinkTypeOK

\* Each step of a link, of a poll and of the server keeps the types.
LEMMA LinkTypeStep == LinkTypeOK /\ [LinkNext]_linkVars => LinkTypeOK'
<1> SUFFICES ASSUME LinkTypeOK, [LinkNext]_linkVars PROVE LinkTypeOK'
  OBVIOUS
<1> USE LinkNumbers DEF LinkTypeOK, socketVars, threatVars, tableVars
<1>0. Listing \in -1..MaxVersion BY DEF Listing
<1>1. CASE ComeAndGo BY <1>1 DEF ComeAndGo
<1>2. CASE Rescore
  <2>1. inTable' \in 0..MaxVersion
    BY <1>2 DEF Rescore
  <2> QED
    BY <1>2, <2>1 DEF Rescore
<1>3. CASE Mount BY <1>3 DEF Mount, Connecting
<1>4. CASE Disconnect BY <1>4 DEF Disconnect
<1>5. ASSUME NEW i \in Links, OnOpen(i) \/ OnClose(i) \/ Reconnect(i) PROVE LinkTypeOK'
  <2>1. i \in 0..MaxLinks
    BY DEF Links
  <2>2. CASE OnOpen(i) BY <1>0, <2>1, <2>2 DEF OnOpen
  <2>3. CASE OnClose(i) BY <2>3 DEF OnClose
  <2>4. CASE Reconnect(i) BY <2>4 DEF Reconnect, Connecting
  <2> QED
    BY <1>5, <2>2, <2>3, <2>4
<1>6. CASE PollThreats BY <1>0, <1>6 DEF PollThreats
<1>7. CASE AnswerThreats BY <1>7 DEF AnswerThreats
<1>8. CASE ApplyState BY <1>8 DEF ApplyState
<1>9. CASE UNCHANGED linkVars BY <1>9 DEF linkVars
<1>10. CASE Relist BY <1>10 DEF Relist
<1> QED
  BY <1>1, <1>2, <1>3, <1>4, <1>5, <1>6, <1>7, <1>8, <1>9, <1>10 DEF LinkNext

-----------------------------------------------------------------------------
(* The components side by side. *)

AllTypes == HciAll /\ GpsTypeOK /\ WifiAll /\ PipelineAll /\ CalInv /\ JoinInv /\ LinkTypeOK

\* Each component starts as it does alone; the one without Bluetooth is covered too.
LEMMA AllTypesInit == ComponentsInit => AllTypes
BY HciAllInit, GpsTypeInit, WifiAllInit, PipelineAllInit, CalInvInit, JoinInit, LinkTypeInit
   DEF ComponentsInit, AllTypes

\* A step is one of a single component, and leaves the variables of the others alone.
LEMMA OnePartSteps ==
  [ComponentsNext]_componentVars =>
    /\ [HciNext]_hciVars \/ UNCHANGED bluetooth
    /\ [GpsNext]_gpsVars \/ UNCHANGED gps
    /\ [WifiNext]_wifiVars \/ UNCHANGED wifi
    /\ [PipelineNext]_pipelineVars /\ [CalNext]_calVars
    /\ [ReassemblerNext]_reassemblerVars /\ [LinkNext]_linkVars
BY DEF ComponentsNext, componentVars

\* So a step keeps all of them.
LEMMA AllTypesStep == AllTypes /\ [ComponentsNext]_componentVars => AllTypes'
<1> SUFFICES ASSUME AllTypes, [ComponentsNext]_componentVars PROVE AllTypes'
  OBVIOUS
<1>1. HciAll'      BY OnePartSteps, HciAllStep, HciAllKept DEF AllTypes
<1>2. GpsTypeOK'   BY OnePartSteps, GpsTypeStep, GpsTypeKept DEF AllTypes
<1>3. WifiAll'     BY OnePartSteps, WifiAllStep, WifiAllKept DEF AllTypes
<1>4. PipelineAll' BY OnePartSteps, PipelineAllStep DEF AllTypes
<1>5. CalInv'      BY OnePartSteps, CalInvStep DEF AllTypes
<1>6. JoinInv'     BY OnePartSteps, JoinStep DEF AllTypes
<1>7. LinkTypeOK'  BY OnePartSteps, LinkTypeStep DEF AllTypes
<1> QED
  BY <1>1, <1>2, <1>3, <1>4, <1>5, <1>6, <1>7 DEF AllTypes

\* Whatever the components are given, each variable keeps to what its comment says it can
\* hold: a hopper stays within the channels, a scan within the known ones, an age within
\* its window, an alert count and a version within their bounds (all the components of
\* MCComponents).
THEOREM ComponentsTyped == ComponentsSpec => []ComponentsTypeOK
<1>1. AllTypes => ComponentsTypeOK
  BY HciTyped, WifiTyped, PipelineTyped, JoinTyped DEF AllTypes, CalInv, ComponentsTypeOK
<1> QED
  BY <1>1, AllTypesInit, AllTypesStep, PTL DEF ComponentsSpec
=============================================================================
