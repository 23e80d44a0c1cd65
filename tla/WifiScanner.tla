---------------------------- MODULE WifiScanner ----------------------------
(***************************************************************************)
(* One Wi-Fi adapter of a node, WiFiNANScanner of                          *)
(* argus-node/scanner/wifi_nan.py: its thread, its channel hopper, and the *)
(* suppression of drones published less than a window ago, which both      *)
(* transports share.  The window is measured with time.time(), which NTP   *)
(* may step; the publisher may refuse a detection (a full queue raises).   *)
(* A tick is a part of the window.                                         *)
(***************************************************************************)
EXTENDS Integers, Sequences, StopEvent

CONSTANTS
  Drones,      \* what drone_id can be; packs without a Basic ID share ""
  Window,      \* _dedup_window, in ticks
  MaxSlip,     \* bound of the model: how far the clock is stepped, in ticks
  Channels     \* channels, in the order they are hopped through

ASSUME WifiAssumption ==
  Window \in Nat \ {0} /\ MaxSlip \in Nat /\ Channels \in Seq(Nat) \ {<<>>}

Capped == Window + MaxSlip   \* ages from here on are all the same

VARIABLES
  wifiThread,   \* "start", "sniff", "retry" or "ended"
  idx,          \* position of the hopper in Channels
  tuned,        \* the channel the adapter is on
  seenAge,      \* time.time() - _seen[d], Capped for a drone not seen
  slip,         \* how far the clock has been stepped forward
  sincePub,     \* history: true time since d was handed to the publisher
  refused,      \* history: the publisher raised on d since then
  outcome       \* what became of the last packet of this instant: [of, as]

wifiVars == <<wifiThread, idx, tuned, seenAge, slip, sincePub, refused, outcome, stop>>
dedupVars == <<seenAge, slip, sincePub, refused, outcome>>

Nothing == [of |-> "-", as |-> "-"]

WifiInit ==
  /\ wifiThread = "start" /\ idx = 1 /\ tuned \in {Channels[i] : i \in DOMAIN Channels}
  /\ seenAge = [d \in Drones |-> Capped] /\ slip = 0
  /\ sincePub = [d \in Drones |-> Capped] /\ refused = [d \in Drones |-> FALSE]
  /\ outcome = Nothing

-----------------------------------------------------------------------------
(* The clock. *)

Upto(t) == IF t > Capped THEN Capped ELSE t

WifiTick ==
  /\ seenAge' = [d \in Drones |-> Upto(seenAge[d] + 1)]
  /\ sincePub' = [d \in Drones |-> Upto(sincePub[d] + 1)]
  /\ outcome' = Nothing
  /\ UNCHANGED <<wifiThread, idx, tuned, slip, refused, stop>>

StepClock ==
  /\ \E s \in 0..MaxSlip \ {slip} :
       /\ slip' = s
       /\ seenAge' = [d \in Drones |-> Upto(seenAge[d] + (s - slip))]
  /\ outcome' = Nothing
  /\ UNCHANGED <<wifiThread, idx, tuned, sincePub, refused, stop>>

-----------------------------------------------------------------------------
(* The threads. *)

\* run(): without the interface there is no scanner.
StartWifi ==
  /\ wifiThread = "start" /\ wifiThread' \in {"sniff", "ended"}
  /\ UNCHANGED <<idx, tuned, dedupVars, stop>>

\* sniff() fails, and is called again after a sleep.
SniffFails ==
  /\ wifiThread = "sniff" /\ wifiThread' = "retry"
  /\ UNCHANGED <<idx, tuned, dedupVars, stop>>

RetrySniff ==
  /\ wifiThread = "retry" /\ wifiThread' = IF stop THEN "ended" ELSE "sniff"
  /\ UNCHANGED <<idx, tuned, dedupVars, stop>>

\* sniff() returns every 5 s.
EndWifi ==
  /\ wifiThread = "sniff" /\ stop /\ wifiThread' = "ended"
  /\ UNCHANGED <<idx, tuned, dedupVars, stop>>

\* Mutant: the index is not taken modulo the number of channels.
Hop_Past ==
  /\ wifiThread \in {"sniff", "retry"} /\ ~stop /\ idx \in DOMAIN Channels
  /\ tuned' \in {tuned, Channels[idx]}
  /\ idx' = idx + 1
  /\ UNCHANGED <<wifiThread, dedupVars, stop>>

\* _channel_hopper: what iw does not do is passed over.
Hop ==
  /\ wifiThread \in {"sniff", "retry"} /\ ~stop
  /\ tuned' \in {tuned, Channels[idx]}
  /\ idx' = (idx % Len(Channels)) + 1
  /\ UNCHANGED <<wifiThread, dedupVars, stop>>

-----------------------------------------------------------------------------
(* Packets. *)

\* What the parts of a packet are to the scanner: not for it, too short to hold a message,
\* or a message pack.
Parts == {"foreign", "short", "rid"}
Packets == [subtype: {"action", "beacon", "data"},
            parts: {<<p, q>> : p \in Parts, q \in Parts}]

IsRidFrame(pkt) == pkt.subtype \in {"action", "beacon"}

\* The search in an action ends at the first descriptor of the service, even a short one;
\* the one in a beacon goes on to the next element.
NanPayload(pkt) ==
  \E i \in DOMAIN pkt.parts :
    pkt.parts[i] = "rid" /\ \A j \in 1..(i - 1) : pkt.parts[j] = "foreign"

BeaconPayload(pkt) == \E i \in DOMAIN pkt.parts : pkt.parts[i] = "rid"

\* Mutant: a suppressed packet counts as seen.
Suppress_Refreshing(d) ==
  /\ seenAge' = [seenAge EXCEPT ![d] = 0]
  /\ outcome' = [of |-> d, as |-> "suppressed"]
  /\ UNCHANGED <<sincePub, refused>>

Suppress(d) ==
  /\ outcome' = [of |-> d, as |-> "suppressed"]
  /\ UNCHANGED <<seenAge, sincePub, refused>>

\* _seen is set, then publish_detection called; what it raises ends the packet only.
Publish(d) ==
  /\ seenAge' = [seenAge EXCEPT ![d] = 0]
  /\ \/ /\ sincePub' = [sincePub EXCEPT ![d] = 0] /\ refused' = [refused EXCEPT ![d] = FALSE]
        /\ outcome' = [of |-> d, as |-> "published"]
     \/ /\ refused' = [refused EXCEPT ![d] = TRUE] /\ UNCHANGED sincePub
        /\ outcome' = [of |-> d, as |-> "refused"]

\* The two transports keep the same memory.
Deduplicate(d) == IF seenAge[d] < Window THEN Suppress(d) ELSE Publish(d)

Process(pkt)       == NanPayload(pkt) /\ \E d \in Drones : Deduplicate(d)
ProcessBeacon(pkt) == BeaconPayload(pkt) /\ \E d \in Drones : Deduplicate(d)

HandlePacket ==
  /\ wifiThread = "sniff"
  /\ \E pkt \in Packets :
       IsRidFrame(pkt) /\ IF pkt.subtype = "beacon" THEN ProcessBeacon(pkt) ELSE Process(pkt)
  /\ UNCHANGED <<wifiThread, idx, tuned, slip, stop>>

StopWifi == SetStop /\ UNCHANGED <<wifiThread, idx, tuned, dedupVars>>

-----------------------------------------------------------------------------
WifiNext ==
  \/ StartWifi \/ SniffFails \/ RetrySniff \/ EndWifi \/ Hop \/ HandlePacket
  \/ WifiTick \/ StepClock \/ StopWifi

WifiSpec == WifiInit /\ stop = FALSE /\ [][WifiNext]_wifiVars
-----------------------------------------------------------------------------
(* Properties. *)

WifiTypeOK ==
  /\ wifiThread \in {"start", "sniff", "retry", "ended"}
  /\ idx \in DOMAIN Channels /\ tuned \in {Channels[i] : i \in DOMAIN Channels}
  /\ seenAge \in [Drones -> -MaxSlip..Capped] /\ slip \in 0..MaxSlip
  /\ sincePub \in [Drones -> 0..Capped] /\ refused \in [Drones -> BOOLEAN]
  /\ outcome \in {Nothing} \cup [of: Drones, as: {"published", "refused", "suppressed"}]

\* A drone heard without a pause is published once a window: not again before the window
\* is over and not later than the first packet after it, up to what the clock was stepped
\* by, unless the publisher refused it meanwhile.  Other drones make no difference, nor
\* does the transport (_process 201-224, _process_beacon 282-304).
OncePerWindow ==
  [][ \A d \in Drones :
        /\ outcome' = [of |-> d, as |-> "published"] /\ outcome' # outcome
             => sincePub[d] >= Window - MaxSlip
        /\ outcome' = [of |-> d, as |-> "suppressed"]
             => sincePub[d] < Window + MaxSlip \/ refused[d] ]_wifiVars
=============================================================================
