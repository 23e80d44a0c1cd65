--------------------------- MODULE MCMqttPublisher ---------------------------
(* The publisher with one scanner whose thread an exception ends (Bluetooth), *)
(* one whose callback swallows it (Wi-Fi), and the main thread.               *)
EXTENDS MqttPublisher

CONSTANTS bluetooth, wifi

MCScanners == {bluetooth, wifi}
MCGuarded  == {wifi}
MCMaxMsgs  == [p \in Producers |-> IF p = bluetooth THEN 2 ELSE 1]
MCDurable  == {bluetooth, wifi}
\* One scanner and the main thread: small enough for the liveness property.
MCOneScanner  == {bluetooth}
MCTwoEach     == [p \in Producers |-> 2]
=============================================================================
