------------------------------ MODULE StopEvent ------------------------------
(***************************************************************************)
(* The stop event that agent.py makes, sets from its signal handler and     *)
(* hands to the GPS thread and to every scanner thread.                    *)
(***************************************************************************)
VARIABLE stop   \* stop_event.is_set()

\* Mutant: the handler may be left without the event set, and set again.
SetStop_Toggles == stop' = ~stop

\* _handle_signal: set once, never cleared.
SetStop == ~stop /\ stop' = TRUE
=============================================================================
