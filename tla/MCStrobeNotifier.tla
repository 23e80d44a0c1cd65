-------------------------- MODULE MCStrobeNotifier --------------------------
(* Two drones share the device; two ticks of cooldown. *)
EXTENDS StrobeNotifier
=============================================================================
