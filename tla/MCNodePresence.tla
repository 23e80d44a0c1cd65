---------------------------- MODULE MCNodePresence ----------------------------
(* One node and one server. *)
EXTENDS NodePresence
================================================================================
