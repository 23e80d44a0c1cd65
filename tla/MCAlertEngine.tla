----------------------------- MODULE MCAlertEngine -----------------------------
(* The alert engine with two of the rules. *)
EXTENDS AlertEngine

CONSTANTS d1, n1

MCRules == <<"no_rid", "speed">>
MCOneRule == <<"no_rid">>
================================================================================
