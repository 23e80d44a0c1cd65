------------------------------ MODULE MCLiveFeed ------------------------------
(* One dashboard and three alerts. *)
EXTENDS LiveFeed
===============================================================================
