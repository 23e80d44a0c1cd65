---------------------------- MODULE MCRidAssembler ----------------------------
(* Two transmitters; one of them never says who it is. *)
EXTENDS RidAssembler

CONSTANTS t1, t2, i1, i2

MCSends == [t \in {t1, t2} |-> IF t = t1 THEN BasicIDs ELSE {}]
===============================================================================
