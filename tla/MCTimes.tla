------------------------------ MODULE MCTimes ------------------------------
(* Seconds of four nanoseconds, so that every reading of them occurs.      *)
EXTENDS Times
=============================================================================
