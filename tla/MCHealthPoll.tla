---------------------------- MODULE MCHealthPoll ----------------------------
(* The constants are numbers: the configuration gives them directly.        *)
EXTENDS HealthPoll
=============================================================================
