---------------------------- MODULE MCRoundRobin ----------------------------
(* An instance of RoundRobin for TLC.                                       *)
EXTENDS RoundRobin

QuietPoints == {"user", "schedule", "exit0"}
=============================================================================
