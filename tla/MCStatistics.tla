---------------------------- MODULE MCStatistics ----------------------------
(* The statistics on a small instance.                                     *)
EXTENDS Statistics
=============================================================================
