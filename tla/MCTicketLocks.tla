---------------------------- MODULE MCTicketLocks ----------------------------
(* The ticket locks on small instances.                                    *)
EXTENDS TicketLocks, TLC

Symmetry == Permutations(Threads)

(* Once a try-lock has lied, the two counters mean nothing any more.       *)
NotMisled == ~misled
=============================================================================
