----------------------------- MODULE MCStopBook -----------------------------
(* Small instances of StopBook. *)
EXTENDS StopBook

\* Runs 1 and 3 pay the same, so their holdings look alike to the monitor.
SamePrices == [r \in 1..MaxRuns |-> 1 + ((r - 1) % 2)]
=============================================================================
