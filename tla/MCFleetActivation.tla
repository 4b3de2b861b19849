-------------------------- MODULE MCFleetActivation --------------------------
(***************************************************************************)
(* FleetActivation for TLC.  The bounds may stop every process, so the      *)
(* instance is checked without deadlock.                                    *)
(***************************************************************************)
EXTENDS FleetActivation

CONSTANTS a, c  \* boot ids

\* a may resend, c sends once
Attempts == [b \in Boots |-> IF b = a THEN 2 ELSE 1]
=============================================================================
