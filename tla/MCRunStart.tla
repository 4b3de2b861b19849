----------------------------- MODULE MCRunStart -----------------------------
(* Small instances of RunStart. *)
EXTENDS RunStart

\* The first run submits the buy and the stop.
AllInRunOne == [o \in Orders |-> 1]
=============================================================================
