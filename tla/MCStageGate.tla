---------------------------- MODULE MCStageGate ----------------------------
(* Two surface processes race over one stage: with two, a call can be     *)
(* stale when it writes; min_promotion_runs is small enough to be passed. *)
EXTENDS StageGate, TLC

CallerSymmetry == Permutations(Callers)

=============================================================================
