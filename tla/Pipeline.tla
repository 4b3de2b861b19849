------------------------------ MODULE Pipeline ------------------------------
(***************************************************************************)
(* What the chain of graph-pull agents promises, without the graph: a run  *)
(* only moves forward through its stages (orchestration/batch_chain.py     *)
(* reads how far), and it sends one set of orders to the broker, plus at   *)
(* most one more for every time a process was killed.  PullChain, which    *)
(* has the agents, their writes and their polls, is shown to implement it. *)
(***************************************************************************)
EXTENDS Naturals

CONSTANTS
  Runs,       \* the runs the dispatcher may place
  LastStage   \* the stage of a run that is reported

VARIABLES
  reached,    \* run -> the last stage its chain has reached
  orders,     \* run -> the number of decisions whose orders were sent
  mishaps     \* processes killed so far

absVars == <<reached, orders, mishaps>>

AbsInit ==
  /\ reached = [r \in Runs |-> 0]
  /\ orders = [r \in Runs |-> 0]
  /\ mishaps = 0

\* One write may carry a run over several stages: what was computed from an
\* output before that output was linked joins the chain together with it.
Advance(r) ==
  /\ reached'[r] \in (reached[r] + 1)..LastStage
  /\ reached' = [reached EXCEPT ![r] = reached'[r]]
  /\ UNCHANGED <<orders, mishaps>>

Order(r) ==
  /\ orders[r] <= mishaps
  /\ orders' = [orders EXCEPT ![r] = @ + 1]
  /\ UNCHANGED <<reached, mishaps>>

Mishap ==
  /\ mishaps' = mishaps + 1
  /\ UNCHANGED <<reached, orders>>

AbsNext == Mishap \/ \E r \in Runs : Advance(r) \/ Order(r)

AbsSpec == AbsInit /\ [][AbsNext]_absVars
=============================================================================
