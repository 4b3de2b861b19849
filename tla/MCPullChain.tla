---- MODULE MCPullChain ----
(* The chain for TLC: all bounds are constants of PullChain. *)
EXTENDS PullChain
====
