---------------------------- MODULE MCWorkLoop ----------------------------
(* Small instances of WorkLoop for TLC: one item that always advances, one *)
(* that never does, and one free to do either on each attempt.             *)
EXTENDS WorkLoop

=============================================================================
