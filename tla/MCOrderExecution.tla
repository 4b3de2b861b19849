-------------------------- MODULE MCOrderExecution --------------------------
(* Small instances of OrderExecution for TLC: two sessions decide about    *)
(* one held ticker and one ticker to buy.                                  *)
EXTENDS OrderExecution, TLC

Sell(t) == [ticker |-> t, side |-> "sell", ref |-> TRUE]
Buy(t) == [ticker |-> t, side |-> "buy", ref |-> FALSE]

CONSTANTS r1, r2, held, wanted

\* One session buys and exits.
BuyAndExit == r1 :> <<Buy(wanted), Sell(held)>>

\* Two sessions decide the same exit.
ExitTwice == r1 :> <<Sell(held)>> @@ r2 :> <<Sell(held)>>

\* The first session buys and exits, the second decides the exit again.
BuyThenExit == r1 :> <<Buy(wanted), Sell(held)>> @@ r2 :> <<Sell(held)>>

\* The two sessions of ExitTwice are interchangeable.
Sessions == Permutations({r1, r2})
=============================================================================
