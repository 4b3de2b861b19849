--------------------------- MODULE OrderExecution ---------------------------
(***************************************************************************)
(* The execution agent's graph-pull path: agents/execution takes a PMRun   *)
(* (an approved set of buys and exits) from the graph, consults the        *)
(* deliberator's veto, reconciles pending fills with the broker, submits   *)
(* each surviving intent under its idempotency key, writes a Fill per      *)
(* answer, then the ExecutionRun and, last, the EXECUTED_BY edge that      *)
(* takes the PMRun off the pending list.                                   *)
(*                                                                         *)
(* The deliberator, the clock and the broker act between any two of those  *)
(* steps.  The process may die or a graph write may fail between them; the *)
(* work loop (module WorkLoop) then calls execute_pm_node again from the   *)
(* start.  Broker-native stops and the drop sweep are not in this module.  *)
(*                                                                         *)
(* Prices, quantities and the wording of reasons are abstracted: an order  *)
(* is its lifecycle state, a Fill is who wrote it and what it claims.      *)
(***************************************************************************)
EXTENDS Integers, Sequences, FiniteSets, FiniteSetsExt

CONSTANTS
  Runs,        \* PMRun ids
  Tickers,
  Approved,    \* [Runs -> Seq(Intent)]: order_intent_set.approved
  Degraded,    \* runs whose RunRequest declares run_posture = "degraded"
  Posture,     \* settings.deliberation_posture: "binding" or "advisory"
  ExitScope,   \* the run-independent scope of an exit's idempotency key
  NoRun,       \* no run in hand, no ExecutionRun written
  Env,         \* the misbehaviours of the environment this instance explores
  MaxMishaps   \* bound: crashes and failed graph writes

Sides == {"buy", "sell"}
Intents == [ticker : Tickers, side : Sides, ref : BOOLEAN]
EnvKinds == {"broker_fault", "graph_fault", "crash", "partial", "expire", "stage"}

ASSUME ApprovedAssumption ==
  /\ Approved \in [Runs -> Seq(Intents)]
  /\ ExitScope \notin Runs /\ NoRun \notin Runs
ASSUME PostureAssumption ==
  /\ Posture \in {"binding", "advisory"} /\ Degraded \subseteq Runs
  /\ Env \subseteq EnvKinds /\ MaxMishaps \in Nat

----------------------------------------------------------------------------
(* Idempotency keys, broker answers and fills *)

Keys == [scope : Runs \cup {ExitScope}, ticker : Tickers, side : Sides]

\* Mutant: exits keyed by the run that decided them.
RunScopedKey(r, i) == [scope |-> r, ticker |-> i.ticker, side |-> i.side]

\* order_from_intent: an exit's key names its position, not the run.
KeyOf(r, i) ==
  [scope  |-> IF i.side = "sell" /\ i.ref THEN ExitScope ELSE r,
   ticker |-> i.ticker, side |-> i.side]

\* "cut": ended by the broker after filling part; "canceled": after filling
\* nothing; "refused": the broker recorded and rejected it.
OrderStates == {"none", "pending", "partial", "filled", "cut", "canceled", "refused"}
Said == {"filled", "partial", "pending", "rejected"}

\* Mutant: an ended order is a fill whatever quantity it filled.
EndedIsFilled(o) ==
  CASE o \in {"filled", "cut", "canceled"} -> "filled"
    [] o \in {"partial", "pending"}        -> o
    [] OTHER                               -> "rejected"

\* status_of: what a broker order is reported as.
StatusOf(o) ==
  CASE o \in {"filled", "cut"}      -> "filled"
    [] o \in {"partial", "pending"} -> o
    [] OTHER                        -> "rejected"

\* A Fill node: the run that wrote it, the status it was written with,
\* whether a broker order (not a fabricated rejection) is behind it, and the
\* broker_status a later refresh appended.
Fills == [run : Runs, said : Said, real : BOOLEAN, broker : Said \cup {"unset"}]
NewFill(r, answer) ==
  [run |-> r, said |-> answer.said, real |-> answer.real, broker |-> "unset"]
Compatible(f, g) == f.run = g.run /\ f.said = g.said /\ f.real = g.real
EffectiveStatus(f) == IF f.broker = "unset" THEN f.said ELSE f.broker
IsCompletedExit(chain) ==
  chain # <<>> /\ EffectiveStatus(chain[Len(chain)]) \in {"filled", "partial"}

\* select_fill_attempt then merge_node: a compatible attempt is kept as it
\* is, otherwise the next ordinal is written.
WithAttempt(chain, f) ==
  IF \E n \in DOMAIN chain : Compatible(chain[n], f) THEN chain ELSE Append(chain, f)

VARIABLES
  \* the graph
  arrived,    \* PMRuns written
  aged,       \* PMRuns with buys older than deliberation_grace_seconds
  reviewed,   \* PMRuns with their DELIBERATED_BY edge
  veto,       \* the linked DeliberationRun's vetoed_tickers
  failedOpen, \* runs whose DeliberationRun has failed-open tickers
  fills,      \* per idempotency key, the chain of Fill attempts
  execRun,    \* the ExecutionRun's props
  linked,     \* PMRuns with their EXECUTED_BY edge
  stage,      \* latest StageTransition: "paper" (or shadow) or "live"
  \* the broker
  order,      \* per client_order_id, the broker's order
  \* the execution process
  pc, run, status, todo, tally, hand,
  mishaps

graph == <<arrived, aged, reviewed, veto, failedOpen>>
proc == <<pc, run, status, todo, tally, hand>>
vars == <<arrived, aged, reviewed, veto, failedOpen, fills, execRun, linked,
          stage, order, pc, run, status, todo, tally, hand, mishaps>>

Statuses == {"applied", "applied_failed_open", "not_required", "waiting",
             "held_degraded", "proceeded_unvetoed"}
Tallies == [submitted : Nat, rejected : Nat, skipped : Nat, blocked : Nat]
Answers == [said : Said, real : BOOLEAN]
NoTally == [submitted |-> 0, rejected |-> 0, skipped |-> 0, blocked |-> 0]
NoAnswer == [said |-> "rejected", real |-> FALSE]

Init ==
  /\ arrived = {} /\ aged = {} /\ reviewed = {} /\ failedOpen = {}
  /\ veto = [r \in Runs |-> {}]
  /\ fills = [k \in Keys |-> <<>>]
  /\ execRun = [r \in Runs |-> NoRun]
  /\ linked = {}
  /\ stage = "paper"
  /\ order = [k \in Keys |-> "none"]
  /\ pc = "idle" /\ run = NoRun /\ status = "waiting" /\ todo = {}
  /\ tally = NoTally /\ hand = NoAnswer
  /\ mishaps = 0

----------------------------------------------------------------------------
(* The world around the execution process *)

HasBuy(r) == \E n \in DOMAIN Approved[r] : Approved[r][n].side = "buy"

\* The portfolio manager writes a PMRun.
Arrive(r) ==
  /\ r \notin arrived
  /\ arrived' = arrived \cup {r}
  /\ UNCHANGED <<aged, reviewed, veto, failedOpen, fills, execRun, linked, stage,
                 order, proc, mishaps>>

\* deliberation_grace_seconds pass; the age of a run without buys is not read.
GraceExpires(r) ==
  /\ r \in arrived \ aged /\ HasBuy(r)
  /\ aged' = aged \cup {r}
  /\ UNCHANGED <<arrived, reviewed, veto, failedOpen, fills, execRun, linked, stage,
                 order, proc, mishaps>>

TickersOf(r) == {Approved[r][n].ticker : n \in DOMAIN Approved[r]}

\* review_pm_node: every approved intent is debated, exits too; an overturn
\* vetoes the ticker, a debate that failed open never does.
Deliberate(r) ==
  /\ r \in arrived \ reviewed
  /\ \E overturned \in SUBSET TickersOf(r) :
       \E unanswered \in SUBSET (TickersOf(r) \ overturned) :
         /\ veto' = [veto EXCEPT ![r] = overturned]
         /\ failedOpen' = IF unanswered = {} THEN failedOpen ELSE failedOpen \cup {r}
  /\ reviewed' = reviewed \cup {r}
  /\ UNCHANGED <<arrived, aged, fills, execRun, linked, stage, order, proc, mishaps>>

\* promote_stage appended a transition across the live boundary.
ChangeStage ==
  /\ "stage" \in Env
  /\ stage' = IF stage = "paper" THEN "live" ELSE "paper"
  /\ UNCHANGED <<graph, fills, execRun, linked, order, proc, mishaps>>

\* The broker works a resting day order.
BrokerMoves(k) ==
  /\ \E to \in OrderStates :
       /\ \/ order[k] = "pending" /\ to = "filled"
          \/ order[k] = "pending" /\ to = "canceled" /\ "expire" \in Env
          \/ order[k] = "pending" /\ to = "partial" /\ "partial" \in Env
          \/ order[k] = "partial" /\ to \in {"filled", "cut"}
       /\ order' = [order EXCEPT ![k] = to]
  /\ UNCHANGED <<graph, fills, execRun, linked, stage, proc, mishaps>>

----------------------------------------------------------------------------
(* execute_pm_node, step by step *)

\* Mutant: a run without buys waits for its review like any other.
StatusExitsWait(r) ==
  CASE r \in reviewed                     -> "applied"
    [] r \notin reviewed /\ r \in aged    -> "proceeded_unvetoed"
    [] r \notin reviewed /\ r \notin aged -> "waiting"

\* Mutant: no grace period bounds the wait.
StatusWaitsForever(r) ==
  CASE r \in reviewed                   -> "applied"
    [] r \notin reviewed /\ HasBuy(r)  -> "waiting"
    [] r \notin reviewed /\ ~HasBuy(r) -> "not_required"

\* deliberation_status.
DeliberationStatus(r) ==
  CASE r \in reviewed /\ r \in failedOpen    -> "applied_failed_open"
    [] r \in reviewed /\ r \notin failedOpen -> "applied"
    [] r \notin reviewed /\ ~HasBuy(r)       -> "not_required"
    [] r \notin reviewed /\ HasBuy(r) /\ r \in Degraded -> "held_degraded"
    [] r \notin reviewed /\ HasBuy(r) /\ r \notin Degraded /\ r \in aged
         -> "proceeded_unvetoed"
    [] OTHER -> "waiting"

\* find_pending offers the PMRun and execute_pm_node reads its status.
Begin(r) ==
  /\ pc = "idle"
  /\ r \in arrived \ linked
  /\ DeliberationStatus(r) # "waiting"
  /\ pc' = "veto" /\ run' = r /\ status' = DeliberationStatus(r)
  /\ todo' = DOMAIN Approved[r]
  /\ tally' = NoTally /\ hand' = NoAnswer
  /\ UNCHANGED <<graph, fills, execRun, linked, stage, order, mishaps>>

\* Mutant: the veto is not read again when the run failed open somewhere.
SurvivorsUnlessFailedOpen(r) ==
  IF r \notin reviewed \/ r \in failedOpen THEN DOMAIN Approved[r]
  ELSE {n \in DOMAIN Approved[r] : Approved[r][n].ticker \notin veto[r]}

\* drop_vetoed: the intents whose ticker the linked review did not overturn.
Survivors(r) ==
  IF r \in reviewed
  THEN {n \in DOMAIN Approved[r] : Approved[r][n].ticker \notin veto[r]}
  ELSE DOMAIN Approved[r]

\* Mutant: the binding posture is not looked at.
BlocksBuysDegradedOnly(s) == s = "held_degraded"

\* apply_deliberation_posture: when buy exposure is dropped.
BlocksBuys(s) ==
  s = "held_degraded" \/ (Posture = "binding" /\ s = "proceeded_unvetoed")

\* The graph is read again for the veto, after the status was decided.
ReadVeto ==
  /\ pc = "veto"
  /\ LET left == Survivors(run)
         kept == IF BlocksBuys(status)
                 THEN {n \in left : Approved[run][n].side # "buy"} ELSE left
     IN  /\ todo' = kept
         /\ tally' = [tally EXCEPT !.blocked = Cardinality(left) - Cardinality(kept)]
  /\ pc' = "reconcile"
  /\ UNCHANGED <<graph, fills, execRun, linked, stage, order, run, status, hand, mishaps>>

\* awaits_broker and broker_status_props: a Fill written "pending" takes the
\* broker's first final word, and a partial one may still become filled.
AwaitsBroker(f) == f.said = "pending" /\ f.broker \notin {"filled", "rejected"}
Refreshed(f, o) ==
  IF /\ AwaitsBroker(f) /\ o # "none" /\ StatusOf(o) # "pending"
     /\ f.broker = "unset" \/ (f.broker = "partial" /\ StatusOf(o) = "filled")
  THEN [f EXCEPT !.broker = StatusOf(o)] ELSE f

\* reconcile_run_start: fail-open, so a failed broker read refreshes nothing.
Reconcile ==
  /\ pc = "reconcile"
  /\ \/ fills' = [k \in Keys |->
                    [n \in DOMAIN fills[k] |-> Refreshed(fills[k][n], order[k])]]
     \/ "broker_fault" \in Env /\ fills' = fills
  /\ pc' = "gate"
  /\ UNCHANGED <<graph, execRun, linked, stage, order, run, status, todo, tally, hand,
                 mishaps>>

\* Mutant: the broker's refusals leave the run's tally unchanged.
CountedSubmitsOnly(t, said) ==
  IF said = "rejected" THEN t ELSE [t EXCEPT !.submitted = @ + 1]

\* execution_result: a fill counts as submitted or as rejected.
Counted(t, said) ==
  IF said = "rejected" THEN [t EXCEPT !.rejected = @ + 1]
                       ELSE [t EXCEPT !.submitted = @ + 1]

\* run_submit reads the stage once; outside paper and shadow every order is
\* recorded as rejected and none reaches the broker.
PassGate ==
  /\ pc = "gate" /\ stage = "paper"
  /\ pc' = "submit"
  /\ UNCHANGED <<graph, fills, execRun, linked, stage, order, run, status, todo, tally,
                 hand, mishaps>>

LiveGateRejects ==
  /\ pc = "gate" /\ stage = "live"
  /\ LET keys == {KeyOf(run, Approved[run][n]) : n \in todo}
     IN  fills' = [k \in Keys |-> IF k \in keys
                                  THEN WithAttempt(fills[k], NewFill(run, NoAnswer))
                                  ELSE fills[k]]
  /\ tally' = [tally EXCEPT !.rejected = Cardinality(todo)]
  /\ todo' = {} /\ pc' = "record"
  /\ UNCHANGED <<graph, execRun, linked, stage, order, run, status, hand, mishaps>>

\* The intent in hand, in the approved order.
Current == Min(todo)
CurrentKey == KeyOf(run, Approved[run][Current])

CompletedExit ==
  LET i == Approved[run][Current]
  IN  i.side = "sell" /\ i.ref /\ IsCompletedExit(fills[CurrentKey])

SkipCompletedExit ==
  /\ pc = "submit" /\ todo # {} /\ CompletedExit
  /\ todo' = todo \ {Current}
  /\ tally' = [tally EXCEPT !.skipped = @ + 1]
  /\ UNCHANGED <<graph, fills, execRun, linked, stage, order, pc, run, status, hand,
                 mishaps>>

\* broker.submit answered: a new order, or the one already under this key.
SubmitAnswered ==
  /\ pc = "submit" /\ todo # {} /\ ~CompletedExit
  /\ \E new \in IF order[CurrentKey] = "none" THEN {"pending", "filled", "refused"}
                                              ELSE {order[CurrentKey]} :
       /\ order' = [order EXCEPT ![CurrentKey] = new]
       /\ hand' = [said |-> StatusOf(new), real |-> TRUE]
  /\ pc' = "write"
  /\ UNCHANGED <<graph, fills, execRun, linked, stage, run, status, todo, tally, mishaps>>

\* Mutant: a raised submit leaves no fill to write.
SubmitRaisedUnrecorded ==
  /\ "broker_fault" \in Env
  /\ pc = "submit" /\ todo # {} /\ ~CompletedExit
  /\ \/ order' = order
     \/ order[CurrentKey] = "none" /\ order' = [order EXCEPT ![CurrentKey] = "pending"]
  /\ todo' = todo \ {Current}
  /\ UNCHANGED <<graph, fills, execRun, linked, stage, pc, run, status, tally, hand,
                 mishaps>>

\* broker.submit raised; the order may have been placed all the same.
SubmitRaised ==
  /\ "broker_fault" \in Env
  /\ pc = "submit" /\ todo # {} /\ ~CompletedExit
  /\ \/ order' = order
     \/ order[CurrentKey] = "none" /\ order' = [order EXCEPT ![CurrentKey] = "pending"]
  /\ hand' = NoAnswer
  /\ pc' = "write"
  /\ UNCHANGED <<graph, fills, execRun, linked, stage, run, status, todo, tally, mishaps>>

\* write_fills; the fill is counted once it is durable.
WriteFill ==
  /\ pc = "write"
  /\ fills' = [fills EXCEPT ![CurrentKey] = WithAttempt(@, NewFill(run, hand))]
  /\ tally' = Counted(tally, hand.said)
  /\ todo' = todo \ {Current} /\ pc' = "submit" /\ hand' = NoAnswer
  /\ UNCHANGED <<graph, execRun, linked, stage, order, run, status, mishaps>>

\* A failed write is swallowed by the per-order fault boundary.
WriteFillFails ==
  /\ "graph_fault" \in Env /\ mishaps < MaxMishaps
  /\ pc = "write"
  /\ todo' = todo \ {Current} /\ pc' = "submit" /\ hand' = NoAnswer
  /\ mishaps' = mishaps + 1
  /\ UNCHANGED <<graph, fills, execRun, linked, stage, order, run, status, tally>>

SubmitDone ==
  /\ pc = "submit" /\ todo = {}
  /\ pc' = "record"
  /\ UNCHANGED <<graph, fills, execRun, linked, stage, order, run, status, todo, tally,
                 hand, mishaps>>

\* The process forgets the run in hand: it returned, raised or died.
LetGo ==
  /\ pc' = "idle" /\ run' = NoRun /\ status' = "waiting" /\ todo' = {}
  /\ tally' = NoTally /\ hand' = NoAnswer

\* The ExecutionRun node is append-only: merging different props raises.
ExecutionProps ==
  [status |-> status, submitted |-> tally.submitted, rejected |-> tally.rejected,
   skipped |-> tally.skipped + tally.blocked, blocked |-> tally.blocked]

WriteExecutionRun ==
  /\ pc = "record"
  /\ execRun[run] \in {NoRun, ExecutionProps}
  /\ execRun' = [execRun EXCEPT ![run] = ExecutionProps]
  /\ pc' = "link"
  /\ UNCHANGED <<graph, fills, linked, stage, order, run, status, todo, tally, hand,
                 mishaps>>

WriteExecutionRunRaises ==
  /\ pc = "record"
  /\ execRun[run] \notin {NoRun, ExecutionProps}
  /\ LetGo
  /\ UNCHANGED <<graph, fills, execRun, linked, stage, order, mishaps>>

Link ==
  /\ pc = "link"
  /\ linked' = linked \cup {run}
  /\ LetGo
  /\ UNCHANGED <<graph, fills, execRun, stage, order, mishaps>>

\* add_edge raises; the work loop will call execute_pm_node again.
LinkFails ==
  /\ "graph_fault" \in Env /\ mishaps < MaxMishaps
  /\ pc = "link"
  /\ LetGo
  /\ mishaps' = mishaps + 1
  /\ UNCHANGED <<graph, fills, execRun, linked, stage, order>>

Crash ==
  /\ "crash" \in Env /\ mishaps < MaxMishaps
  /\ pc # "idle"
  /\ LetGo
  /\ mishaps' = mishaps + 1
  /\ UNCHANGED <<graph, fills, execRun, linked, stage, order>>

Executor ==
  \/ \E r \in Runs : Begin(r)
  \/ ReadVeto \/ Reconcile \/ PassGate \/ LiveGateRejects
  \/ SkipCompletedExit \/ SubmitAnswered \/ SubmitRaised
  \/ WriteFill \/ SubmitDone
  \/ WriteExecutionRun \/ WriteExecutionRunRaises \/ Link

Mishap == WriteFillFails \/ LinkFails \/ Crash

World ==
  \/ \E r \in Runs : Arrive(r) \/ GraceExpires(r) \/ Deliberate(r)
  \/ ChangeStage
  \/ \E k \in Keys : BrokerMoves(k)

Next == Executor \/ Mishap \/ World

Spec == Init /\ [][Next]_vars

\* The work loop calls execute_pm_node while a PMRun is pending.  The review
\* may never come and the broker may never fill: no fairness is asked of them.
FairSpec == Spec /\ WF_vars(Executor)

----------------------------------------------------------------------------
(* Properties *)

ExecutionRuns == [status : Statuses, submitted : Nat, rejected : Nat,
                  skipped : Nat, blocked : Nat]

\* Types of the graph's facts, the broker's orders and the process.  In
\* particular a run in hand never has the status "waiting", and the run in
\* hand is one the graph holds.
TypeOK ==
  /\ arrived \subseteq Runs /\ aged \subseteq Runs /\ reviewed \subseteq Runs
  /\ failedOpen \subseteq Runs /\ linked \subseteq Runs
  /\ veto \in [Runs -> SUBSET Tickers]
  /\ fills \in [Keys -> Seq(Fills)]
  /\ execRun \in [Runs -> ExecutionRuns \cup {NoRun}]
  /\ stage \in {"paper", "live"}
  /\ order \in [Keys -> OrderStates]
  /\ pc \in {"idle", "veto", "reconcile", "gate", "submit", "write", "record", "link"}
  /\ run \in Runs \cup {NoRun}
  /\ pc # "idle" => run \in arrived /\ status # "waiting"
  /\ status \in Statuses
  /\ run \in Runs => todo \subseteq DOMAIN Approved[run]
  /\ run = NoRun => todo = {}
  /\ pc = "write" => todo # {}
  /\ tally \in Tallies
  /\ hand \in Answers
  /\ mishaps \in Nat

Working == {"pending", "partial", "filled", "cut"}

\* However often an exit is decided again, retried or replayed, at most one
\* broker order for it is working or has sold shares (order_from_intent).
NoOversell ==
  \A j, k \in Keys :
    /\ j.side = "sell" /\ k.side = "sell" /\ j.ticker = k.ticker
    /\ order[j] \in Working /\ order[k] \in Working
    => j = k

\* Under the binding posture, and on a degraded run, no buy reaches the broker
\* unless its review arrived (EXEC-NEV-06 of the execution laws).
BuyNeedsReview ==
  \A k \in Keys :
    k.side = "buy" /\ order[k] # "none" /\ (Posture = "binding" \/ k.scope \in Degraded)
    => k.scope \in reviewed

\* A Fill that counts as completed has a broker order that sold or bought
\* something: skipping a completed exit never skips an exit that did not
\* happen (is_completed_exit_fill, refresh_pending_fills).
FilledMeansTraded ==
  \A k \in Keys : \A n \in DOMAIN fills[k] :
    EffectiveStatus(fills[k][n]) \in {"filled", "partial"}
    => order[k] \in {"partial", "filled", "cut"}

\* Unless a graph write failed, an executed PMRun left no order at the broker
\* without a Fill, whatever crashed or was lost on the way; the one exception
\* is a ticker vetoed by the time of the retry.
UnvetoedOrdersRecorded ==
  \A r \in linked : \A n \in DOMAIN Approved[r] :
    LET k == KeyOf(r, Approved[r][n])
    IN  k.ticker \notin veto[r] /\ order[k] # "none" => fills[k] # <<>>

Vetoed(r) == {n \in DOMAIN Approved[r] : Approved[r][n].ticker \in veto[r]}

\* Unless a graph write failed, the ExecutionRun accounts for every intent:
\* submitted, rejected and skipped add up to the approved ones not vetoed.
AllAccounted ==
  \A r \in Runs : execRun[r] # NoRun =>
    LET e == execRun[r]
        total == e.submitted + e.rejected + e.skipped
        all == Len(Approved[r])
        unvetoed == all - Cardinality(Vetoed(r))
    IN  IF e.status \in {"applied", "applied_failed_open"}
        THEN total = unvetoed ELSE total \in {unvetoed, all}

\* Once a veto of a buy is linked while the process is between runs and the
\* order is not at the broker, it never gets there: not by a retry, a replay
\* or a failed-open sibling (drop_vetoed).
VetoedBuyStaysOut ==
  \A r \in Runs, t \in Tickers :
    LET k == [scope |-> r, ticker |-> t, side |-> "buy"]
    IN  [](pc = "idle" /\ t \in veto[r] /\ order[k] = "none" => [](order[k] = "none"))

\* A PMRun that only exits is executed however long its review takes: it
\* waits neither for the deliberator nor for the grace period.
ExitsNeverWait ==
  \A r \in Runs : ~HasBuy(r) => (r \in arrived ~> r \in linked)

\* A PMRun with buys is executed once its grace period is over, whether or
\* not the deliberator ever answers.
BuysWaitBounded == \A r \in Runs : r \in aged ~> r \in linked

=============================================================================
