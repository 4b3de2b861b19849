# TLA+ verification of trading-agents

This directory holds TLA+ models of the parts of the trading system whose
correctness depends on interleavings, crashes, retries and lost answers, the TLC
configurations that check them on small instances, and TLAPS proofs of the most
important safety properties for every instance. `PROJECT.json` is the index: it
maps every modelling definition to the source lines it stands for, names each
run with its properties, and lists the hazards the properties are aimed at.

Run a check with `tlc -config <X>.cfg <Module>` and a proof with
`tlapm <Module>Proofs.tla` (`OrderProofs.tla` for `OrderExecution`).

## 1. The system

A fleet of agent containers trades one paper or live account. There is no
central coordinator. Every agent polls a shared, append-only graph (PostgreSQL
behind `kernel/graph*.py`) for nodes that lack "its" edge, processes each one,
and writes its own nodes and finally the edge that takes the work item off the
list. Merging a *different* value into an existing property raises; nothing is
ever overwritten. A day looks like this:

    scheduled dispatcher -> RunRequest -> provider -> scanner -> analyst
      -> portfolio manager -> PMRun -> (deliberator -> DeliberationRun)
      -> execution -> Fill, ExecutionRun -> monitor -> reporter -> Snapshot

| Part | State it keeps | Operations | How it meets the others |
| --- | --- | --- | --- |
| kernel work loop (`kernel/work_loop*.py`, `stop.py`) | retry ledger in memory, `WorkItemQuarantine` markers | a pass over the pending items, failure accounting, quarantine, idle sleep, stop | every agent's main loop; shares only the graph |
| execution: submission (`agents/execution/pm_execution.py`, `run.py`, `deliberation_*.py`, `fill_attempts.py`, `store.py`) | `Fill` chains, `ExecutionRun`, `EXECUTED_BY` edges | take a PMRun, read veto, refresh pending fills, submit, record | reads PMRun and DeliberationRun, calls the broker |
| execution: stage gate (`stage_flow.py`, `domain/stage_gate.py`) | `StageTransition` nodes | promote, demote, request a confirmation | called by the supervisor; reads Snapshots, Faults, FlagResolutions |
| execution: drop sweep, broker stops, divergences | `drop_reason`, `BrokerStopOrder`, divergence flags | cancel old orders, place and cancel stops, open and close episodes | broker, run start |
| broker (Alpaca, paper) | orders by `client_order_id` | submit, cancel, replace, list | external |
| deliberator (`agents/deliberator/`) | reply inbox, orphan count and model chain in memory, `DeliberationRun`, `DELIBERATED_BY` | debate every approved intent, several at once | two served peers over the bus, LLM judges |
| supervisor | `Flag`, `FlagResolution`, `Message` | route an intent, flag for a human, resolve | called by operator and surfaces |
| scheduled dispatcher (`orchestration/scheduled_dispatch*.py`, `hold_answers.py`) | `RunHold`, `RunHoldAnswer`, the day's `RunRequest` | one fire every ten minutes: poll answers, hold, release, place, notify | cron job, Telegram, dashboard, FleetPreflight |
| master (`agents/master/`, `kernel/ehlo*.py`) | replay memory and pass cache in memory, `Session`, `AgentInstance`, grants, `FleetPreflight` | answer an EHLO, replay it, test credentials, drain and stop | every agent at start |
| kernel bus, serve loop | queues of the transport | request, take, reply | all request/response traffic |
| resume (`orchestration/resume*.py`) | child `RunRequest` with cloned artifacts | resume a run from a stage | writes into the graph the agents poll |
| provider, scanner, analyst, forecaster, portfolio manager, monitor, reporter, researcher, curator, operator | their own run nodes | numeric or text processing of one item | graph-pull, through the work loop |
| surfaces, scripts, infra | none | read-only views, tools, deployment | - |

What is hard here: nothing is transactional across two graph writes, or across a
broker call and a graph write; a container may be killed between any two steps
and is started again with an empty memory; values are read, then used after
other processes have moved on; answers of the broker or of Telegram get lost
after the request took effect; and retries re-derive decisions from facts that
have changed since.

The properties that make each part correct:

* work loop: a bounded number of attempts, honoured backoff, quarantine only when
  earned and then final, no starvation by poison items, a stop that ends it;
* order submission: never two live orders for one exit, no unreviewed buy where a
  review is required, a vetoed buy stays out, fills that tell the truth, every
  intent accounted for, exits never wait for a review;
* stage gate: no stage in force that a human has not approved rung by rung;
* dispatcher: one run a day, one active hold at most, a delivered notice behind
  every `notified_at`, an operator's skip that stands;
* protective stops: what is held after a run is protected or the operator was told,
  shares freed for an exit are exiting or told, a stop whose record was lost is
  found again and never placed twice;
* run start: no order of an earlier run left working, none recorded as dropped that
  still trades, stops spared, one open flag per live divergence;
* activation: one identity per boot id however often it asks, nobody waits for an
  activation that nobody performs, a clean exit cuts no request off;
* the chain of agents: nothing computed from a half-written output, one decision
  per run plus at most one for each kill, every run reported or visibly stuck;
* the debate: a ruling rests on its own turns only, a reply reaches the thread that
  waits for it, a request is served at most once, the review ends or is quarantined.

## 2. Modules

| Module | Models | Interleaving explored |
| --- | --- | --- |
| `WorkLoop` | `run_once`, `work_loop`, `WorkLoopState`, policy, quarantine, `StopSignal` | arrivals, stop requests, crashes, restarts, time, either outcome of each item |
| `OrderExecution` | `execute_pm_node` from `find_pending` to `EXECUTED_BY`; deliberator, grace clock, stage and broker around it | the review, the clock, the broker, a crash or a failed write between any two steps |
| `StageGate` | `promote_stage`, the supervisor's stage intent, flags and resolutions | several callers, each between its read and its write |
| `ScheduledDispatch` | `dispatch_with_human_answer` and what it calls, the dashboard's answer handler | overlapping fires, deaths, lost Telegram answers, fleet changes |
| `StopBook` | `settle_stops`, the refresh and snapshot before it, what submission does to it; monitor and broker around it | the broker, the monitor, a crash or a lost answer at any step |
| `RunStart` | `sync_run_request`: drop sweep, refresh, snapshot, divergence episodes; the same before a PM run | the broker, the monitor, a human, a crash or a failed call |
| `FleetActivation` | EHLO retry, the master's threads, replay memory, pass cache, preflight, draining and sessions | threads, resends, the clock, a stop, a crash, graph errors |
| `PullChain` | the seven polling agents with their separate writes and edges, quarantine, `resume_run` | every write of every agent, polls of half-written nodes, kills, a resume under the polls |
| `Pipeline` | what the chain promises; `PullChain` implements it | - |
| `PeerDebate` | a PMRun's concurrent reviews, reply inbox, served peers, judge's model chain, `DeliberationRun` | the preflight, the review threads, the peers, time-outs, kills, failed publishes, settlements and writes |
| `WorkLoopProofs`, `OrderProofs`, `ScheduledDispatchProofs`, `RunStartProofs`, `FleetProofs`, `PeerDebateProofs`, `PullChainProofs` | theorems about the module each extends | |
| `ExecutionGuardProofs` | theorems about `StopBook` and about `StageGate`, which share no state | |
| `MC*` | instances for TLC | |

### WorkLoop

`pending` is what `find_pending` returns; `marked` the durable markers; `attempts`,
`wait` and `held` are the ledger; `todo`, `found`, `completed`, `cur` the pass. A
pass is `StartPass` (reads the clock and the list, filters `eligible_items`), then
`BeginItem` and `ItemReturns` or `ItemRaises` per item, then `EndPass` (the second
read of the graph, `record_failure` of what did not advance, `clear` of what did,
and the choice between another pass and the idle sleep). An item in `Healthy`
always advances, one in `Poison` never does, any other may do either on each
attempt, and may advance although it raised. Deadlines are kept relative to the
pass's clock reading, so time needs no bound: only `next_retry_at > now` is ever
tested, and the relative values saturate. `EndLoop` stands for the closing steps:
whatever they report, the process is gone. Left out: fault flushing (it may raise,
which is a `Crash`) and log lines.

### OrderExecution

An intent is a ticker, a side and whether it names its position (`ref`).
`KeyOf` is `order_from_intent`: a named exit is keyed by its position, anything
else by its run. A broker order is its life-cycle state; `StatusOf` is what the
port reports for it, including that an ended order with a partial fill is reported
`filled` (`cut`). A `Fill` keeps who wrote it, what it said, whether a broker order
was behind it, and the `broker_status` appended later; `fills[k]` is the attempt
chain of `fill_attempts.py`. The process goes

    Begin -> ReadVeto -> Reconcile -> PassGate | LiveGateRejects
      -> (SkipCompletedExit | SubmitAnswered | SubmitRaised -> WriteFill)*
      -> SubmitDone -> WriteExecutionRun -> Link

The status is read in `Begin` and the veto again in `ReadVeto`, because the code
reads the graph twice. `SubmitRaised` may have placed the order. A failed Fill
write is swallowed (`WriteFillFails`); a failed edge raises (`LinkFails`), and so
does merging different counts into the ExecutionRun (`WriteExecutionRunRaises`):
the work loop then calls from the start. `Env` selects which misbehaviours an
instance explores, `MaxMishaps` how many crashes and failed writes. Prices,
quantities, tolerance bands, broker-native stops and the drop sweep are not in it.

### StageGate

`stage` is the latest `StageTransition`; `asked[c]` is caller c's call: the stage it
read, what it wants, where it is. `DecideCall` is the whole of `promote_stage`
between the read and the write; `Transition` and `RequestConfirmation` are the two writes.
A flag may fail to be written, because the supervisor's reply is not looked at.
Snapshots are good or bad, which is enough for an average rate. Callers are
several because every surface process binds its own execution and supervisor
agents over one graph (`surfaces/context.py`, `orchestration/bindings.py:73`).

### ScheduledDispatch

One session. `fire[f]` is a cron fire with what it has read: the hold at its
start, whether that hold was answered, the effective answer, the readiness. The
merges on append-only nodes are explicit: a fire that would change a
`released_at` or `answered_with` ends with an error. Telegram requests succeed,
fail, or succeed with their answer lost. Time is the fire's `now`, in units in
which no two fires start; answers by button carry the fire's `now`, answers on the
dashboard the present time. Fires overlap because the job may run 1800 s and is
started every ten minutes (`infra/deploy-agents.ps1:559`).

### StopBook

The protective stops of one ticker over several PM runs. A holding is a quantity
and the entries its average is made of; a `position_ref`, which the code hashes
from Position keys, is the set of those keys, so two refs are equal exactly when
the hashes are. A stop key is a ref and an ordinal, a Fill key adds the attempt
(`FillKey`, with the suffixes the code builds, collisions included). One run goes:
refresh the Fills, snapshot the holding, cancel stops whose position is gone,
free the shares of an exit, place, adopt or move the stop of what is kept, submit.
Submission is seen through its outcomes; its steps are `OrderExecution`'s. Every
broker call may fail, or take effect and lose its answer; the monitor adopts
snapshots into Position nodes one write at a time; the broker fills, triggers and
ends orders at any moment. `ex.over` is a history field and not the code's: the stops
that the run's own refresh found at an end, which `KeptIsProtectedOrTold` speaks of.

### RunStart

`sync_run_request` with the sweep of earlier orders: list, cancel one by one,
`record_drop` in its separate writes, mark the ExecutionRuns, then refresh,
snapshot and `record_divergences` as a list of writes (`ex.writes`) computed from
what was read, so that a human's resolution or the monitor's adoption in between
makes the merge conflict the code would have. `Says` is what the port reports: an
order whose cancellation is pending reads as rejected. Episodes are numbered by the
snapshot that opened them.

### FleetActivation

`agent[b]` is the retry loop of one boot id, `req[r]` the point of each request's
thread: counted in, looked up, waiting for the first of its boot id, testing the
credential, writing the instance and its grants, answering. `replay` is the memory
of answers with the time each was stored, `passAt` the credential pass shared with
the preflight. The main thread stops on a signal, drains, writes the session's end
and exits; a crash loses everything but the graph. Grants, secrets and signatures
have no content, and all boots are of one agent type.

### PullChain and Pipeline

A node is its key, how many of its writes are done, the nodes it was computed from
(`trail`) and whether its data was complete (`sound`). Agents find work by label
alone (`Pending`), so they see nodes before their payload and before the edge that
hangs them on the run. Each agent's early returns and exceptions are its own
action: the provider's refusal, a missing payload, a PM run that finds no market
data, the monitor without a PM run, a merge that conflicts. `Quarantine` ends an
item that keeps raising. `resume_run` writes the child, then clone, edge, clone,
edge, under the polls. The retry counter is `WorkLoop`'s and is left out here; in
its place stands the one timing assumption of the module, `AtWork`: a live writer
reaches its next write within the five attempts of the agent that polls it.

`Pipeline` has three variables: how far a run has come, how many decisions it sent
to the broker, how many processes were killed. The refinement maps them to `Depth`
(what `orchestration/batch_chain.py` reads along the edges), the number of sent
PMRuns whose trail starts at the run, and `crashes`. One write may advance a run by
several stages: what was computed from an output before it was linked joins the
chain with it.

### PeerDebate

`th[o]` is the thread that reviews order o, `pending` and `stashed` the inbox the
threads share, `requests`, `taken` and `replies` the two request subscriptions and
the reply subscription. A peer takes one request a pass (`receive_max_messages` is
1), settles it, then answers, so a kill in between loses it (`lost`). A wait may
time out at any moment. A receive may raise: with nothing settled, or after a
settlement that took effect at the broker (`SettledAndRaised`), which skips the line
behind it - the stash of a sibling's reply, the count of an orphan. `routed` says
whether this process's settings name both peers' topics, all that the preflight looks
at, so it stays as it is until a restart; if they do not, the attempt writes nothing
(`PreflightFails`). Attempts that raise or leave the PMRun pending are counted as in
`WorkLoop` (`failures`, in memory) up to the durable quarantine marker; backoff is left
out here, and so is a marker whose write fails, which ends the process and its ledger. Message node and ready event are one step, because the
node is written first and every announced node can be read. A stopped peer is one
that takes nothing. What rulings say is not told apart; that a ruling rests on all
turns of its own debate is. `+=` on the orphan count is one step, as the
interpreter's lock makes it.

## 3. Runs

| Run | Instance | Shows |
| --- | --- | --- |
| `workloop` | a healthy, a poison and a free item; 3 attempts, backoff 2 doubling to a ceiling of 3; 2 lives | `AttemptBudget`, `BackoffHonoured`, `QuarantineEarned`, `QuarantineIsFinal`; live: `EveryItemSettles`, `StopEnds` |
| `order_exits` | two sessions decide the same exit; lost answers, partial fills, expiry, one crash or failed write | `NoOversell`, `FilledMeansTraded` |
| `order_reviews` | one run with a buy and an exit, binding posture, a review at any time, two crashes, stage changes | `BuyNeedsReview`, `UnvetoedOrdersRecorded`, `AllAccounted`, `VetoedBuyStaysOut` |
| `order_live` | a run with a buy and an exit, then an exit again; failing broker calls | `ExitsNeverWait`, `BuysWaitBounded` |
| `stage_gate` | two callers, two runs needed, four snapshots, one critical fault | `StageEarned`, `NoAutopilot` |
| `dispatch` | two overlapping fires, a two-tick window and a tick after it, one button and one dashboard answer | `OneActiveHold`, `NotifiedMeansDelivered`, `SkipStands` |
| `stops` | three PM runs over one ticker, two of which pay the same price; one crash or lost call, one order the broker ends by itself | `LostStopIsFound`, `KeptIsProtectedOrTold`, `FreedIsExitingOrTold` |
| `run_start` | a buy and a stop of the first run, three RunRequests, one crash or failed call, one human resolution | `OneOpenFlag`, `StopsSurviveSweeps`, `DroppedIsOver`, `NothingLeftWorking` |
| `fleet` | two boots, one resends once; lifetimes of one tick, two sessions of the master, one crash or graph error | `AnswersAgree`, `OrphansAreFaults`, `FlightHasOneMinter`, `CleanExitCutsNone` |
| `chain` | a run of the dispatcher, or a resume from position_sync or scanner of a run reported before; one kill | `ComputedFromWhole`; live: `RunEnds`, `OrdersReported`; refinement: `ImplementsPipeline` |
| `debate` | two orders at once over one round, two LLM candidates, two attempts to the quarantine, peers that may have no route, one kill, failed call or failed write | `RulingFromOwnDebate`, `ReplyReachesItsWaiter`, `ServedAtMostOnce`, `OrphansCounted`, `NoCandidateSkipped`; live: `ReviewEnds` |

One run states what the program tells its operator and the code does not do:

| Run | Property | The disagreement |
| --- | --- | --- |
| `late_resume` | `LateResumeSubmitsNothing` | the confirmation of a resume says only stages up to execution can submit orders; a resume from the monitor stage clones the PMRun before its ExecutionRun is linked (`orchestration/resume.py:107`), and an execution agent that polls in between submits it |

The type invariants are proved (section 4); most runs do not repeat them.

Why the bounds are enough. *workloop*: every property speaks of one item, or of
one item beside others; three items give the item, a poison sibling and a free
one. Three attempts distinguish first, middle and last, and the second backoff
meets the ceiling. `MaxLives` bounds the lives that a stop
or a crash may end: memory is lost once and the second life runs on. *order_\**: keys never meet except for one
position decided twice, which two runs show; one crash or failed write at any step
already separates each pair of writes, and *order_reviews* has two so that a retry
may be interrupted too. *stage_gate*: a caller can be stale only against another
one, and a third adds no new kind of staleness; all rungs of the ladder are
present. *dispatch*: two fires overlap, the clock lets a third and a fourth fire
start after them, inside and outside the window. *stops*: three runs let a position be
opened, added to and left, and the equal prices make a later holding look like an
earlier one; a mishap at any step separates each pair of writes. *run_start*: one
run to leave the orders, one to sweep and be interrupted, one to sweep again; an
order of two shares can trade in part. *fleet*: a boot that resends races itself, the
second boot shares the counter and the pass cache; one tick is enough for a lifetime
to run out, two sessions for a resend to meet a master that forgot. *chain*: nodes of
different runs meet only through a resume, and one request at a time keeps the
seven agents tractable; one kill separates each pair of writes of each agent.
*debate*: a thread's inbox hazards need one sibling; two turns use both peers; a
second fault would only end a further attempt the same way; with two attempts one
may fail and be retried, and a preflight that goes on failing meets the cap.

`CHECK_DEADLOCK FALSE` is set for `OrderExecution`, `StopBook`, `RunStart`,
`FleetActivation`, `PullChain` and `PeerDebate`: once the bounded work of the instance
(PM runs, requests, boots, the one review) is done, nothing is left to do.

Fairness. `WorkLoop.Fairness`: the process executes its own steps, a call to
`process_one` returns or raises (agents bound their calls by timeouts), a sleep
ends, the clock moves, the platform restarts a container that exited. Nothing is
assumed of arrivals, of stop requests or of the free item's outcome, and crashes
are bounded by `MaxLives`. `OrderExecution.FairSpec`: only the execution process
itself is weakly fair, because the work loop calls it while a PMRun is pending.
Neither the deliberator nor the broker nor the clock is asked to act; so
`ExitsNeverWait` and `BuysWaitBounded` hold when no review ever comes.
`PullChain.FairSpec`: the fleet as a whole, and a resume that was begun, goes on; kills
are bounded by `MaxCrashes`, and after one the platform starts the agent again.
`PeerDebate.Spec`: only the manager is weakly fair. Nothing is assumed of the peers,
so `ReviewEnds` rests on the wait's own deadline: it ends with the `DELIBERATED_BY`
edge, or with a quarantine marker when the peers have no route in the settings or as many
attempts were failed by faults as the cap allows. The other modules state no liveness.

## 4. Proofs

Proved by TLAPS for every value of the constants, under the named assumptions of
the modules (policy validators, finite sequences of intents, distinct model
values).

* `WorkLoopProofs`: `TypeCorrect`, `BudgetHolds`, `BackoffHolds`, `EarnedHolds`,
  `FinalHolds`. The attempt budget is not inductive: that the next start is still
  within the budget depends on the ledger having counted all earlier ones. The
  inductive invariant adds `LedgerCounts` (starts = recorded attempts + the one in
  hand), which needs `PassShape` (unstarted, in-hand and returned items of a pass
  are disjoint and unquarantined), and for the backoff `WaitAddsUp` (time waited
  since the failing pass + time still to wait >= the backoff).
* `OrderProofs`: `TypeCorrect`; `ReviewHolds` from `ReviewInv` (what the status read
  at the start implies then and ever after, and that every buy left to submit in a
  guarded run has its review); `OversellHolds` from `SellsByPosition`, under the
  hypothesis `ExitsNamePosition` - the portfolio manager names the position of
  every exit it approves; `TradeHolds` from `TradeInv` (the answer in hand is the
  broker's, and an order that traded stays one that traded). `AccountHolds` and
  `RecordHolds` have the hypothesis `"graph_fault" \notin Env`, because a failed Fill
  write is swallowed (section 5). The first keeps one sum from `ReadVeto` to the
  ExecutionRun, of what is counted and what is still to do (`CountedInHand`, then
  `CountedOnRecord`). The second says of each intent that is no
  longer to do what became of it (`NotedInHand`, then `NotedOnRecord`). Both need that a
  veto comes with its review, once (`VetoOnce`), since a retry reads it afresh.
  `VetoHolds` is `VetoedBuyStaysOut`, a formula with a nested always: a vetoed buy that is
  unsent and not about to be sent (`StaysOut`) stays so in every step, crashes and
  retries included.
* `ExecutionGuardProofs`, of the stage: `EarnedHolds` and `AutopilotHolds` from `GateInv`:
  each call in hand carries its own claim (`CallBacked`), so that a stale write still
  writes a stage whose rungs are approved, and every flag carries its evidence.
* `ExecutionGuardProofs`, of the stops: `BookWellTyped`, `LostStopHolds`, `KeptHolds`,
  `FreedHolds` from `BookInv`. That a lost stop is found is no invariant by itself. `KeysInv`
  says of every order, lost or not, where its key is: a fact has it, or it is the one that
  is free next; and no two orders have the same. So an order whose fact is written must not
  have taken a key that became free elsewhere: a placement in hand still holds the free key
  (`PlacingInv`). The free key is the least ordinal without a fact, and there is one because
  the facts are finite (`FreeKeyIsNext`, a pigeonhole argument). `KeptInv` carries to the
  submission why the run may go on (told, nothing held, an answered placement or a live
  fact), and `RefreshedInv` what the refresh left behind: no Fill of a stop found at an end
  still waits on the broker, so a live fact that is watched is not one of those
  (`StandingFact`). For exits, a Fill that awaits or reports a fill is about an order the
  broker holds (`ExitInv`).
* `ScheduledDispatchProofs`: `OneHoldHolds` from `HoldInv`: a fire writes the next hold
  long after it listed them, so every fire in flight carries its claim (`Claim`: if it
  saw no active hold and none was written since, none is active now);
  `DeliveredHolds` from `DeliveryInv`, which also counts the notices that were sent and
  are not recorded yet (`Told`); `SkipHolds` (`SkipStands`, a nested always again) from
  `Stamps` (no answer is stamped later than now) and `Skipped`: the skip comes before
  every other answer, those still to be written too, and no fire under way has read
  anything else.
* `RunStartProofs`: `RunStartTypes`, `RunStartStops`, `RunStartDrops`, `RunStartSweeps`,
  `RunStartFlags`. What the sweep listed may be stale when it is used, so `Listing` keeps
  of it only what cannot become false: an order listed as off stays off, and one the
  sweep is done with is off, of this run, partly filled, or reported. The order being
  recorded as dropped is off and no stop (`Dropping`). The flags are read once and
  written one by one, with a human and the monitor in between: `Settled` speaks of what
  will be open when the planned writes are done, `Single` of every point at which they
  may be cut short, and `Episodes` of the snapshots that flags name.
* `FleetProofs`: `FleetTypes`, `FleetAnswers`, `FleetOrphans`, `FleetOneMinter`,
  `FleetCleanExit`. A boot id in flight has one minter (`Flight`), because an attempt not
  made yet has no request (`Unsent`); an answer is the only one alive (`Remembered`)
  because a minter is alone. Instances that nobody was told of cost a fault each
  (`Books`, `Faults`). The exit is clean because a drained master has no thread left
  (`Quiet`).
* `PeerDebateProofs`: `DebateTypes`, `DebateRulings`, `DebateOrphans`, `DebateCandidates`,
  `DebateServedOnce`, `DebateReplies`. Their ground is `Bus`, which says where a request
  id can be: one still asked of a peer is neither answered, lost nor stashed, and a
  thread that waits has its request in one of these places. With `Shape` (a thread
  resolves its own reply only, and its request is pending while it waits) it gives
  `Transcript`, the turns of one's own debate in order. `Chain` is about the model
  candidates, `Count` about the orphans, `Paid` about the losses: as many as faults at
  most, so no request or reply disappears but by a kill, a failed publish of the answer
  or a settlement that took effect and raised. The records of the threads are wide, so a
  first group of lemmas says what each step makes of a thread (`Becomes`).
* `PullChainProofs`: `ChainTypes`, `WholeHolds` (`ComputedFromWhole`) and
  `ChainImplementsPipeline`, under `IdAssumption` - the id of a resumed run is neither a
  uuid nor a node - which TLC evaluates in `chain`. That a run sends at most one decision
  and one more per kill is no property of single steps: a second decision needs an
  output that lost its edge several stages and many polls earlier. `Killed` therefore
  counts, per run, the outputs up to the PMRun that neither hang on the run nor are in
  their writer's hands (`Dead`) against `crashes`. From `Structure` a stage has at most
  one output that is not dead for every node above it (`OneAlive`), because a node of a
  placed run in an agent's hands has no edge yet (`Hands`) and never gets two (`Edged`);
  summed over the four stages (`CountStage`, `CountDecisions`) a run has at most
  `Cardinality(Dead(r)) + 1` PMRuns, so an unsent one always has a kill to pay for it
  (`DecisionAllowed`). That a run loses no stage follows from the trails (`Trails`,
  `LineGrows`): an edge is never removed and nobody's trail changes. A clone needs the
  clone above it complete (`ClonesWhole`), and that what is to be cloned hangs on the
  source (`Offered`), or `CloneNode` would choose from nothing.

Every invariant named here was checked by TLC on the instances of section 3 before it
was proved. The proofs changed the models only in form: in `RunStart` the cases of a
CASE no longer overlap and `CloseAll` is written without a flattening, in
`FleetActivation` a record is updated instead of rebuilt, in `PeerDebate` the type
invariant names what a thread may hold, in `PullChain` and `StopBook` a node is written with
`Put` instead of an operator of `TLC`, and `Fresh` takes any unused number. In `StageGate` the
names that `StopBook` has too became `GateInit`, `GateNext` and so on. Two properties
became stronger. `ComputedFromWhole` had left the clones of a resume out.
`KeptIsProtectedOrTold` had asked of a live fact only that it is unwatched or that its Fill
was not refreshed, which every live fact satisfies; it now asks that the run's own refresh
did not find its stop at an end. A fact whose stop the broker ended after that refresh
still counts, for no run can know of it, and so does one that is not watched.

Only model-checked: liveness under fairness (`EveryItemSettles`, `StopEnds`,
`ExitsNeverWait`, `BuysWaitBounded`, `RunEnds`, `OrdersReported`, `ReviewEnds`), which is
out of TLAPS's reach, and the refutation `LateResumeSubmitsNothing`. Every invariant, every
action property and the refinement that a passing run checks has a theorem.

## 5. Observed disagreements without a run

Where the code and a document of the repository say different things, and what the
models show still holds. Order submission:

* ADR-0022 (`docs/decisions/0022-the-veto-gates-buys-never-exits.md:13`) says the veto
  gates buys, never exits; `drop_vetoed` (`agents/execution/deliberation_gate.py:108`)
  drops every intent of a vetoed ticker, and exits are reviewed too.
* ADR-0022:56 says an absent veto "can never again look like a clean run". A retry
  after a crash classifies the run afresh (`pm_execution.py:50`), so a veto that came
  late makes it write `applied` over an order the first attempt sent without one.
* EXEC-FAIL-03 (`agents/execution/laws/laws.md:219`) says "Safe to retry". After a failed
  `EXECUTED_BY` edge the retry's counts may differ from the written ExecutionRun
  (`pm_execution.py:77`) and the merge then raises on every attempt.
* `docs/sprints/sprint-148-decision-valid-one-session.md:290` says a dropped exit does
  not block tomorrow's re-decision. The key of an exit names its position
  (`domain/orders.py:46`), so the broker answers the re-decision with the dead order.
* EXEC-NEV-07 (`laws.md:156`) says a degraded run never submits a buy;
  `deliberation_status` asks for a linked review first, so a degraded run that was
  reviewed submits its buys. What does hold is `BuyNeedsReview`.
* A failed Fill write is swallowed per order (`run.py:61`) while EXEC-OBS-02 wants a
  Fill for every order; `UnvetoedOrdersRecorded` and `AllAccounted` are checked
  without failed graph writes.

Stops and run start:

* A stop that triggered before its submission was answered leaves a fact that reads
  as live (`contracts/broker_lifecycle.py:75`, `broker_stop_actions.py:60`; EXEC-OBS-05,
  `laws.md:308`). A placement answered with an already triggered order is silent.
* Attempt 1 under a stop's base key and the base attempt under its ordinal 1 share one
  Fill key, so a stop placed under ordinal 1 can be judged by the Fill of an
  earlier order and its fact read as over from the start. A holding whose quantity and
  average were seen before finds its old inactive Position and gets no active one
  (`agents/monitor/reconcile.py:117`).
* An order whose cancellation is pending reads as rejected
  (`agents/execution/alpaca_orders.py:17`, `:129`), and the refresh writes that as final
  while the order may still trade.
* A crash after `drop_reason` is merged and before its status and fault leaves a silent
  drop that later sweeps skip (ADR-0018:52, "Silence is forbidden"). The count on the
  ExecutionRun is written once and can be too low. A partly filled order is not
  cancelled by the sweep; one that fills in part in a race is recorded as dropped.

Stage and dispatch:

* EXEC-NEV-04 (`laws.md:146`) asks for evidence at every promotion; a `FlagResolution`
  is never consumed (`stage_flow.py:46`), so an old one promotes again without it.
* `stage_flow.py:58` tells the operator to approve `stage:promote:<target>`; the flag's
  subject is `stage_promote:<target>`.
* DSP-NEV-04 (`orchestration/laws/dispatcher/laws.md:151`) says a run whose RunRequest
  exists is never held; a fire that looked before another one placed it writes a hold
  after it (`scheduled_dispatch_human.py:68`).
* Two answers stamped in the same second are ordered by key, dashboard first, so a
  dashboard `run_now` can overtake a Telegram skip recorded in that second.
  `SkipStands` therefore speaks of answers stamped before the present moment.
* A job killed between `place_run_request` and the `run_posture` merge leaves a
  degraded run that looks normal (`orchestration/scheduled_dispatch.py:165`). Updates
  recorded whose confirmation failed are polled again for ever
  (`scheduled_dispatch_polling.py:56`).

Kernel and master:

* `kernel/work_loop_policy.py:38` says a poison item "cannot spin faster than normal
  graph polling". Backoff is counted from the start of the pass and a pass that
  advanced something is followed by the next at once, so an item that fails late in
  a long pass is retried immediately. What does hold is `BackoffHonoured`.
* `agents/master/activation_replay.py:42` says a replay "never outlives" the pass it was
  built on; its lifetime runs from the mint, while the pass may come from the cache.
* MST-STA-02 (`agents/master/laws/laws.md:110`) promises one AgentInstance per activated
  boot id; a failed grant write and a resend leave a second, active one. What does
  hold is `OrphansAreFaults`. A failed write at a session's end leaves it open.

Chain and debate:

* PROV-IDM-02 (`agents/provider/laws/laws.md:184`) says "Re-processing is safe". MarketData
  is keyed by the run and carries a new uuid (`provider/ingest.py:102`,
  `provider/store.py:29`): after a kill before `INGESTED_BY` every retry raises and the
  RunRequest is quarantined.
* `agents/monitor/poll.py:92` asserts that the `EXECUTED_BY` edge is there; the monitor may
  poll before it is. In `PullChain` that attempt raises and a later one is right.
* A PM that takes an AnalystRun before `ANALYZED_BY` finds no market data and rejects
  every order for good (`agents/portfolio_manager/poll.py:93`); an analyst that is faster
  than `RegimeContext` scores without a regime (`provider/ingest.py:188`).
* A resume from position_sync or provider copies neither `lookback_days` nor
  `required_history_bars`, so the provider always refuses it (`provider/poll.py:135`).
* A receive that ends in another error than the time-out loses the orphan count of its
  wait (DLIB-OBS-04, `agents/deliberator/laws/laws.md:195`); `OrphansCounted` says so
  (`blind`). A reply stashed just after its thread gave up stays in the stash. A retry
  after a DeliberationRun without its edge debates again and discards the result.
* A thread that settles a sibling's reply by a call that takes effect and raises
  (`agents/deliberator/servicebus_reply_inbox.py:90`) never stashes it: the sibling waits
  for a reply that is gone and fails open on its deadline. `ReplyReachesItsWaiter` counts
  it among the losses.
* A manager whose settings lack a peer's topic leaves the PMRun pending, with one fault an
  attempt and no DeliberationRun (`agents/deliberator/poll.py:54`;
  `agents/deliberator/tests/test_manager_preflight.py:96`), until the work loop quarantines it for good:
  correcting the settings later does not bring the review back.

## 6. Not modelled

Most of the repository's 85 thousand lines are not a system a model checker says
anything about: some two hundred offline scripts and gate tests, probes, read-only
surfaces (dashboard, reports), numeric work (indicators, scores, sizing, forecasts,
return models), prompts and the text of debates, HTTP and SQL clients, settings and
wire contracts, deployment. They keep no state that two actors change, or their
result is a number or a text. So the share of all lines the modules stand for is
small by nature, while what runs between the RunRequest and the Snapshot, at the
broker boundary and in the fleet's life cycle is modelled. `PROJECT.json` lists every
part with its reason.

Within the modelled parts: quantities and prices beyond what stops and partial fills
need, the order tolerance, undecodable bus messages and the local bus backends, the
text of flags, faults and notices.

## 7. Plan

Done: all modules of section 2, and the proofs of section 4.

Later modelling: fault incidents, the container sensor's alarms and the LLM outage record
(opened once, closed once); the permission matrix, portfolio caps and order tolerance as
pure operators against reference definitions.
