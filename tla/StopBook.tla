------------------------------ MODULE StopBook ------------------------------
(***************************************************************************)
(* The protective stops of one ticker.  While it executes a PM run the     *)
(* execution agent refreshes its Fills from the broker, takes a snapshot   *)
(* of the holdings, cancels resting stops whose position is gone, frees    *)
(* the shares of an exit, places or moves the stop of what is still held   *)
(* (agents/execution/exit_stops.settle_stops), and then submits the run's  *)
(* orders.  The monitor turns snapshots into Position nodes in a process   *)
(* of its own; the broker fills, triggers and ends orders at any moment,   *)
(* and calls to it may be refused, or take effect without being answered.  *)
(*                                                                         *)
(* A holding is a quantity and the entries its average price is made of;   *)
(* every entry buys one unit.  A position_ref, a hash of Position keys, is *)
(* the set of those keys.  Submission is seen through its outcomes (module *)
(* OrderExecution has its steps), and graph writes fail only by a crash.   *)
(***************************************************************************)
EXTENDS Integers, Sequences, FiniteSets, FiniteSetsExt

CONSTANTS
  MaxRuns,      \* bound: PM runs
  EntryPrice,   \* [1..MaxRuns -> Nat]: what a run's entry pays
  MaxMishaps,   \* bound: crashes and broker calls that fail or lose their answer
  MaxEnds       \* bound: orders the broker ends by itself

Runs == 1..MaxRuns

ASSUME RunsAssumption ==
  /\ MaxRuns \in Nat /\ MaxMishaps \in Nat /\ MaxEnds \in Nat
  /\ EntryPrice \in [Runs -> Nat]

----------------------------------------------------------------------------
(* Positions, keys and prices *)

Flat == [q |-> 0, entries |-> {}]
Bought(h, r) == [q |-> h.q + 1, entries |-> h.entries \cup {r}]
Sells(h, q) == IF q >= h.q THEN Flat ELSE [h EXCEPT !.q = @ - q]

\* Quantity and average price, as the broker reports a holding.
Basis(h) == [q |-> h.q, n |-> Cardinality(h.entries),
             cost |-> MapThenSumSet(LAMBDA r : EntryPrice[r], h.entries)]
EntryBasis(r) == Basis(Bought(Flat, r))

\* The monitor's two Position keys: run:ticker and broker:ticker:quantity:average.
RunKey(r) == [run |-> r, basis |-> EntryBasis(r)]
BrokerKey(basis) == [run |-> 0, basis |-> basis]

\* What a sum over several lots or Positions amounts to.
Total(keys) == [q |-> MapThenSumSet(LAMBDA k : k.basis.q, keys),
                n |-> MapThenSumSet(LAMBDA k : k.basis.n, keys),
                cost |-> MapThenSumSet(LAMBDA k : k.basis.cost, keys)]

\* A stop key is a position_ref and an ordinal; a Fill key adds the ordinal of
\* the attempt.  Ordinal 0 leaves no suffix, so attempt 1 under the base key
\* and the base attempt under ordinal 1 share one Fill key.
Suffix(n) == IF n = 0 THEN <<>> ELSE <<n>>
FillKey(k, attempt) == <<k.ref>> \o Suffix(k.n) \o Suffix(attempt)

\* The map f with y under x, whatever was there; and with y under x only where
\* x is free, as a merge that finds its node leaves it.
Put(f, x, y) == [z \in DOMAIN f \cup {x} |-> IF z = x THEN y ELSE f[z]]
PutNew(f, x, y) == IF x \in DOMAIN f THEN f ELSE Put(f, x, y)

VARIABLES
  \* the broker
  held,       \* the holding
  entries,    \* per run, its entry order
  stops,      \* stop orders, in the order they were accepted
  exit,       \* the exit order of each position_ref
  \* the graph
  positions,  \* Position keys
  inactive,   \* those marked absent or superseded
  entryFill,  \* per run, what its entry's Fill says
  exitFill,   \* per position_ref, the latest Fill of its exit
  stopFills,  \* Fill nodes of stop submissions
  facts,      \* BrokerStopOrder nodes
  snapshot,   \* the latest fresh BrokerPositionSnapshot
  linked,     \* the latest fresh one taken for a RunRequest
  \* processes
  pm,         \* the PM run in hand
  ex,         \* the execution agent
  adopting,   \* Positions the monitor has still to mark
  \* bounds
  mishaps, ends

broker == <<held, entries, stops, exit>>
graph == <<positions, inactive, entryFill, exitFill, stopFills, facts, snapshot,
           linked>>
vars == <<broker, graph, pm, ex, adopting, mishaps, ends>>

NoSnapshot == [q |-> -1, entries |-> {}]
NoRef == {}
NoKey == [ref |-> NoRef, n |-> 0]
NoPrice == [basis |-> Basis(Flat), width |-> "pm"]
NoAnswer == [id |-> 0, said |-> "rejected"]

\* What a run keeps in hand.  over only records: the stops that the run's own
\* refresh found at an end, none of them when it failed.
Idle == [pc |-> "idle", then |-> "idle", todo |-> {}, seen |-> NoSnapshot, over |-> {},
         freed |-> FALSE, key |-> NoKey, price |-> NoPrice, answer |-> NoAnswer,
         told |-> FALSE]

Init ==
  /\ held = Flat /\ entries = [r \in Runs |-> "none"] /\ stops = <<>> /\ exit = <<>>
  /\ positions = {} /\ inactive = {} /\ entryFill = [r \in Runs |-> "none"]
  /\ exitFill = <<>> /\ stopFills = <<>> /\ facts = <<>> 
  /\ snapshot = NoSnapshot /\ linked = NoSnapshot
  /\ pm = [run |-> 0, action |-> "none", ref |-> NoRef, phase |-> "linked"]
  /\ ex = Idle /\ adopting = {}
  /\ mishaps = 0 /\ ends = 0

Active == positions \ inactive
OpenStops == {i \in DOMAIN stops : stops[i].state = "open"}
OpenExits == {ref \in DOMAIN exit : exit[ref] = "open"}

----------------------------------------------------------------------------
(* Facts and their liveness *)

Terminal == {"filled", "rejected"}

\* Mutant: only the markers end a fact.
LiveUnlessMarked(k) == facts[k].end = "no"

\* sibling_fill_for_broker_stop: the Fill under the fact's own key first, the
\* one with its broker order id otherwise.
Siblings(k) ==
  IF FillKey(k, 0) \in DOMAIN stopFills THEN {FillKey(k, 0)}
  ELSE {f \in DOMAIN stopFills : stopFills[f].id = facts[k].id}

IsLive(k) ==
  /\ facts[k].end = "no"
  /\ \A f \in Siblings(k) : stopFills[f].broker \notin Terminal

LiveFacts == {k \in DOMAIN facts : IsLive(k)}
ProtectedRefs == {k.ref : k \in LiveFacts}

\* Mutant: the ordinal counts submissions, not facts.
KeyPerSubmission(ref) ==
  [ref |-> ref, n |-> Cardinality({f \in DOMAIN stopFills : stopFills[f].key.ref = ref})]

\* next_broker_stop_order_key and free_broker_stop_order_key.
FreeKey(ref) ==
  [ref |-> ref, n |-> Min({n \in 0..Cardinality(DOMAIN facts) :
                              [ref |-> ref, n |-> n] \notin DOMAIN facts})]

\* select_fill_attempt: the first attempt that is free or says the same.
Belongs(f, k) ==
  \/ stopFills[f].key = k \/ f = FillKey(k, 0)
  \/ Len(f) = Len(FillKey(k, 0)) + 1 /\ SubSeq(f, 1, Len(f) - 1) = FillKey(k, 0)
AttemptKey(k, props) ==
  LET force == props.said = "rejected" /\ \E f \in DOMAIN stopFills : Belongs(f, k)
      usable(a) == LET f == FillKey(k, a) IN
        \/ f \notin DOMAIN stopFills
        \/ /\ ~force
           /\ \E b \in {"unset"} \cup Terminal :
                stopFills[f] = [broker |-> b, key |-> k, id |-> props.id,
                                said |-> props.said, price |-> props.price]
  IN  FillKey(k, Min({a \in 0..Cardinality(DOMAIN stopFills) : usable(a)}))

----------------------------------------------------------------------------
(* Reconciliation with the broker, at run start and before submission *)

\* What the broker contract makes of an order's state (status_of).
Says(state) ==
  CASE state = "open" -> "pending"
    [] state \in {"filled", "triggered"} -> "filled"
    [] OTHER -> "rejected"

\* refresh_pending_fills, for stops, entries and exits.
AwaitsBroker(f) == f.said = "pending" /\ f.broker = "unset"
RefreshFills ==
  /\ stopFills' = [f \in DOMAIN stopFills |->
       IF AwaitsBroker(stopFills[f]) /\ Says(stops[stopFills[f].id].state) # "pending"
       THEN [stopFills[f] EXCEPT !.broker = Says(stops[stopFills[f].id].state)]
       ELSE stopFills[f]]
  /\ entryFill' = [r \in Runs |->
       IF entryFill[r] = "pending" /\ entries[r] # "open"
       THEN (IF entries[r] = "filled" THEN "settled" ELSE "rejected")
       ELSE entryFill[r]]
  /\ exitFill' = [ref \in DOMAIN exitFill |->
       IF exitFill[ref] = "pending" THEN Says(exit[ref]) ELSE exitFill[ref]]

\* sync_run_request: a run-start refresh and snapshot, either of which may fail.
RunStart ==
  /\ ex.pc = "idle" /\ pm.phase = "linked" /\ pm.run < MaxRuns
  /\ pm' = [pm EXCEPT !.phase = "synced"]
  /\ \/ RefreshFills /\ snapshot' = held /\ linked' = held /\ mishaps' = mishaps
     \/ /\ mishaps < MaxMishaps /\ mishaps' = mishaps + 1
        /\ \/ RefreshFills /\ UNCHANGED <<snapshot, linked>>
           \/ snapshot' = held /\ linked' = held /\ UNCHANGED <<stopFills, entryFill, exitFill>>
  /\ UNCHANGED <<broker, positions, inactive, facts, ex, adopting, ends>>

\* The next PMRun; an exit is of the position the PM read.
Decide ==
  /\ ex.pc = "idle" /\ pm.phase = "synced"
  /\ \E a \in {"none", "buy", "sell"} :
       /\ a = "sell" => Active # {}
       /\ pm' = [run |-> pm.run + 1, action |-> a,
                 ref |-> IF a = "sell" THEN Active ELSE NoRef, phase |-> "decided"]
  /\ UNCHANGED <<broker, graph, ex, adopting, mishaps, ends>>

Begin ==
  /\ ex.pc = "idle" /\ pm.phase = "decided"
  /\ ex' = [Idle EXCEPT !.pc = "refresh"]
  /\ UNCHANGED <<broker, graph, pm, adopting, mishaps, ends>>

\* reconcile_run_start: the broker's orders, then its positions.
Refresh ==
  /\ ex.pc = "refresh"
  /\ \/ /\ RefreshFills /\ mishaps' = mishaps
        /\ ex' = [ex EXCEPT !.pc = "snapshot", !.over = DOMAIN stops \ OpenStops]
     \/ /\ mishaps < MaxMishaps /\ mishaps' = mishaps + 1
        /\ ex' = [ex EXCEPT !.pc = "snapshot"]
        /\ UNCHANGED <<stopFills, entryFill, exitFill>>
  /\ UNCHANGED <<broker, positions, inactive, facts, snapshot, linked,
                 pm, adopting, ends>>

Snapshot ==
  /\ ex.pc = "snapshot"
  /\ \/ /\ snapshot' = held /\ mishaps' = mishaps
        /\ ex' = [ex EXCEPT !.pc = "reconcile", !.seen = held]
     \/ /\ mishaps < MaxMishaps /\ mishaps' = mishaps + 1
        /\ snapshot' = snapshot
        /\ ex' = [ex EXCEPT !.pc = "reconcile"]
  /\ UNCHANGED <<broker, positions, inactive, entryFill, exitFill, stopFills, facts, linked,
                 pm, adopting, ends>>

----------------------------------------------------------------------------
(* settle_stops: cancel what is stale, then what an exit needs freed *)

\* reconcile_broker_stops.
ReconcileStops ==
  /\ ex.pc = "reconcile"
  /\ ex' = [ex EXCEPT !.pc = "cancel", !.then = "free",
                      !.todo = {k \in LiveFacts : k.ref # Active}]
  /\ UNCHANGED <<broker, graph, pm, adopting, mishaps, ends>>

\* cancel_stops_for_exits, when the run exits the ticker.
FreeExit ==
  /\ ex.pc = "free"
  /\ ex' = IF pm.action = "sell"
           THEN [ex EXCEPT !.pc = "cancel", !.then = "place", !.todo = LiveFacts,
                           !.freed = LiveFacts # {}]
           ELSE [ex EXCEPT !.pc = "place"]
  /\ UNCHANGED <<broker, graph, pm, adopting, mishaps, ends>>

\* cancel_stop: the broker's answer decides whether the fact is marked.
CancelAnswered ==
  /\ ex.pc = "cancel"
  /\ \E k \in ex.todo :
       /\ stops[facts[k].id].state = "open"
       /\ stops' = [stops EXCEPT ![facts[k].id].state = "canceled"]
       /\ ex' = [ex EXCEPT !.pc = "mark", !.key = k, !.todo = @ \ {k}]
  /\ UNCHANGED <<held, entries, exit, graph, pm, adopting, mishaps, ends>>

CancelRaised ==
  /\ ex.pc = "cancel"
  /\ \E k \in ex.todo :
       /\ ex' = [ex EXCEPT !.todo = @ \ {k}]
       /\ \/ /\ stops[facts[k].id].state # "open"
             /\ UNCHANGED <<stops, mishaps>>
          \/ /\ stops[facts[k].id].state = "open"
             /\ mishaps < MaxMishaps /\ mishaps' = mishaps + 1
             /\ \/ stops' = [stops EXCEPT ![facts[k].id].state = "canceled"]
                \/ stops' = stops
  /\ UNCHANGED <<held, entries, exit, graph, pm, adopting, ends>>

MarkCancelled ==
  /\ ex.pc = "mark"
  /\ facts' = [facts EXCEPT ![ex.key].end = "cancelled"]
  /\ ex' = [ex EXCEPT !.pc = "cancel"]
  /\ UNCHANGED <<broker, positions, inactive, entryFill, exitFill, stopFills, snapshot, linked,
                 pm, adopting, mishaps, ends>>

CancelsDone ==
  /\ ex.pc = "cancel" /\ ex.todo = {}
  /\ ex' = [ex EXCEPT !.pc = ex.then, !.freed = @ /\ LiveFacts = {}]
  /\ UNCHANGED <<broker, graph, pm, adopting, mishaps, ends>>

----------------------------------------------------------------------------
(* place_broker_stops *)

\* decided_stop_pct: a broker-adopted Position has the width of the one filled
\* entry that equals it, and the fallback when there is none.
Width(k) ==
  IF k.run # 0 \/ \E r \in Runs : entryFill[r] = "settled" /\ EntryBasis(r) = k.basis
  THEN "pm" ELSE "fallback"

\* Filled entries whose Position the monitor has not opened.
AwaitedLots ==
  {r \in Runs : entryFill[r] \in {"filled", "settled"} /\ RunKey(r) \notin positions}

\* broker_stop_thresholds, and filled_entry_stop_thresholds for a ticker it
\* says nothing about.
PlanKeys == IF Active # {} THEN Active ELSE {RunKey(r) : r \in AwaitedLots}
PlanWidths == {Width(k) : k \in PlanKeys}
PlanPrice == [basis |-> Total(PlanKeys), width |-> CHOOSE w \in PlanWidths : TRUE]

\* The live fact the realignment looks at: the last of its ref in key order.
ProtectingKey == [ref |-> PlanKeys,
                  n |-> Max({k.n : k \in {l \in LiveFacts : l.ref = PlanKeys}})]

Sold == pm.action = "sell"
Fresh == ex.seen # NoSnapshot
NoThreshold == Active # {} /\ Cardinality(PlanWidths) > 1
NoMatch == ex.seen # Flat /\ (PlanKeys = {} \/ Total(PlanKeys).q # ex.seen.q)

\* Nothing to place: not a fresh snapshot, an exit, or nothing held; or nothing
\* can be placed, and the position is reported as unprotected.
PlaceNothing ==
  /\ ex.pc = "place"
  /\ ~Fresh \/ Sold \/ ex.seen = Flat \/ NoThreshold \/ NoMatch
  /\ ex' = [ex EXCEPT !.pc = "submit",
                      !.told = Fresh /\ ~Sold /\ (NoThreshold \/ NoMatch)]
  /\ UNCHANGED <<broker, graph, pm, adopting, mishaps, ends>>

Placing == ex.pc = "place" /\ Fresh /\ ~Sold /\ ex.seen # Flat /\ ~NoThreshold /\ ~NoMatch

PlaceNew ==
  /\ Placing /\ PlanKeys \notin ProtectedRefs
  /\ ex' = [ex EXCEPT !.pc = "submitstop", !.key = FreeKey(PlanKeys), !.price = PlanPrice]
  /\ UNCHANGED <<broker, graph, pm, adopting, mishaps, ends>>

\* realign_broker_stops: nothing to move, or the broker order is not new, or the
\* decided price is at the market.
KeepResting ==
  /\ Placing /\ PlanKeys \in ProtectedRefs
  /\ ex' = [ex EXCEPT !.pc = "submit"]
  /\ UNCHANGED <<broker, graph, pm, adopting, mishaps, ends>>

Realign ==
  /\ Placing /\ PlanKeys \in ProtectedRefs
  /\ facts[ProtectingKey].price # PlanPrice
  /\ ex' = [ex EXCEPT !.pc = "replace", !.key = FreeKey(PlanKeys), !.price = PlanPrice,
                      !.todo = {ProtectingKey}]
  /\ UNCHANGED <<broker, graph, pm, adopting, mishaps, ends>>

----------------------------------------------------------------------------
(* The broker's answers, and what is written of them *)

\* The broker reserves shares for its open sell orders.
HasShares(q) == q <= held.q /\ OpenStops = {} /\ OpenExits = {}
KnownTo(k) == {i \in DOMAIN stops : stops[i].key = k}
Accepted == Append(stops, [key |-> ex.key, price |-> ex.price, state |-> "open"])
Answered(id, said) ==
  ex' = [ex EXCEPT !.pc = "stopfill", !.answer = [id |-> id, said |-> said]]

\* A client order id the broker knows is answered with that order; a new one
\* is accepted if the shares are free; anything else is a rejection.
SubmitStop ==
  /\ ex.pc = "submitstop"
  /\ \/ \E i \in KnownTo(ex.key) : Answered(i, Says(stops[i].state)) /\ stops' = stops
     \/ /\ KnownTo(ex.key) = {} /\ HasShares(ex.price.basis.q)
        /\ stops' = Accepted /\ Answered(Len(stops) + 1, "pending")
     \/ /\ KnownTo(ex.key) = {} /\ ~HasShares(ex.price.basis.q)
        /\ Answered(0, "rejected") /\ stops' = stops
  /\ UNCHANGED <<held, entries, exit, graph, pm, adopting, mishaps, ends>>

\* No answer: the order may have been accepted all the same.
SubmitStopLost ==
  /\ ex.pc = "submitstop" /\ mishaps < MaxMishaps /\ mishaps' = mishaps + 1
  /\ \/ stops' = stops
     \/ KnownTo(ex.key) = {} /\ HasShares(ex.price.basis.q) /\ stops' = Accepted
  /\ Answered(0, "rejected")
  /\ UNCHANGED <<held, entries, exit, graph, pm, adopting, ends>>

\* replace_stop: the old order ends and the new one rests, in one step.
Replaced ==
  LET old == facts[CHOOSE k \in ex.todo : TRUE].id
  IN  [Accepted EXCEPT ![old].state = "replaced"]
CanReplace ==
  /\ \A k \in ex.todo : facts[k].id \in OpenStops
  /\ KnownTo(ex.key) = {}
ReplaceStop ==
  /\ ex.pc = "replace" /\ CanReplace
  /\ stops' = Replaced /\ Answered(Len(stops) + 1, "pending")
  /\ UNCHANGED <<held, entries, exit, graph, pm, adopting, mishaps, ends>>

ReplaceRaised ==
  /\ ex.pc = "replace"
  /\ \/ ~CanReplace /\ UNCHANGED <<stops, mishaps>>
     \/ /\ mishaps < MaxMishaps /\ mishaps' = mishaps + 1
        /\ \/ stops' = stops
           \/ CanReplace /\ stops' = Replaced
  /\ ex' = [ex EXCEPT !.pc = "submit", !.todo = {}]
  /\ UNCHANGED <<held, entries, exit, graph, pm, adopting, ends>>

\* place_stop: a rejected stop leaves no fact.
AfterFill(said) == IF said = "rejected" THEN "submit" ELSE "fact"

\* write_stop_fill; a rejected stop is reported.
WriteStopFill ==
  /\ ex.pc = "stopfill"
  /\ LET f == AttemptKey(ex.key, [id |-> ex.answer.id, said |-> ex.answer.said,
                                  price |-> ex.price])
     IN  stopFills' = PutNew(stopFills, f,
           [key |-> ex.key, id |-> ex.answer.id, said |-> ex.answer.said,
            price |-> ex.price, broker |-> "unset"])
  /\ ex' = [ex EXCEPT !.pc = AfterFill(ex.answer.said),
                      !.told = @ \/ ex.answer.said = "rejected"]
  /\ UNCHANGED <<broker, positions, inactive, entryFill, exitFill, facts, snapshot, linked,
                 pm, adopting, mishaps, ends>>

\* write_stop_order, and mark_replaced after a replacement.
WriteStopFact ==
  /\ ex.pc = "fact"
  /\ facts' = PutNew(facts, ex.key, [id |-> ex.answer.id, price |-> ex.price, end |-> "no"])
  /\ ex' = [ex EXCEPT !.pc = IF ex.todo = {} THEN "submit" ELSE "markold"]
  /\ UNCHANGED <<broker, positions, inactive, entryFill, exitFill, stopFills, snapshot, linked,
                 pm, adopting, mishaps, ends>>

MarkReplaced ==
  /\ ex.pc = "markold"
  /\ facts' = [k \in DOMAIN facts |->
                 IF k \in ex.todo THEN [facts[k] EXCEPT !.end = "replaced"] ELSE facts[k]]
  /\ ex' = [ex EXCEPT !.pc = "submit", !.todo = {}]
  /\ UNCHANGED <<broker, positions, inactive, entryFill, exitFill, stopFills, snapshot, linked,
                 pm, adopting, mishaps, ends>>

----------------------------------------------------------------------------
(* run_submit, report_unprotected_exits and the end of the run *)

Finish(told) ==
  /\ ex' = [Idle EXCEPT !.told = told]
  /\ pm' = [pm EXCEPT !.phase = "linked"]

SubmitNothing ==
  /\ ex.pc = "submit" /\ pm.action = "none"
  /\ Finish(ex.told)
  /\ UNCHANGED <<broker, graph, adopting, mishaps, ends>>

\* An entry is filled on the spot, rests, or is accepted without an answer.
SubmitEntry ==
  /\ ex.pc = "submit" /\ pm.action = "buy"
  /\ \/ /\ entries' = [entries EXCEPT ![pm.run] = "filled"]
        /\ held' = Bought(held, pm.run)
        /\ entryFill' = [entryFill EXCEPT ![pm.run] = "filled"]
        /\ mishaps' = mishaps
     \/ /\ entries' = [entries EXCEPT ![pm.run] = "open"]
        /\ entryFill' = [entryFill EXCEPT ![pm.run] = "pending"]
        /\ UNCHANGED <<held, mishaps>>
     \/ /\ mishaps < MaxMishaps /\ mishaps' = mishaps + 1
        /\ entries' = [entries EXCEPT ![pm.run] = "open"]
        /\ entryFill' = [entryFill EXCEPT ![pm.run] = "rejected"]
        /\ UNCHANGED held
  /\ Finish(ex.told)
  /\ UNCHANGED <<stops, exit, positions, inactive, exitFill, stopFills, facts, snapshot, linked,
                 adopting, ends>>

\* A completed exit of the same position is skipped; a rejected exit whose stop
\* was cancelled is reported.
WithExit(f, v) == Put(f, pm.ref, v)
\* Mutant: only a rejection the broker sent is reported.
ReportedWhenAnswered(said) == ex.freed /\ said = "rejected" /\ pm.ref \in DOMAIN exit

\* report_unprotected_exits.
Reported(said) == ex.freed /\ said = "rejected"

CompletedExit == pm.ref \in DOMAIN exitFill /\ exitFill[pm.ref] = "filled"

SkipExit ==
  /\ ex.pc = "submit" /\ Sold /\ CompletedExit
  /\ Finish(ex.told)
  /\ UNCHANGED <<broker, graph, adopting, mishaps, ends>>

SubmitExit ==
  /\ ex.pc = "submit" /\ Sold /\ ~CompletedExit
  /\ \/ /\ pm.ref \in DOMAIN exit
        /\ exitFill' = WithExit(exitFill, Says(exit[pm.ref]))
        /\ Finish(Reported(Says(exit[pm.ref])))
        /\ UNCHANGED <<exit, mishaps>>
     \/ /\ pm.ref \notin DOMAIN exit /\ HasShares(1)
        /\ exit' = WithExit(exit, "open") /\ exitFill' = WithExit(exitFill, "pending")
        /\ Finish(FALSE)
        /\ UNCHANGED mishaps
     \/ /\ pm.ref \notin DOMAIN exit /\ ~HasShares(1)
        /\ exitFill' = WithExit(exitFill, "rejected")
        /\ Finish(Reported("rejected"))
        /\ UNCHANGED <<exit, mishaps>>
     \/ /\ mishaps < MaxMishaps /\ mishaps' = mishaps + 1
        /\ pm.ref \notin DOMAIN exit /\ HasShares(1)
        /\ exit' \in {exit, WithExit(exit, "open")}
        /\ exitFill' = WithExit(exitFill, "rejected")
        /\ Finish(Reported("rejected"))
  /\ UNCHANGED <<held, entries, stops, positions, inactive, entryFill, stopFills, facts,
                 snapshot, linked, adopting, ends>>

\* The process dies before it submits; the PMRun is still pending.
Crash ==
  /\ ex.pc # "idle" /\ mishaps < MaxMishaps /\ mishaps' = mishaps + 1
  /\ ex' = Idle
  /\ UNCHANGED <<broker, graph, pm, adopting, ends>>

----------------------------------------------------------------------------
(* The monitor *)

\* reconcile_positions_from_snapshot: a matching active Position is kept, else
\* the broker's is created unless its key exists; the others are marked next.
Adopt(seen, opened) ==
  LET active == opened \ inactive
      match == {k \in active : k.basis = Basis(seen)}
      kept == IF match # {} THEN {CHOOSE k \in match : TRUE} ELSE {BrokerKey(Basis(seen))}
  IN  /\ seen # NoSnapshot /\ adopting = {}
      /\ IF seen = Flat THEN positions' = opened /\ adopting' = active
         ELSE positions' = opened \cup kept /\ adopting' = active \ kept

MonitorSyncs ==
  /\ Adopt(linked, positions)
  /\ UNCHANGED <<broker, inactive, entryFill, exitFill, stopFills, facts, snapshot, linked,
                 pm, ex, mishaps, ends>>

\* open_run_positions: a run's entry filled on submission opens its Position.
MonitorEvaluates(r) ==
  /\ r < pm.run \/ (r = pm.run /\ pm.phase # "decided")
  /\ entryFill[r] = "filled" /\ RunKey(r) \notin positions
  /\ Adopt(snapshot, positions \cup {RunKey(r)})
  /\ UNCHANGED <<broker, inactive, entryFill, exitFill, stopFills, facts, snapshot, linked,
                 pm, ex, mishaps, ends>>

MonitorMarks ==
  /\ \E k \in adopting : inactive' = inactive \cup {k} /\ adopting' = adopting \ {k}
  /\ UNCHANGED <<broker, positions, entryFill, exitFill, stopFills, facts, snapshot, linked,
                 pm, ex, mishaps, ends>>

----------------------------------------------------------------------------
(* The broker acts *)

EntryMoves(r) ==
  /\ entries[r] = "open"
  /\ \/ /\ entries' = [entries EXCEPT ![r] = "filled"]
        /\ held' = Bought(held, r) /\ ends' = ends
     \/ /\ ends < MaxEnds /\ ends' = ends + 1
        /\ entries' = [entries EXCEPT ![r] = "ended"] /\ held' = held
  /\ UNCHANGED <<stops, exit, graph, pm, ex, adopting, mishaps>>

\* A stop sells its quantity, and an exit all or part of what is held.
StopMoves(i) ==
  /\ stops[i].state = "open"
  /\ \/ /\ stops' = [stops EXCEPT ![i].state = "triggered"] /\ ends' = ends
        /\ held' = Sells(held, stops[i].price.basis.q)
     \/ /\ ends < MaxEnds /\ ends' = ends + 1
        /\ stops' = [stops EXCEPT ![i].state = "ended"] /\ held' = held
  /\ UNCHANGED <<entries, exit, graph, pm, ex, adopting, mishaps>>

ExitMoves(ref) ==
  /\ exit[ref] = "open"
  /\ \/ /\ \E q \in 1..held.q : held' = Sells(held, q)
        /\ exit' = [exit EXCEPT ![ref] = "filled"] /\ ends' = ends
     \/ /\ ends < MaxEnds /\ ends' = ends + 1
        /\ exit' = [exit EXCEPT ![ref] = "ended"] /\ held' = held
  /\ UNCHANGED <<entries, stops, graph, pm, ex, adopting, mishaps>>

----------------------------------------------------------------------------

Executor ==
  \/ RunStart \/ Decide \/ Begin \/ Refresh \/ Snapshot
  \/ ReconcileStops \/ FreeExit \/ CancelAnswered \/ CancelRaised \/ MarkCancelled
  \/ CancelsDone \/ PlaceNothing \/ PlaceNew \/ KeepResting \/ Realign
  \/ SubmitStop \/ SubmitStopLost \/ ReplaceStop \/ ReplaceRaised
  \/ WriteStopFill \/ WriteStopFact \/ MarkReplaced
  \/ SubmitNothing \/ SubmitEntry \/ SkipExit \/ SubmitExit

Monitor == MonitorSyncs \/ MonitorMarks \/ \E r \in Runs : MonitorEvaluates(r)

Broker ==
  \/ \E r \in Runs : EntryMoves(r)
  \/ \E i \in DOMAIN stops : StopMoves(i)
  \/ \E ref \in DOMAIN exit : ExitMoves(ref)

Next == Executor \/ Crash \/ Monitor \/ Broker

Spec == Init /\ [][Next]_vars

----------------------------------------------------------------------------
(* Properties *)

\* The Fills that carry a fact's own order.
Own(k) == {f \in DOMAIN stopFills : stopFills[f].id = facts[k].id}

\* State is where it belongs: facts and Fills name orders the broker holds.
TypeOK ==
  /\ held.q \in Nat /\ held.entries \subseteq Runs /\ inactive \subseteq positions
  /\ \A k \in DOMAIN facts : facts[k].id \in DOMAIN stops
  /\ \A f \in DOMAIN stopFills : stopFills[f].id \in 0..Len(stops)

EndsRun == pm.phase = "decided" /\ pm'.phase = "linked"

\* A fact is watched when the Fill that decides its liveness is its own and
\* waits on the broker; it is not after a rejected attempt under the same key,
\* or when a lost submission was answered later with an order already over.
Watched(k) == FillKey(k, 0) \in Own(k) /\ stopFills[FillKey(k, 0)].said = "pending"

\* EXEC-OBS-03, as far as it holds: a position that a run saw and keeps ends
\* the run with a fault, with a placement the broker answered with an order, or
\* with a fact whose stop had not ended when the run refreshed its Fills; the
\* exceptions are facts that are not watched, and a refresh that failed.
KeptIsProtectedOrTold ==
  [][ EndsRun /\ ~Sold /\ Fresh /\ held # Flat /\ held = ex.seen
      => \/ ex'.told \/ ex.answer.said # "rejected"
         \/ \E k \in LiveFacts : ~Watched(k) \/ facts[k].id \notin ex.over ]_vars

\* A position whose stop the run cancelled for an exit ends the run with the
\* exit at the broker, or with a fault.
FreedIsExitingOrTold ==
  [][ EndsRun /\ Sold /\ ex.freed /\ held # Flat
      => ex'.told \/ (pm.ref \in DOMAIN exit' /\ exit'[pm.ref] \in {"open", "filled"}) ]_vars

\* A stop whose answer or whose fact was lost is found again: the next
\* submission for its position has its key, so no second stop is sent.
LostStopIsFound ==
  \A i \in OpenStops :
    (\A k \in DOMAIN facts : facts[k].id # i) => FreeKey(stops[i].key.ref) = stops[i].key

=============================================================================
