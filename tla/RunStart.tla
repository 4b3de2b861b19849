------------------------------ MODULE RunStart ------------------------------
(***************************************************************************)
(* What the execution agent does when a run starts (sync_run_request): it  *)
(* sweeps the orders earlier runs left unfilled at the broker, cancelling  *)
(* and recording each as dropped, then refreshes its Fills, takes a        *)
(* snapshot of the holdings, and flags where the graph's positions and the *)
(* broker's differ, per episode (record_divergences).  The reconciliation  *)
(* runs again before a PM run's orders are submitted (execute_pm_node).    *)
(* Meanwhile the broker trades, the monitor adopts snapshots, and a human  *)
(* resolves flags.                                                         *)
(*                                                                         *)
(* One ticker.  An order is for Whole shares, so that it can fill in part; *)
(* a stop, when it triggers, sells what is held.  The order tolerance and  *)
(* the stops' own life are left to OrderExecution and StopBook.            *)
(***************************************************************************)
EXTENDS Integers, Sequences, FiniteSets, SequencesExt

CONSTANTS
  Orders,      \* orders the runs submit
  Stops,       \* those that are protective stops
  RunOf,       \* [Orders -> Runs]: the run that submits an order
  MaxRuns,     \* bound: RunRequests
  MaxMishaps,  \* bound: crashes and broker calls that fail
  MaxResolved  \* bound: flags a human resolves

Runs == 1..MaxRuns
Whole == 2

ASSUME OrdersAssumption ==
  /\ MaxRuns \in Nat /\ MaxMishaps \in Nat /\ MaxResolved \in Nat
  /\ RunOf \in [Orders -> Runs] /\ Stops \subseteq Orders

VARIABLES
  \* the broker
  order,      \* [Orders -> [st, got]]: an order's state and the shares it traded
  held,       \* shares held
  \* the graph
  fill,       \* [Orders -> status]: the latest Fill of an order, as last refreshed
  stopFacts,  \* stops with a BrokerStopOrder
  dropped,    \* orders whose Fill has a drop_reason
  dropFacts,  \* those with the BrokerOrderStatus and the DroppedDecision fault
  acks,       \* orders without a Fill, acknowledged once
  count,      \* [Runs -> Int]: ExecutionRun.dropped, Unmarked until written
  graphQty,   \* quantity of the active Positions
  snapshot,   \* the latest fresh snapshot: its number and holding
  linked,     \* the holding in the latest one the monitor can find
  flags,      \* Flags, by kind, episode and severity
  resolved,   \* those with a FlagResolution
  byHuman,    \* those a human resolved
  \* the execution agent
  synced,     \* RunRequests with a linked snapshot
  executed,   \* PMRuns with an ExecutionRun
  ex,         \* what it is doing
  mishaps

broker == <<order, held>>
fills == <<fill, stopFacts>>
drops == <<dropped, dropFacts, acks, count>>
episodes == <<flags, resolved, byHuman>>
book == <<graphQty, snapshot, linked>>
vars == <<broker, fills, drops, book, episodes, synced, executed, ex, mishaps>>

NoHolding == -1
Unmarked == -1
Idle == [pc |-> "idle", run |-> 0, sweeping |-> FALSE, listed |-> <<>>, todo |-> {},
         dropping |-> {}, touched |-> {}, failed |-> {}, div |-> "none", closed |-> {},
         writes |-> <<>>, fresh |-> FALSE]

Init ==
  /\ order = [o \in Orders |-> [st |-> "none", got |-> 0]] /\ held = 0
  /\ fill = [o \in Orders |-> "none"] /\ stopFacts = {}
  /\ dropped = {} /\ dropFacts = {} /\ acks = {} /\ count = [r \in Runs |-> Unmarked]
  /\ graphQty = 0 /\ snapshot = [n |-> 0, q |-> NoHolding] /\ linked = NoHolding
  /\ flags = {} /\ resolved = {} /\ byHuman = {}
  /\ synced = {} /\ executed = {} /\ ex = Idle /\ mishaps = 0

Fails == mishaps < MaxMishaps /\ mishaps' = mishaps + 1

----------------------------------------------------------------------------
(* The broker *)

\* status_of: an order waiting to be cancelled is neither pending nor resolved,
\* so it reads as rejected whatever it traded.
Says(o) ==
  CASE order[o].st = "over" /\ order[o].got > 0 -> "filled"
    [] order[o].st = "open" /\ order[o].got > 0 -> "partial"
    [] order[o].st = "open" /\ order[o].got = 0 -> "pending"
    [] OTHER -> "rejected"

\* What a listing shows: _is_resolved_drop tells a canceled or expired order
\* from another rejection by its reason.
Listed(o) == IF order[o].st = "over" /\ order[o].got = 0 THEN "resolved" ELSE Says(o)

\* An order trades, a share at a time, until it is whole; a stop sells all.
Trades(o) ==
  /\ order[o].st \in {"open", "canceling"}
  /\ IF o \in Stops
     THEN order' = [order EXCEPT ![o] = [st |-> "over", got |-> Whole]] /\ held' = 0
     ELSE /\ order' = [order EXCEPT ![o] =
                         [st |-> IF @.got + 1 = Whole THEN "over" ELSE @.st, got |-> @.got + 1]]
          /\ held' = held + 1
  /\ UNCHANGED <<fills, drops, book, episodes, synced, executed, ex, mishaps>>

\* It expires, or its cancellation takes effect.
Ends(o) ==
  /\ order[o].st \in {"open", "canceling"}
  /\ order' = [order EXCEPT ![o].st = "over"]
  /\ UNCHANGED <<held, fills, drops, book, episodes, synced, executed, ex, mishaps>>

----------------------------------------------------------------------------
(* sweep_unfilled_orders *)

\* A RunRequest is taken; the orders are listed once, or the listing fails.
SyncRunRequest ==
  /\ ex.pc = "idle"
  /\ \E r \in Runs \ synced :
       /\ \A q \in 1..(r - 1) : q \in synced
       /\ \/ /\ LET known == {o \in Orders : order[o].st # "none"}
                IN  ex' = [Idle EXCEPT !.pc = "sweep", !.run = r, !.sweeping = TRUE,
                                       !.todo = known, !.listed = [o \in known |-> Listed(o)]]
             /\ mishaps' = mishaps
          \/ Fails /\ ex' = [Idle EXCEPT !.pc = "refresh", !.run = r, !.sweeping = TRUE]
  /\ UNCHANGED <<broker, fills, drops, book, episodes, synced, executed>>

\* Mutant: only the graph is asked whether an order is a stop.
TrackedAsStop(o) == o \in stopFacts

\* _is_stop_order: either the broker's order type or the graph's fact.
IsStopOrder(o) == o \in Stops \/ o \in stopFacts

\* Mutant: orders of the run before are left alone too.
IsRecentRun(o) == RunOf[o] \in {ex.run, ex.run - 1}
IsCurrentRun(o) == RunOf[o] = ex.run

\* _skip_order, for orders of this pipeline; another's key never gets here.
Skips(o) ==
  \/ o \in dropped
  \/ IsCurrentRun(o)
  \/ fill[o] = "none" /\ o \in acks
  \/ IsStopOrder(o)

\* A resolved drop: the broker ended it before any share traded.
IsResolvedDrop(o) == ex.listed[o] = "resolved"
IsPending(o) == ex.listed[o] = "pending"

\* Skipped, or an order that is neither pending nor dropped by the broker.
SweepSkips ==
  /\ ex.pc = "sweep"
  /\ \E o \in ex.todo :
       /\ Skips(o) \/ (~IsPending(o) /\ ~IsResolvedDrop(o))
       /\ ex' = [ex EXCEPT !.todo = @ \ {o}]
  /\ UNCHANGED <<broker, fills, drops, book, episodes, synced, executed, mishaps>>

SweepResolved ==
  /\ ex.pc = "sweep"
  /\ \E o \in ex.todo :
       /\ ~Skips(o) /\ IsResolvedDrop(o)
       /\ ex' = [ex EXCEPT !.pc = "drop", !.todo = @ \ {o}, !.dropping = {o}]
  /\ UNCHANGED <<broker, fills, drops, book, episodes, synced, executed, mishaps>>

\* The broker takes the cancel of an order still open; it ends it in its own time.
CancelTaken ==
  /\ ex.pc = "sweep"
  /\ \E o \in ex.todo :
       /\ ~Skips(o) /\ IsPending(o) /\ order[o].st = "open"
       /\ order' = [order EXCEPT ![o].st = "canceling"]
       /\ ex' = [ex EXCEPT !.pc = "drop", !.todo = @ \ {o}, !.dropping = {o}]
  /\ UNCHANGED <<held, fills, drops, book, episodes, synced, executed, mishaps>>

\* Mutant: the drop is recorded though the cancel raised.
AfterRaise(o) == [ex EXCEPT !.pc = "drop", !.todo = @ \ {o}, !.dropping = {o}]
NotRecorded(o) == [ex EXCEPT !.todo = @ \ {o}, !.failed = @ \cup {o}]

\* The order is over meanwhile, or the call fails with or without effect: a
\* fault, and nothing is recorded.
CancelRaises ==
  /\ ex.pc = "sweep"
  /\ \E o \in ex.todo :
       /\ ~Skips(o) /\ IsPending(o)
       /\ ex' = NotRecorded(o)
       /\ \/ order[o].st # "open" /\ UNCHANGED <<order, mishaps>>
          \/ /\ order[o].st = "open" /\ Fails
             /\ order' \in {order, [order EXCEPT ![o].st = "canceling"]}
  /\ UNCHANGED <<held, fills, drops, book, episodes, synced, executed>>

\* record_drop marks the Fill; an order that has none is acknowledged instead.
HasFill(o) == fill[o] # "none"
RecordDrop ==
  /\ ex.pc = "drop"
  /\ \/ /\ \A o \in ex.dropping : HasFill(o)
        /\ dropped' = dropped \cup ex.dropping /\ acks' = acks
        /\ ex' = [ex EXCEPT !.pc = "dropfact"]
     \/ /\ \A o \in ex.dropping : ~HasFill(o)
        /\ acks' = acks \cup ex.dropping /\ dropped' = dropped
        /\ ex' = [ex EXCEPT !.pc = "sweep"]
  /\ UNCHANGED <<broker, fills, dropFacts, count, book, episodes, synced, executed, mishaps>>

\* The BrokerOrderStatus and the DroppedDecision fault, and the run to count.
RecordDropFact ==
  /\ ex.pc = "dropfact"
  /\ dropFacts' = dropFacts \cup ex.dropping
  /\ ex' = [ex EXCEPT !.pc = "sweep",
                      !.touched = @ \cup ({RunOf[o] : o \in ex.dropping} \cap executed)]
  /\ UNCHANGED <<broker, fills, dropped, acks, count, book, episodes, synced, executed, mishaps>>

SweepDone ==
  /\ ex.pc = "sweep" /\ ex.todo = {}
  /\ ex' = [ex EXCEPT !.pc = "mark"]
  /\ UNCHANGED <<broker, fills, drops, book, episodes, synced, executed, mishaps>>

\* mark_execution_runs: the count is written once.
DropCount(r) == Cardinality({o \in dropped : RunOf[o] = r})
MarkExecutionRuns ==
  /\ ex.pc = "mark"
  /\ count' = [r \in Runs |-> IF r \in ex.touched /\ count[r] = Unmarked
                              THEN DropCount(r) ELSE count[r]]
  /\ ex' = [Idle EXCEPT !.pc = "refresh", !.run = ex.run, !.sweeping = TRUE]
  /\ UNCHANGED <<broker, fills, dropped, dropFacts, acks, book, episodes, synced, executed,
                 mishaps>>

----------------------------------------------------------------------------
(* reconcile_run_start *)

\* execute_pm_node reconciles once more before it submits.
ExecutePMRun ==
  /\ ex.pc = "idle"
  /\ \E r \in synced \ executed : ex' = [Idle EXCEPT !.pc = "refresh", !.run = r]
  /\ UNCHANGED <<broker, fills, drops, book, episodes, synced, executed, mishaps>>

\* A pending Fill takes what the broker says; a partial one only its completion.
Refreshed(o) ==
  CASE fill[o] = "pending" -> Says(o)
    [] fill[o] = "partial" /\ Says(o) = "filled" -> "filled"
    [] OTHER -> fill[o]
Refresh ==
  /\ ex.pc = "refresh"
  /\ \/ fill' = [o \in Orders |-> Refreshed(o)] /\ mishaps' = mishaps
     \/ Fails /\ fill' = fill
  /\ ex' = [ex EXCEPT !.pc = "snapshot"]
  /\ UNCHANGED <<broker, stopFacts, drops, book, episodes, synced, executed>>

\* A fresh snapshot, or a stale one when the positions or the account fail.
Snapshot ==
  /\ ex.pc = "snapshot"
  /\ \/ /\ snapshot' = [n |-> snapshot.n + 1, q |-> held]
        /\ ex' = [ex EXCEPT !.pc = "flags", !.fresh = TRUE] /\ mishaps' = mishaps
     \/ /\ Fails /\ snapshot' = snapshot
        /\ ex' = [ex EXCEPT !.pc = "done"]
  /\ UNCHANGED <<broker, fills, drops, graphQty, linked, episodes, synced, executed>>

\* position_divergences.
Kinds == {"missing", "extra", "quantity"}
Divergence ==
  CASE snapshot.q = graphQty -> "none"
    [] snapshot.q # graphQty /\ graphQty = 0 -> "missing"
    [] snapshot.q # graphQty /\ snapshot.q = 0 -> "extra"
    [] OTHER -> "quantity"

\* open_episodes.
OpenFlags == flags \ resolved
Open(kind, severity) == {f \in OpenFlags : f.kind = kind /\ f.severity = severity}

\* Mutant: one subject for all the episodes of a kind.
SpentSubject(kind, n) == [kind |-> kind, episode |-> 0]

\* subject_ref_for.
Subject(kind, n) == [kind |-> kind, episode |-> n]
FlagOf(subject, severity) ==
  [kind |-> subject.kind, episode |-> subject.episode, severity |-> severity]

Write(f) == IF f \in flags THEN <<>> ELSE <<[op |-> "flag", flag |-> f]>>
Close(f) == <<[op |-> "close", flag |-> f]>>
CloseAll(S) == LET s == SetToSeq(S) IN [i \in DOMAIN s |-> [op |-> "close", flag |-> s[i]]]

\* _advance, and _escalate for a warn that no critical has followed.
Advance(kind) ==
  LET warns == Open(kind, "warn")
      criticals == Open(kind, "critical")
      warn == CHOOSE f \in warns : TRUE
      critical == [warn EXCEPT !.severity = "critical"]
  IN  CASE warns = {} /\ criticals = {} ->
             Write(FlagOf(Subject(kind, snapshot.n), "warn"))
        [] warns = {} /\ criticals # {} -> <<>>
        [] warns # {} /\ criticals # {} -> Close(warn)
        [] warns # {} /\ criticals = {} ->
             IF warn = FlagOf(Subject(kind, snapshot.n), "warn") \/ critical \in flags THEN <<>>
             ELSE Write(critical) \o Close(warn)

\* record_divergences reads the flags once and then writes one by one.
ReadFlags ==
  /\ ex.pc = "flags"
  /\ LET gone == {f \in OpenFlags : f.kind # Divergence}
     IN  ex' = [ex EXCEPT !.pc = "write", !.div = Divergence, !.closed = resolved,
                  !.writes = (IF Divergence = "none" THEN <<>> ELSE Advance(Divergence))
                             \o CloseAll(gone)]
  /\ UNCHANGED <<broker, fills, drops, book, episodes, synced, executed, mishaps>>

WriteFlag ==
  /\ ex.pc = "write" /\ ex.writes # <<>>
  /\ LET w == Head(ex.writes)
     IN  \/ /\ w.op = "flag"
            /\ flags' = flags \cup {w.flag} /\ resolved' = resolved
         \/ /\ w.op = "close" /\ w.flag \notin resolved
            /\ resolved' = resolved \cup {w.flag} /\ flags' = flags
  /\ ex' = [ex EXCEPT !.writes = Tail(@)]
  /\ UNCHANGED <<broker, fills, drops, book, byHuman, synced, executed, mishaps>>

\* A FlagResolution written meanwhile is not overwritten: the merge raises and
\* the item is left for the next pass.
WriteConflicts ==
  /\ ex.pc = "write" /\ ex.writes # <<>>
  /\ Head(ex.writes).op = "close" /\ Head(ex.writes).flag \in resolved
  /\ ex' = Idle
  /\ UNCHANGED <<broker, fills, drops, book, episodes, synced, executed, mishaps>>

FlagsDone ==
  /\ ex.pc = "write" /\ ex.writes = <<>>
  /\ ex' = [ex EXCEPT !.pc = "done", !.div = "none", !.closed = {}]
  /\ UNCHANGED <<broker, fills, drops, book, episodes, synced, executed, mishaps>>

----------------------------------------------------------------------------
(* The end of the item *)

\* The monitor finds a fresh snapshot by its RunRequest, or when a run is executed.
Found == linked' = IF ex.fresh THEN snapshot.q ELSE linked

\* The snapshot is linked to its RunRequest.
Link ==
  /\ ex.pc = "done" /\ ex.sweeping
  /\ synced' = synced \cup {ex.run}
  /\ Found
  /\ ex' = Idle
  /\ UNCHANGED <<broker, fills, drops, graphQty, snapshot, episodes, executed, mishaps>>

\* The run's orders are submitted, Fills and facts written: all of them, or up
\* to a crash, after which an order may have no Fill, or a stop no fact, and
\* the run is executed again.
OrdersOf(r) == {o \in Orders : RunOf[o] = r}
Submitted(S) ==
  [o \in Orders |-> IF o \in S /\ order[o].st = "none" THEN [st |-> "open", got |-> 0]
                    ELSE order[o]]
Recorded(S) ==
  [o \in Orders |-> IF o \in S /\ fill[o] = "none" THEN "pending" ELSE fill[o]]
Submit ==
  /\ ex.pc = "done" /\ ~ex.sweeping
  /\ order' = Submitted(OrdersOf(ex.run))
  /\ fill' = Recorded(OrdersOf(ex.run))
  /\ stopFacts' = stopFacts \cup (OrdersOf(ex.run) \cap Stops)
  /\ executed' = executed \cup {ex.run}
  /\ Found
  /\ ex' = Idle
  /\ UNCHANGED <<held, drops, graphQty, snapshot, episodes, synced, mishaps>>

SubmitDies ==
  /\ ex.pc = "done" /\ ~ex.sweeping /\ Fails
  /\ \E S \in SUBSET OrdersOf(ex.run) : \E R \in SUBSET S :
       /\ order' = Submitted(S) /\ fill' = Recorded(R)
       /\ stopFacts' \in {stopFacts, stopFacts \cup (R \cap Stops)}
  /\ ex' = Idle
  /\ UNCHANGED <<held, drops, book, episodes, synced, executed>>

Crash ==
  /\ ex.pc # "idle" /\ Fails /\ ex' = Idle
  /\ UNCHANGED <<broker, fills, drops, book, episodes, synced, executed>>

----------------------------------------------------------------------------
(* The monitor and the human *)

\* reconcile_positions_from_snapshot.
MonitorAdopts ==
  /\ linked \notin {NoHolding, graphQty} /\ graphQty' = linked
  /\ UNCHANGED <<broker, fills, drops, snapshot, linked, episodes, synced, executed, ex,
                 mishaps>>

\* resolve_flag.
HumanResolves ==
  /\ Cardinality(byHuman) < MaxResolved
  /\ \E f \in OpenFlags : resolved' = resolved \cup {f} /\ byHuman' = byHuman \cup {f}
  /\ UNCHANGED <<broker, fills, drops, book, flags, synced, executed, ex, mishaps>>

----------------------------------------------------------------------------

Sweep ==
  \/ SyncRunRequest \/ SweepSkips \/ SweepResolved \/ CancelTaken \/ CancelRaises
  \/ RecordDrop \/ RecordDropFact \/ SweepDone \/ MarkExecutionRuns

Reconcile ==
  \/ ExecutePMRun \/ Refresh \/ Snapshot \/ ReadFlags \/ WriteFlag \/ WriteConflicts
  \/ FlagsDone \/ Link \/ Submit \/ SubmitDies \/ Crash

Next ==
  \/ Sweep \/ Reconcile \/ MonitorAdopts \/ HumanResolves
  \/ \E o \in Orders : Trades(o) \/ Ends(o)

Spec == Init /\ [][Next]_vars

----------------------------------------------------------------------------
(* Properties *)

\* The types, and where evidence may be: only a Fill is marked as dropped, and
\* drop facts and resolutions name what exists.
TypeOK ==
  /\ \A o \in Orders : order[o].got \in 0..Whole
  /\ held \in Nat /\ graphQty \in Nat /\ snapshot.n \in Nat
  /\ dropFacts \subseteq dropped /\ dropped \subseteq {o \in Orders : fill[o] # "none"}
  /\ acks \subseteq Orders /\ synced \subseteq Runs /\ executed \subseteq synced
  /\ byHuman \subseteq resolved /\ resolved \subseteq flags

\* EXEC-OBS-07: when the flags of a fresh snapshot are written, a live
\* divergence has exactly one unresolved Flag and an absent one none, whatever
\* crashed or conflicted before; a human may have closed it meanwhile.
OneOpenFlag ==
  ex.pc = "write" /\ ex.writes = <<>> =>
    \A kind \in Kinds :
      LET open == {f \in OpenFlags : f.kind = kind}
      IN  IF kind # ex.div THEN open = {}
          ELSE \/ Cardinality(open) = 1
               \/ open = {} /\ \E f \in byHuman \ ex.closed : f.kind = kind

\* A sweep never cancels a protective stop, and never records one as dropped,
\* even one whose fact was lost.
StopsSurviveSweeps ==
  \A o \in Stops : order[o].st # "canceling" /\ o \notin dropped \cup acks

\* A dropped decision no longer works at the broker: it is over or the broker
\* took its cancellation.
DroppedIsOver == \A o \in dropped \cup acks : order[o].st \in {"canceling", "over"}

\* ADR-0018: a sweep leaves no order of an earlier run working, other than one
\* that had traded in part, or whose cancel failed and was told.
NothingLeftWorking ==
  ex.pc = "mark" =>
    \A o \in DOMAIN ex.listed \ (Stops \cup ex.failed) :
      order[o].st = "open" => RunOf[o] >= ex.run \/ ex.listed[o] = "partial"

=============================================================================
