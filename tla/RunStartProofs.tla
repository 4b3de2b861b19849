--------------------------- MODULE RunStartProofs ---------------------------
(***************************************************************************)
(* Proofs about RunStart, for every set of orders and stops, every number   *)
(* of runs, mishaps and resolutions, and every assignment of orders to runs.*)
(***************************************************************************)
EXTENDS RunStart, FiniteSetTheorems, TLAPS

-----------------------------------------------------------------------------
(* The inductive invariant *)

\* What the agent is doing, as a record of its fields.
Fields == {"pc", "run", "sweeping", "listed", "todo", "dropping", "touched", "failed", "div",
           "closed", "writes", "fresh"}
Shaped == ex = [f \in Fields |-> ex[f]]

\* What an order is at the broker: it is over once it is whole.
Orderly ==
  /\ order \in [Orders -> [st: {"none", "open", "canceling", "over"}, got: 0..Whole]]
  /\ \A o \in Orders : order[o].st \in {"open", "canceling"} => order[o].got < Whole

\* What the graph says of orders.
Filed ==
  /\ fill \in [Orders -> {"none", "pending", "partial", "filled", "rejected"}]
  /\ stopFacts \subseteq Stops /\ acks \subseteq Orders
  /\ dropped \subseteq {o \in Orders : fill[o] # "none"} /\ dropFacts \subseteq dropped

\* Runs are synced before they are executed, and only those are submitted.
Ordered ==
  /\ synced \subseteq Runs /\ executed \subseteq synced
  /\ ex.pc # "idle" => ex.run \in Runs
  /\ ex.pc # "idle" /\ ~ex.sweeping => ex.run \in synced

\* The state of an order that no longer works at the broker.
Off(o) == order[o].st \in {"canceling", "over"}

Sweeping == {"sweep", "drop", "dropfact", "mark"}

\* What a listing said of an order stays true as far as it says that it is off,
\* and an order that the sweep is done with is off, unless it is of this run, had
\* traded in part, or was reported.
Listing ==
  ex.pc \in Sweeping =>
    /\ DOMAIN ex.listed \subseteq Orders /\ ex.todo \subseteq DOMAIN ex.listed
    /\ ex.pc = "mark" => ex.todo = {}
    /\ \A o \in DOMAIN ex.listed :
         /\ order[o].st # "none"
         /\ ex.listed[o] \in {"pending", "partial", "filled", "rejected", "resolved"}
         /\ ex.listed[o] \in {"filled", "rejected", "resolved"} => Off(o)
         /\ o \in ex.todo \cup Stops \cup ex.failed \/ Off(o) \/ RunOf[o] >= ex.run
            \/ ex.listed[o] = "partial"

\* The order being recorded as dropped is off, and is no stop.
Dropping ==
  ex.pc \in {"drop", "dropfact"} =>
    /\ ex.dropping \subseteq Orders \ Stops /\ \A o \in ex.dropping : Off(o)
    /\ ex.pc = "dropfact" => ex.dropping \subseteq dropped

\* The holdings that are compared.
Holdings ==
  /\ held \in Nat /\ graphQty \in Nat /\ linked \in Nat \cup {NoHolding}
  /\ snapshot.n \in Nat /\ snapshot.q \in Nat \cup {NoHolding}

FlagSet == [kind: Kinds, episode: Nat, severity: {"warn", "critical"}]
OpSet == [op: {"flag", "close"}, flag: FlagSet]

\* The flags that a sequence of writes creates, and those it closes.
Flagged(s) == {s[i].flag : i \in {j \in DOMAIN s : s[j].op = "flag"}}
Closed(s) == {s[i].flag : i \in {j \in DOMAIN s : s[j].op = "close"}}

\* Flags name snapshots that were taken; before the flags are read, none names
\* the latest.
Episodes ==
  /\ flags \subseteq FlagSet /\ IsFiniteSet(flags)
  /\ resolved \subseteq flags /\ byHuman \subseteq resolved
  /\ ex.writes \in Seq(OpSet) /\ Closed(ex.writes) \subseteq flags
  /\ ex.pc # "write" => ex.writes = <<>>
  /\ \A f \in flags \cup Flagged(ex.writes) : f.episode <= snapshot.n
  /\ ex.pc = "flags" => \A f \in flags : f.episode < snapshot.n

\* Of each kind and severity one flag at most is open, or becomes open by the
\* writes still to do, wherever they are cut short.
Single ==
  \A f, g \in (flags \cup Flagged(ex.writes)) \ resolved :
     f.kind = g.kind /\ f.severity = g.severity => f = g

\* What is open when the writes are done.
Outcome(kind) ==
  {f \in (flags \cup Flagged(ex.writes)) \ (resolved \cup Closed(ex.writes)) : f.kind = kind}
Settled ==
  ex.pc = "write" =>
    /\ ex.closed \subseteq resolved
    /\ \A kind \in Kinds :
         IF kind # ex.div THEN Outcome(kind) = {}
         ELSE \/ \E f : Outcome(kind) = {f}
              \/ Outcome(kind) = {} /\ \E f \in byHuman \ ex.closed : f.kind = kind

-----------------------------------------------------------------------------
(* What each step makes of the agent *)

\* The fields of an agent at rest.
LEMMA IdleFields ==
  /\ Idle = [f \in Fields |-> Idle[f]]
  /\ Idle.pc = "idle" /\ Idle.sweeping = FALSE /\ Idle.writes = <<>>
BY DEF Idle, Fields

\* The agent's record keeps its fields.
LEMMA ShapedStep ==
  ASSUME Shaped, [Next]_vars
  PROVE  Shaped'
<1>0. Idle = [f \in Fields |-> Idle[f]]
  BY IdleFields
<1> HIDE DEF Idle
<1>1. CASE Sweep
  BY <1>0, <1>1 DEF Shaped, Fields, Sweep, SyncRunRequest, SweepSkips, SweepResolved, CancelTaken,
     CancelRaises, NotRecorded, RecordDrop, RecordDropFact, SweepDone, MarkExecutionRuns
<1>2. CASE Reconcile
  BY <1>0, <1>2 DEF Shaped, Fields, Reconcile, ExecutePMRun, Refresh, Snapshot, ReadFlags, WriteFlag,
     WriteConflicts, FlagsDone, Link, Submit, SubmitDies, Crash
<1>3. ASSUME \/ MonitorAdopts \/ HumanResolves \/ UNCHANGED vars
             \/ \E o \in Orders : Trades(o) \/ Ends(o)
      PROVE  ex' = ex
  BY <1>3 DEF MonitorAdopts, HumanResolves, vars, Trades, Ends
<1> QED
  BY <1>1, <1>2, <1>3 DEF Shaped, Next

-----------------------------------------------------------------------------
(* Orders at the broker *)

\* An order that the broker knows stays known, and one that is off stays off.
Onward ==
  \A o \in Orders : /\ order[o].st # "none" => order'[o].st # "none"
                    /\ Off(o) => Off(o)'

\* One order moves on, or takes a state in which it may still trade.
LEMMA OneOrder ==
  ASSUME Orderly, NEW o \in Orders,
         NEW x \in [st: {"open", "canceling", "over"}, got: 0..Whole],
         order' = [order EXCEPT ![o] = x],
         x.st \in {"open", "canceling"} => x.got < Whole,
         Off(o) => x.st \in {"canceling", "over"}
  PROVE  Orderly' /\ Onward
<1>1. x \in [st: {"none", "open", "canceling", "over"}, got: 0..Whole] /\ x.st # "none"
  OBVIOUS
<1>2. Orderly'
  BY <1>1 DEF Orderly
<1>3. order'[o] = x /\ \A p \in Orders \ {o} : order'[p] = order[p]
  BY DEF Orderly
<1>4. Onward
  BY <1>1, <1>3 DEF Onward, Off
<1> QED
  BY <1>2, <1>4

\* Only the state of one order changes.
LEMMA OneState ==
  ASSUME Orderly, NEW o \in Orders, NEW x \in {"canceling", "over"},
         order' = [order EXCEPT ![o].st = x], order[o].st \in {"open", "canceling"}
  PROVE  Orderly' /\ Onward
<1> DEFINE y == [st |-> x, got |-> order[o].got]
<1>1. order[o] = [st |-> order[o].st, got |-> order[o].got] /\ order[o].got \in 0..Whole
      /\ order[o].got < Whole
  BY DEF Orderly
<1>2. order' = [order EXCEPT ![o] = y]
  <2>1. order' = [order EXCEPT ![o] = [order[o] EXCEPT !.st = x]]
    OBVIOUS
  <2>2. [order[o] EXCEPT !.st = x] = y
    BY <1>1
  <2> QED
    BY <2>1, <2>2
<1>3. y \in [st: {"open", "canceling", "over"}, got: 0..Whole] /\ y.got < Whole
      /\ y.st = x
  BY <1>1
<1> HIDE DEF y
<1> QED
  BY <1>2, <1>3, OneOrder

\* Orders that are new become open.
LEMMA ManyOrders ==
  ASSUME Orderly, NEW S, order' = Submitted(S)
  PROVE  Orderly' /\ Onward
<1>1. [st |-> "open", got |-> 0] \in [st: {"none", "open", "canceling", "over"}, got: 0..Whole]
  BY DEF Whole
<1>2. Orderly'
  BY <1>1 DEF Orderly, Submitted, Whole
<1>3. Onward
  BY DEF Onward, Off, Submitted, Orderly
<1> QED
  BY <1>2, <1>3

\* The steps that touch no order.
LEMMA OrderFrame ==
  ASSUME [Next]_vars
  PROVE  \/ order' = order
         \/ \E o \in Orders : Trades(o) \/ Ends(o)
         \/ CancelTaken \/ CancelRaises \/ Submit \/ SubmitDies
<1>1. ASSUME \/ SyncRunRequest \/ SweepSkips \/ SweepResolved
             \/ RecordDrop \/ RecordDropFact \/ SweepDone \/ MarkExecutionRuns
      PROVE  order' = order
  BY <1>1 DEF SyncRunRequest, SweepSkips, SweepResolved, RecordDrop, RecordDropFact, SweepDone,
     MarkExecutionRuns, broker
<1>2. ASSUME \/ ExecutePMRun \/ Refresh \/ Snapshot \/ ReadFlags \/ WriteFlag
             \/ WriteConflicts \/ FlagsDone \/ Link \/ Crash
             \/ MonitorAdopts \/ HumanResolves \/ UNCHANGED vars
      PROVE  order' = order
  BY <1>2 DEF ExecutePMRun, Refresh, Snapshot, ReadFlags, WriteFlag, WriteConflicts, FlagsDone, Link,
     Crash, MonitorAdopts, HumanResolves, vars, broker
<1> QED
  BY <1>1, <1>2 DEF Next, Sweep, Reconcile

\* Every step keeps the broker's orders in order.
LEMMA OrderlyStep ==
  ASSUME OrdersAssumption, Orderly, Listing, Shaped, [Next]_vars
  PROVE  Orderly' /\ Onward
<1>1. CASE order' = order
  BY <1>1 DEF Orderly, Onward, Off
<1>2. ASSUME NEW o \in Orders, Trades(o)
      PROVE  Orderly' /\ Onward
  <2>0. /\ order \in [Orders -> [st: {"none", "open", "canceling", "over"}, got: 0..Whole]]
        /\ order[o].got \in Nat /\ order[o].got < Whole /\ Whole \in Nat
        /\ order[o].st \in {"open", "canceling"}
    BY <1>2 DEF Orderly, Trades, Whole
  <2>1. CASE o \in Stops
    <3> DEFINE x == [st |-> "over", got |-> Whole]
    <3>1. /\ x \in [st: {"open", "canceling", "over"}, got: 0..Whole] /\ x.st = "over"
      BY <2>0
    <3>2. order' = [order EXCEPT ![o] = x]
      BY <1>2, <2>1 DEF Trades
    <3> HIDE DEF x
    <3> QED
      BY <3>1, <3>2, OneOrder
  <2>2. CASE o \notin Stops
    <3> DEFINE k == order[o].got + 1
               x == [st |-> IF k = Whole THEN "over" ELSE order[o].st, got |-> k]
    <3>1. k \in 0..Whole /\ (k # Whole => k < Whole)
      BY <2>0
    <3>2. order' = [order EXCEPT ![o] = x]
      BY <1>2, <2>0, <2>2 DEF Trades
    <3> HIDE DEF k
    <3>3. /\ x \in [st: {"open", "canceling", "over"}, got: 0..Whole]
          /\ x.st \in {"open", "canceling"} => x.got < Whole
          /\ order[o].st = "canceling" => x.st \in {"canceling", "over"}
      BY <2>0, <3>1
    <3> HIDE DEF x
    <3> QED
      BY <2>0, <3>2, <3>3, OneOrder DEF Off
  <2> QED
    BY <2>1, <2>2
<1>3. ASSUME NEW o \in Orders, Ends(o)
      PROVE  Orderly' /\ Onward
  BY <1>3, OneState DEF Ends
<1>4. ASSUME CancelTaken \/ CancelRaises
      PROVE  Orderly' /\ Onward
  <2>1. CASE order' = order
    BY <1>1, <2>1
  <2>2. CASE \E o \in ex.todo : order[o].st = "open"
                                /\ order' = [order EXCEPT ![o].st = "canceling"]
    <3>1. ex.todo \subseteq Orders
      BY <1>4 DEF Listing, Sweeping, CancelTaken, CancelRaises
    <3> QED
      BY <2>2, <3>1, OneState
  <2> QED
    BY <1>4, <2>1, <2>2 DEF CancelTaken, CancelRaises
<1>5. CASE Submit
  BY <1>5, ManyOrders DEF Submit
<1>6. CASE SubmitDies
  BY <1>6, ManyOrders DEF SubmitDies
<1> QED
  BY <1>1, <1>2, <1>3, <1>4, <1>5, <1>6, OrderFrame

-----------------------------------------------------------------------------
(* The sweep *)

\* What a listing says of an order that the broker knows.
LEMMA ListedSays ==
  ASSUME Orderly, NEW o \in Orders, order[o].st # "none"
  PROVE  /\ Says(o) \in {"pending", "partial", "filled", "rejected"}
         /\ Listed(o) \in {"pending", "partial", "filled", "rejected", "resolved"}
         /\ Listed(o) \in {"filled", "rejected", "resolved"} => Off(o)
<1>1. order[o].st \in {"open", "canceling", "over"} /\ order[o].got \in Nat
  BY DEF Orderly, Whole
<1>2. /\ Says(o) \in {"pending", "partial", "filled", "rejected"}
      /\ Says(o) \in {"filled", "rejected"} => Off(o)
  BY <1>1 DEF Says, Off
<1> QED
  BY <1>2 DEF Listed, Off

\* Where drops and stops are recorded: only a Fill, and of what was being dropped.
LEMMA FiledStep ==
  ASSUME OrdersAssumption, Orderly, Filed, Dropping, [Next]_vars
  PROVE  Filed'
<1>0. /\ fill \in [Orders -> {"none", "pending", "partial", "filled", "rejected"}]
      /\ stopFacts \subseteq Stops /\ acks \subseteq Orders
      /\ dropped \subseteq {o \in Orders : fill[o] # "none"} /\ dropFacts \subseteq dropped
  BY DEF Filed
<1>1. CASE UNCHANGED <<fill, stopFacts, dropped, dropFacts, acks>>
  BY <1>1 DEF Filed
<1>2. CASE RecordDrop
  <2>1. UNCHANGED <<fill, stopFacts, dropFacts>> /\ ex.dropping \subseteq Orders
    BY <1>2 DEF RecordDrop, fills, Dropping
  <2> QED
    BY <1>0, <1>2, <2>1 DEF RecordDrop, HasFill, Filed
<1>3. CASE RecordDropFact
  BY <1>0, <1>3 DEF RecordDropFact, fills, Dropping, Filed
<1>4. CASE Refresh
  <2>1. \A o \in Orders : Says(o) \in {"pending", "partial", "filled", "rejected"}
    BY DEF Says
  <2>2. \A o \in Orders :
          /\ Refreshed(o) \in {"none", "pending", "partial", "filled", "rejected"}
          /\ fill[o] # "none" => Refreshed(o) # "none"
    BY <1>0, <2>1 DEF Refreshed
  <2>3. UNCHANGED <<stopFacts, dropped, dropFacts, acks>>
    BY <1>4 DEF Refresh, drops
  <2>4. fill' = fill \/ fill' = [o \in Orders |-> Refreshed(o)]
    BY <1>4 DEF Refresh
  <2> QED
    BY <1>0, <2>2, <2>3, <2>4 DEF Filed
<1>5. CASE Submit \/ SubmitDies
  <2>1. PICK R : fill' = Recorded(R)
    BY <1>5 DEF Submit, SubmitDies
  <2>2. /\ fill' \in [Orders -> {"none", "pending", "partial", "filled", "rejected"}]
        /\ \A o \in Orders : fill[o] # "none" => fill'[o] # "none"
    BY <1>0, <2>1 DEF Recorded
  <2>3. stopFacts' \subseteq Stops /\ UNCHANGED <<dropped, dropFacts, acks>>
    BY <1>0, <1>5 DEF Submit, SubmitDies, drops
  <2> QED
    BY <1>0, <2>2, <2>3 DEF Filed
<1>6. ASSUME \/ SyncRunRequest \/ SweepSkips \/ SweepResolved \/ CancelTaken \/ CancelRaises
             \/ SweepDone \/ MarkExecutionRuns
      PROVE  UNCHANGED <<fill, stopFacts, dropped, dropFacts, acks>>
  BY <1>6 DEF SyncRunRequest, SweepSkips, SweepResolved, CancelTaken, CancelRaises, SweepDone,
     MarkExecutionRuns, fills, drops
<1>7. ASSUME \/ ExecutePMRun \/ Snapshot \/ ReadFlags \/ WriteFlag
             \/ WriteConflicts \/ FlagsDone \/ Link \/ Crash
             \/ MonitorAdopts \/ HumanResolves \/ UNCHANGED vars
             \/ \E o \in Orders : Trades(o) \/ Ends(o)
      PROVE  UNCHANGED <<fill, stopFacts, dropped, dropFacts, acks>>
  BY <1>7 DEF ExecutePMRun, Snapshot, ReadFlags, WriteFlag, WriteConflicts, FlagsDone, Link,
     Crash, MonitorAdopts, HumanResolves, Trades, Ends, vars, fills, drops
<1> QED
  BY <1>1, <1>2, <1>3, <1>4, <1>5, <1>6, <1>7 DEF Next, Sweep, Reconcile

\* A run is executed after it is synced.
LEMMA OrderedStep ==
  ASSUME OrdersAssumption, Shaped, Ordered, [Next]_vars
  PROVE  Ordered'
<1>0. /\ synced \subseteq Runs /\ executed \subseteq synced
      /\ ex.pc # "idle" => ex.run \in Runs
      /\ ex.pc # "idle" /\ ~ex.sweeping => ex.run \in synced
  BY DEF Ordered
<1>i. Idle.pc = "idle" /\ Idle = [f \in Fields |-> Idle[f]]
  BY IdleFields
<1> HIDE DEF Idle
<1>1. CASE SyncRunRequest
  <2>1. PICK r \in Runs :
          \/ ex' = [Idle EXCEPT !.pc = "sweep", !.run = r, !.sweeping = TRUE,
                      !.todo = {o \in Orders : order[o].st # "none"},
                      !.listed = [o \in {p \in Orders : order[p].st # "none"} |-> Listed(o)]]
          \/ ex' = [Idle EXCEPT !.pc = "refresh", !.run = r, !.sweeping = TRUE]
    BY <1>1 DEF SyncRunRequest
  <2>2. ex'.run \in Runs /\ ex'.sweeping = TRUE
    BY <1>i, <2>1 DEF Fields
  <2>3. UNCHANGED <<synced, executed>>
    BY <1>1 DEF SyncRunRequest
  <2> QED
    BY <1>0, <2>2, <2>3 DEF Ordered
<1>2. CASE ExecutePMRun
  <2>1. PICK r \in synced : ex' = [Idle EXCEPT !.pc = "refresh", !.run = r]
    BY <1>2 DEF ExecutePMRun
  <2>2. ex'.run \in synced /\ UNCHANGED <<synced, executed>>
    BY <1>i, <1>2, <2>1 DEF Fields, ExecutePMRun
  <2> QED
    BY <1>0, <2>2 DEF Ordered
<1>3. CASE MarkExecutionRuns
  <2>1. ex'.run = ex.run /\ ex'.sweeping = TRUE
    BY <1>i, <1>3 DEF MarkExecutionRuns, Fields
  <2>2. ex.pc # "idle" /\ UNCHANGED <<synced, executed>>
    BY <1>3 DEF MarkExecutionRuns
  <2> QED
    BY <1>0, <2>1, <2>2 DEF Ordered
<1>4. ASSUME WriteConflicts \/ SubmitDies \/ Crash
      PROVE  Ordered'
  BY <1>0, <1>i, <1>4 DEF WriteConflicts, SubmitDies, Crash, Ordered
<1>5. CASE Link
  BY <1>0, <1>i, <1>5 DEF Link, Ordered
<1>6. CASE Submit
  BY <1>0, <1>i, <1>6 DEF Submit, Ordered
<1>s. ASSUME UNCHANGED <<synced, executed>>, ex'.run = ex.run, ex'.sweeping = ex.sweeping,
             ex.pc # "idle" \/ ex'.pc = ex.pc
      PROVE  Ordered'
  BY <1>0, <1>s DEF Ordered
<1>7. ASSUME \/ SweepSkips \/ SweepResolved \/ CancelTaken \/ CancelRaises
             \/ RecordDrop \/ RecordDropFact \/ SweepDone
      PROVE  Ordered'
  <2>1. /\ UNCHANGED <<synced, executed>> /\ ex.pc # "idle"
    BY <1>7 DEF SweepSkips, SweepResolved, CancelTaken, CancelRaises, RecordDrop,
       RecordDropFact, SweepDone
  <2>2. ex'.run = ex.run /\ ex'.sweeping = ex.sweeping
    BY <1>7 DEF SweepSkips, SweepResolved, CancelTaken, CancelRaises, RecordDrop,
       RecordDropFact, SweepDone, NotRecorded, Shaped, Fields
  <2> QED
    BY <1>s, <2>1, <2>2
<1>8. ASSUME Refresh \/ Snapshot \/ ReadFlags \/ WriteFlag \/ FlagsDone
      PROVE  Ordered'
  <2>1. UNCHANGED <<synced, executed>> /\ ex.pc # "idle"
    BY <1>8 DEF Refresh, Snapshot, ReadFlags, WriteFlag, FlagsDone
  <2>2. ex'.run = ex.run /\ ex'.sweeping = ex.sweeping
    BY <1>8 DEF Refresh, Snapshot, ReadFlags, WriteFlag, FlagsDone, Shaped, Fields
  <2> QED
    BY <1>s, <2>1, <2>2
<1>9. ASSUME \/ MonitorAdopts \/ HumanResolves \/ UNCHANGED vars
             \/ \E o \in Orders : Trades(o) \/ Ends(o)
      PROVE  Ordered'
  <2>1. UNCHANGED <<synced, executed, ex>>
    BY <1>9 DEF MonitorAdopts, HumanResolves, vars, Trades, Ends
  <2> QED
    BY <1>s, <2>1
<1> QED
  BY <1>1, <1>2, <1>3, <1>4, <1>5, <1>6, <1>7, <1>8, <1>9 DEF Next, Sweep, Reconcile

\* The agent's steps that take orders off the list.
LEMMA SweepFields ==
  ASSUME Shaped, SweepSkips \/ SweepResolved \/ CancelTaken \/ CancelRaises
  PROVE  \E o \in ex.todo :
           /\ ex.pc = "sweep" /\ ex'.listed = ex.listed /\ ex'.run = ex.run
           /\ ex'.todo = ex.todo \ {o}
           /\ \/ /\ Skips(o) \/ (~IsPending(o) /\ ~IsResolvedDrop(o))
                 /\ ex'.pc = "sweep" /\ ex'.failed = ex.failed
              \/ /\ ~Skips(o)
                 /\ IsResolvedDrop(o) \/ order' = [order EXCEPT ![o].st = "canceling"]
                 /\ ex'.pc = "drop" /\ ex'.failed = ex.failed /\ ex'.dropping = {o}
              \/ /\ ~Skips(o)
                 /\ ex'.pc = "sweep" /\ ex'.failed = ex.failed \cup {o}
<1>1. CASE SweepSkips
  <2>1. PICK o \in ex.todo :
          /\ Skips(o) \/ (~IsPending(o) /\ ~IsResolvedDrop(o))
          /\ ex.pc = "sweep" /\ ex' = [ex EXCEPT !.todo = ex.todo \ {o}]
    BY <1>1 DEF SweepSkips
  <2>2. /\ ex'.listed = ex.listed /\ ex'.run = ex.run /\ ex'.todo = ex.todo \ {o}
        /\ ex'.pc = "sweep" /\ ex'.failed = ex.failed
    BY <2>1 DEF Shaped, Fields
  <2> QED
    BY <1>1, <2>1, <2>2
<1>2. CASE SweepResolved
  <2>1. PICK o \in ex.todo :
          /\ ~Skips(o) /\ IsResolvedDrop(o)
          /\ ex.pc = "sweep"
          /\ ex' = [ex EXCEPT !.pc = "drop", !.todo = ex.todo \ {o}, !.dropping = {o}]
    BY <1>2 DEF SweepResolved
  <2>2. /\ ex'.listed = ex.listed /\ ex'.run = ex.run /\ ex'.todo = ex.todo \ {o}
        /\ ex'.pc = "drop" /\ ex'.failed = ex.failed /\ ex'.dropping = {o}
    BY <2>1 DEF Shaped, Fields
  <2> QED
    BY <1>2, <2>1, <2>2
<1>3. CASE CancelTaken
  <2>1. PICK o \in ex.todo :
          /\ ~Skips(o) /\ order[o].st = "open"
          /\ order' = [order EXCEPT ![o].st = "canceling"]
          /\ ex.pc = "sweep"
          /\ ex' = [ex EXCEPT !.pc = "drop", !.todo = ex.todo \ {o}, !.dropping = {o}]
    BY <1>3 DEF CancelTaken
  <2>2. /\ ex'.listed = ex.listed /\ ex'.run = ex.run /\ ex'.todo = ex.todo \ {o}
        /\ ex'.pc = "drop" /\ ex'.failed = ex.failed /\ ex'.dropping = {o}
    BY <2>1 DEF Shaped, Fields
  <2> QED
    BY <1>3, <2>1, <2>2
<1>4. CASE CancelRaises
  <2>1. PICK o \in ex.todo :
          /\ ~Skips(o) /\ ex.pc = "sweep"
          /\ order' = order \/ order' = [order EXCEPT ![o].st = "canceling"]
          /\ ex' = [ex EXCEPT !.todo = ex.todo \ {o}, !.failed = ex.failed \cup {o}]
    BY <1>4 DEF CancelRaises, NotRecorded
  <2>2. /\ ex'.listed = ex.listed /\ ex'.run = ex.run /\ ex'.todo = ex.todo \ {o}
        /\ ex'.pc = "sweep" /\ ex'.failed = ex.failed \cup {o}
    BY <2>1 DEF Shaped, Fields
  <2> QED
    BY <1>4, <2>1, <2>2
<1> QED
  BY <1>1, <1>2, <1>3, <1>4

\* The steps that leave the sweep, or are outside it.
LEMMA SweepLeft ==
  ASSUME Shaped, Reconcile \/ MarkExecutionRuns
  PROVE  ex'.pc \notin Sweeping
<1>0. Idle.pc = "idle" /\ Idle = [f \in Fields |-> Idle[f]]
  BY IdleFields
<1> HIDE DEF Idle
<1>1. CASE ExecutePMRun \/ MarkExecutionRuns
  BY <1>0, <1>1 DEF ExecutePMRun, MarkExecutionRuns, Fields, Sweeping
<1>2. CASE WriteConflicts \/ Link \/ Submit \/ SubmitDies \/ Crash
  BY <1>0, <1>2 DEF WriteConflicts, Link, Submit, SubmitDies, Crash, Sweeping
<1>3. CASE Refresh \/ Snapshot \/ ReadFlags \/ WriteFlag \/ FlagsDone
  BY <1>3 DEF Refresh, Snapshot, ReadFlags, WriteFlag, FlagsDone, Shaped, Fields, Sweeping
<1> QED
  BY <1>1, <1>2, <1>3 DEF Reconcile

\* The steps of others.
LEMMA OthersFrame ==
  ASSUME \/ MonitorAdopts \/ HumanResolves \/ UNCHANGED vars
         \/ \E o \in Orders : Trades(o) \/ Ends(o)
  PROVE  UNCHANGED <<ex, fill, dropped, acks, stopFacts>>
BY DEF MonitorAdopts, HumanResolves, vars, Trades, Ends, fills, drops

\* An order that the sweep passes over is off, of this run, traded in part or a
\* stop; one that it takes is no stop.
LEMMA SkippedFor ==
  ASSUME OrdersAssumption, Filed, Listing, DroppedIsOver, ex.pc = "sweep", NEW o \in ex.todo
  PROVE  /\ o \in Orders
         /\ (Skips(o) \/ (~IsPending(o) /\ ~IsResolvedDrop(o))) =>
              o \in Stops \/ Off(o) \/ RunOf[o] >= ex.run \/ ex.listed[o] = "partial"
         /\ ~Skips(o) => o \notin Stops
         /\ IsResolvedDrop(o) => Off(o)
<1>1. /\ o \in DOMAIN ex.listed /\ o \in Orders
      /\ ex.listed[o] \in {"pending", "partial", "filled", "rejected", "resolved"}
      /\ ex.listed[o] \in {"filled", "rejected", "resolved"} => Off(o)
  BY DEF Listing, Sweeping
<1>2. ASSUME Skips(o)
      PROVE  o \in Stops \/ Off(o) \/ RunOf[o] >= ex.run
  <2>1. o \in dropped \cup acks => Off(o)
    BY DEF DroppedIsOver, Off
  <2>2. RunOf[o] = ex.run => RunOf[o] >= ex.run
    BY <1>1 DEF OrdersAssumption, Runs
  <2> QED
    BY <1>2, <2>1, <2>2 DEF Skips, IsCurrentRun, IsStopOrder, Filed
<1>3. ~IsPending(o) /\ ~IsResolvedDrop(o) => Off(o) \/ ex.listed[o] = "partial"
  BY <1>1 DEF IsPending, IsResolvedDrop
<1> QED
  BY <1>1, <1>2, <1>3 DEF Skips, IsStopOrder, IsResolvedDrop

\* The sweep keeps its books.
LEMMA SweepStep ==
  ASSUME OrdersAssumption, Shaped, Orderly, Onward, Filed, Listing, Dropping,
         StopsSurviveSweeps, DroppedIsOver, [Next]_vars
  PROVE  Listing' /\ Dropping'
<1>1. CASE SyncRunRequest
  <2>i. Idle.pc = "idle" /\ Idle = [f \in Fields |-> Idle[f]]
    BY IdleFields
  <2> HIDE DEF Idle
  <2> DEFINE known == {o \in Orders : order[o].st # "none"}
             list == [o \in known |-> Listed(o)]
  <2>1. PICK r \in Runs :
          \/ ex' = [Idle EXCEPT !.pc = "sweep", !.run = r, !.sweeping = TRUE,
                                !.todo = known, !.listed = list]
          \/ ex' = [Idle EXCEPT !.pc = "refresh", !.run = r, !.sweeping = TRUE]
    BY <1>1 DEF SyncRunRequest
  <2> HIDE DEF list
  <2>2. \/ ex'.pc = "sweep" /\ ex'.todo = known /\ ex'.listed = list
        \/ ex'.pc = "refresh"
    BY <2>i, <2>1 DEF Fields
  <2>3. order' = order
    BY <1>1 DEF SyncRunRequest, broker
  <2>4. DOMAIN list = known /\ \A o \in known : list[o] = Listed(o)
    BY DEF list
  <2>5. CASE ex'.pc = "sweep" /\ ex'.todo = known /\ ex'.listed = list
    <3>1. \A o \in known :
            /\ list[o] \in {"pending", "partial", "filled", "rejected", "resolved"}
            /\ list[o] \in {"filled", "rejected", "resolved"} => Off(o)
      BY <2>4, ListedSays
    <3> QED
      BY <2>3, <2>4, <2>5, <3>1 DEF Listing, Dropping, Off
  <2>6. CASE ex'.pc = "refresh"
    BY <2>6 DEF Listing, Dropping, Sweeping
  <2> QED
    BY <2>2, <2>5, <2>6
<1>2. CASE SweepSkips \/ SweepResolved \/ CancelTaken \/ CancelRaises
  <2>1. PICK o \in ex.todo :
           /\ ex.pc = "sweep" /\ ex'.listed = ex.listed /\ ex'.run = ex.run
           /\ ex'.todo = ex.todo \ {o}
           /\ \/ /\ Skips(o) \/ (~IsPending(o) /\ ~IsResolvedDrop(o))
                 /\ ex'.pc = "sweep" /\ ex'.failed = ex.failed
              \/ /\ ~Skips(o)
                 /\ IsResolvedDrop(o) \/ order' = [order EXCEPT ![o].st = "canceling"]
                 /\ ex'.pc = "drop" /\ ex'.failed = ex.failed /\ ex'.dropping = {o}
              \/ /\ ~Skips(o)
                 /\ ex'.pc = "sweep" /\ ex'.failed = ex.failed \cup {o}
    BY <1>2, SweepFields
  <2>2. /\ o \in Orders
        /\ (Skips(o) \/ (~IsPending(o) /\ ~IsResolvedDrop(o))) =>
              o \in Stops \/ Off(o) \/ RunOf[o] >= ex.run \/ ex.listed[o] = "partial"
        /\ ~Skips(o) => o \notin Stops
        /\ IsResolvedDrop(o) => Off(o)
    BY <2>1, SkippedFor
  <2>3. ex'.pc = "drop" => Off(o)' /\ o \notin Stops
    <3>1. order' = [order EXCEPT ![o].st = "canceling"] => order'[o].st = "canceling"
      BY <2>2 DEF Orderly
    <3> QED
      BY <2>1, <2>2, <3>1 DEF Off, Onward
  <2>4. \/ o \in Stops \cup ex'.failed \/ Off(o)' \/ RunOf[o] >= ex.run
        \/ ex.listed[o] = "partial"
    BY <2>1, <2>2, <2>3 DEF Onward
  <2>5. Listing'
    <3>1. /\ DOMAIN ex.listed \subseteq Orders /\ ex.todo \subseteq DOMAIN ex.listed
          /\ \A p \in DOMAIN ex.listed :
               /\ order[p].st # "none"
               /\ ex.listed[p] \in {"pending", "partial", "filled", "rejected", "resolved"}
               /\ ex.listed[p] \in {"filled", "rejected", "resolved"} => Off(p)
               /\ p \in ex.todo \cup Stops \cup ex.failed \/ Off(p) \/ RunOf[p] >= ex.run
                  \/ ex.listed[p] = "partial"
      BY <2>1 DEF Listing, Sweeping
    <3>2. ex.failed \subseteq ex'.failed /\ ex'.pc # "mark"
      BY <2>1
    <3>3. \A p \in DOMAIN ex.listed :
               /\ order'[p].st # "none"
               /\ ex.listed[p] \in {"filled", "rejected", "resolved"} => Off(p)'
               /\ p \in ex'.todo \cup Stops \cup ex'.failed \/ Off(p)' \/ RunOf[p] >= ex.run
                  \/ ex.listed[p] = "partial"
      BY <2>1, <2>4, <3>1, <3>2 DEF Onward
    <3> QED
      BY <2>1, <3>1, <3>2, <3>3 DEF Listing
  <2>6. Dropping'
    BY <2>1, <2>2, <2>3 DEF Dropping
  <2> QED
    BY <2>5, <2>6
<1>3. CASE RecordDrop \/ RecordDropFact \/ SweepDone
  <2>1. /\ ex'.listed = ex.listed /\ ex'.run = ex.run /\ ex'.todo = ex.todo
        /\ ex'.failed = ex.failed /\ ex'.dropping = ex.dropping
        /\ ex'.pc \in {"sweep", "dropfact", "mark"}
        /\ ex'.pc = "mark" => ex.todo = {}
        /\ ex'.pc = "dropfact" => ex.pc = "drop" /\ dropped' = dropped \cup ex.dropping
    BY <1>3 DEF RecordDrop, RecordDropFact, SweepDone, Shaped, Fields
  <2>2. ex.pc \in Sweeping /\ order' = order
    BY <1>3 DEF RecordDrop, RecordDropFact, SweepDone, Sweeping, broker
  <2>3. Listing'
    BY <2>1, <2>2 DEF Listing, Off
  <2>4. Dropping'
    BY <2>1, <2>2 DEF Dropping, Off
  <2> QED
    BY <2>3, <2>4
<1>4. CASE Reconcile \/ MarkExecutionRuns
  BY <1>4, SweepLeft DEF Listing, Dropping, Sweeping
<1>5. CASE \/ MonitorAdopts \/ HumanResolves \/ UNCHANGED vars
           \/ \E o \in Orders : Trades(o) \/ Ends(o)
  BY <1>5, OthersFrame DEF Listing, Dropping, Onward
<1> QED
  BY <1>1, <1>2, <1>3, <1>4, <1>5 DEF Next, Sweep

\* Only record_drop marks a Fill as dropped or acknowledges an order.
LEMMA DropFrame ==
  ASSUME [Next]_vars
  PROVE  RecordDrop \/ UNCHANGED <<dropped, acks>>
<1>1. ASSUME \/ SyncRunRequest \/ SweepSkips \/ SweepResolved \/ CancelTaken \/ CancelRaises
             \/ RecordDropFact \/ SweepDone \/ MarkExecutionRuns
      PROVE  UNCHANGED <<dropped, acks>>
  BY <1>1 DEF SyncRunRequest, SweepSkips, SweepResolved, CancelTaken, CancelRaises,
     RecordDropFact, SweepDone, MarkExecutionRuns, drops
<1>2. ASSUME Reconcile
      PROVE  UNCHANGED <<dropped, acks>>
  BY <1>2 DEF Reconcile, ExecutePMRun, Refresh, Snapshot, ReadFlags, WriteFlag, WriteConflicts,
     FlagsDone, Link, Submit, SubmitDies, Crash, drops
<1> QED
  BY <1>1, <1>2, OthersFrame DEF Next, Sweep

\* Stops are left alone, and what is recorded as dropped is off.
LEMMA DropsStep ==
  ASSUME OrdersAssumption, Shaped, Orderly, Onward, Filed, Listing, Dropping,
         StopsSurviveSweeps, DroppedIsOver, [Next]_vars
  PROVE  StopsSurviveSweeps' /\ DroppedIsOver'
<1>0. /\ dropped \subseteq Orders /\ acks \subseteq Orders /\ Stops \subseteq Orders
  BY DEF Filed, OrdersAssumption
<1>1. \A o \in (dropped \cup acks)' : o \in Orders \ Stops /\ Off(o)
  <2>1. \A o \in dropped \cup acks : o \in Orders \ Stops /\ Off(o)
    BY <1>0 DEF StopsSurviveSweeps, DroppedIsOver, Off
  <2>2. CASE RecordDrop
    <3>1. (dropped \cup acks)' \subseteq (dropped \cup acks) \cup ex.dropping
      BY <2>2 DEF RecordDrop
    <3>2. \A o \in ex.dropping : o \in Orders \ Stops /\ Off(o)
      BY <2>2 DEF RecordDrop, Dropping
    <3> QED
      BY <2>1, <3>1, <3>2
  <2> QED
    BY <2>1, <2>2, DropFrame
<1>2. DroppedIsOver'
  BY <1>1 DEF DroppedIsOver, Onward, Off
<1>3. \A o \in Stops : order'[o].st # "canceling"
  <2>0. /\ order \in [Orders -> [st: {"none", "open", "canceling", "over"}, got: 0..Whole]]
        /\ \A o \in Stops : order[o].st # "canceling"
    BY DEF Orderly, StopsSurviveSweeps
  <2>1. CASE order' = order
    BY <2>0, <2>1
  <2>2. ASSUME NEW o \in Orders, Trades(o)
        PROVE  \A p \in Stops : order'[p].st # "canceling"
    <3>1. CASE o \in Stops
      BY <1>0, <2>0, <2>2, <3>1 DEF Trades
    <3>2. CASE o \notin Stops
      <4>1. \A p \in Orders \ {o} : order'[p] = order[p]
        BY <2>0, <2>2, <3>2 DEF Trades
      <4> QED
        BY <1>0, <2>0, <3>2, <4>1
    <3> QED
      BY <3>1, <3>2
  <2>3. ASSUME NEW o \in Orders, Ends(o)
        PROVE  \A p \in Stops : order'[p].st # "canceling"
    <3>1. order'[o].st = "over" /\ \A p \in Orders \ {o} : order'[p] = order[p]
      BY <2>0, <2>3 DEF Ends
    <3> QED
      BY <1>0, <2>0, <3>1
  <2>4. CASE CancelTaken \/ CancelRaises
    <3>1. PICK o \in ex.todo :
            /\ ex.pc = "sweep" /\ ~Skips(o)
            /\ order' = order \/ order' = [order EXCEPT ![o].st = "canceling"]
      BY <2>4 DEF CancelTaken, CancelRaises
    <3>2. o \in Orders \ Stops
      BY <3>1, SkippedFor
    <3>3. \A p \in Orders \ {o} : order'[p] = order[p]
      BY <2>0, <3>1, <3>2
    <3> QED
      BY <1>0, <2>0, <3>2, <3>3
  <2>5. CASE Submit \/ SubmitDies
    <3>1. PICK S : order' = Submitted(S)
      BY <2>5 DEF Submit, SubmitDies
    <3> QED
      BY <1>0, <2>0, <3>1 DEF Submitted
  <2> QED
    BY <2>1, <2>2, <2>3, <2>4, <2>5, OrderFrame
<1>4. StopsSurviveSweeps'
  BY <1>1, <1>3 DEF StopsSurviveSweeps
<1> QED
  BY <1>2, <1>4

-----------------------------------------------------------------------------
(* Holdings *)

\* What is held, adopted or in a snapshot is a number of shares.
LEMMA HoldingsStep ==
  ASSUME Holdings, [Next]_vars
  PROVE  Holdings'
<1>0. /\ held \in Nat /\ graphQty \in Nat /\ linked \in Nat \cup {NoHolding}
      /\ snapshot.n \in Nat /\ snapshot.q \in Nat \cup {NoHolding}
  BY DEF Holdings
<1>1. ASSUME NEW o \in Orders, Trades(o)
      PROVE  Holdings'
  <2>1. held' = 0 \/ held' = held + 1
    BY <1>1 DEF Trades
  <2>2. UNCHANGED <<graphQty, snapshot, linked>>
    BY <1>1 DEF Trades, book
  <2> QED
    BY <1>0, <2>1, <2>2 DEF Holdings
<1>2. CASE Snapshot
  <2>1. \/ snapshot' = snapshot
        \/ snapshot'.n = snapshot.n + 1 /\ snapshot'.q = held
    BY <1>2 DEF Snapshot
  <2>2. UNCHANGED <<held, graphQty, linked>>
    BY <1>2 DEF Snapshot, broker
  <2> QED
    BY <1>0, <2>1, <2>2 DEF Holdings
<1>3. CASE Link \/ Submit
  <2>1. /\ linked' = linked \/ linked' = snapshot.q
        /\ UNCHANGED <<held, graphQty, snapshot>>
    BY <1>3 DEF Link, Submit, Found, broker
  <2> QED
    BY <1>0, <2>1 DEF Holdings
<1>4. CASE MonitorAdopts
  BY <1>0, <1>4 DEF MonitorAdopts, Holdings, broker
<1>s. CASE UNCHANGED <<held, graphQty, snapshot, linked>>
  BY <1>s DEF Holdings
<1>5. ASSUME Sweep
      PROVE  UNCHANGED <<held, graphQty, snapshot, linked>>
  BY <1>5 DEF Sweep, SyncRunRequest, SweepSkips, SweepResolved, CancelTaken, CancelRaises,
     RecordDrop, RecordDropFact, SweepDone, MarkExecutionRuns, book, broker
<1>6. ASSUME \/ ExecutePMRun \/ Refresh \/ ReadFlags \/ WriteFlag \/ WriteConflicts
             \/ FlagsDone \/ SubmitDies \/ Crash
      PROVE  UNCHANGED <<held, graphQty, snapshot, linked>>
  BY <1>6 DEF ExecutePMRun, Refresh, ReadFlags, WriteFlag, WriteConflicts, FlagsDone, SubmitDies,
     Crash, book, broker
<1>7. ASSUME HumanResolves \/ UNCHANGED vars \/ \E o \in Orders : Ends(o)
      PROVE  UNCHANGED <<held, graphQty, snapshot, linked>>
  BY <1>7 DEF HumanResolves, vars, Ends, book, broker
<1> QED
  BY <1>1, <1>2, <1>3, <1>4, <1>s, <1>5, <1>6, <1>7 DEF Next, Reconcile

-----------------------------------------------------------------------------
(* Sequences of writes *)

\* The sequence of a finite set lists its elements.
LEMMA ListOfSet ==
  ASSUME NEW S, IsFiniteSet(S)
  PROVE  \E n \in Nat : /\ SetToSeq(S) \in [1..n -> S]
                        /\ S = {SetToSeq(S)[i] : i \in 1..n}
<1> DEFINE n == Cardinality(S)
           s == SetToSeq(S)
<1>1. n \in Nat /\ ExistsBijection(1..n, S)
  BY FS_CardinalityType, Zenon
<1> HIDE DEF n
<1>2. \E f \in [1..n -> S] : IsInjective(f)
  BY <1>1, Zenon DEF ExistsBijection, Bijection, Injection
<1>3. s \in [1..n -> S] /\ IsInjective(s)
  BY <1>2, Zenon DEF SetToSeq, n
<1> HIDE DEF s
<1>4. s \in Injection(1..n, S)
  BY <1>3 DEF Injection
<1>5. Cardinality(1..n) = n
  <2>1. Cardinality(1..n) = IF 1 > n THEN 0 ELSE n - 1 + 1
    BY <1>1, FS_Interval
  <2> QED
    BY <1>1, <2>1
<1>6. s \in Surjection(1..n, S)
  BY <1>4, <1>5, FS_Injection, Zenon DEF n
<1>7. S = {s[i] : i \in 1..n}
  BY <1>3, <1>6 DEF Surjection
<1> QED
  BY <1>1, <1>3, <1>7 DEF s

\* A function on 1..n is a sequence of its length.
LEMMA IsSequence ==
  ASSUME NEW T, NEW n \in Nat, NEW f \in [1..n -> T]
  PROVE  f \in Seq(T) /\ Len(f) = n /\ DOMAIN f = 1..n
OBVIOUS

\* Closing a finite set of flags.
LEMMA ClosesAll ==
  ASSUME NEW S \in SUBSET FlagSet, IsFiniteSet(S)
  PROVE  /\ CloseAll(S) \in Seq(OpSet)
         /\ Flagged(CloseAll(S)) = {} /\ Closed(CloseAll(S)) = S
<1> DEFINE s == SetToSeq(S)
           c == CloseAll(S)
<1>1. PICK n \in Nat : s \in [1..n -> S] /\ S = {s[i] : i \in 1..n}
  BY ListOfSet
<1>2. c = [i \in 1..n |-> [op |-> "close", flag |-> s[i]]]
  BY <1>1 DEF CloseAll
<1> HIDE DEF s, c
<1>3. c \in [1..n -> OpSet]
  BY <1>1, <1>2 DEF OpSet
<1>4. c \in Seq(OpSet) /\ DOMAIN c = 1..n
  BY <1>3, IsSequence
<1>5. \A i \in 1..n : c[i].op = "close" /\ c[i].flag = s[i]
  BY <1>2
<1>6. Flagged(c) = {} /\ Closed(c) = S
  BY <1>1, <1>4, <1>5 DEF Flagged, Closed
<1> QED
  BY <1>4, <1>6 DEF c

\* One write, or none.
LEMMA OneWrite ==
  ASSUME NEW f \in FlagSet
  PROVE  /\ <<>> \in Seq(OpSet) /\ Flagged(<<>>) = {} /\ Closed(<<>>) = {}
         /\ Close(f) \in Seq(OpSet) /\ Flagged(Close(f)) = {} /\ Closed(Close(f)) = {f}
         /\ f \notin flags =>
              /\ Write(f) \in Seq(OpSet) /\ Flagged(Write(f)) = {f} /\ Closed(Write(f)) = {}
<1>1. <<>> \in Seq(OpSet) /\ Flagged(<<>>) = {} /\ Closed(<<>>) = {}
  BY DEF Flagged, Closed
<1>2. ASSUME NEW w \in OpSet
      PROVE  /\ <<w>> \in Seq(OpSet) /\ DOMAIN <<w>> = {1} /\ <<w>>[1] = w
  BY <1>2
<1>3. ASSUME NEW w \in OpSet
      PROVE  /\ w.op = "flag" => Flagged(<<w>>) = {w.flag} /\ Closed(<<w>>) = {}
             /\ w.op = "close" => Flagged(<<w>>) = {} /\ Closed(<<w>>) = {w.flag}
  BY <1>2 DEF Flagged, Closed
<1>4. /\ [op |-> "close", flag |-> f] \in OpSet /\ [op |-> "close", flag |-> f].op = "close"
      /\ [op |-> "close", flag |-> f].flag = f
      /\ [op |-> "flag", flag |-> f] \in OpSet /\ [op |-> "flag", flag |-> f].op = "flag"
      /\ [op |-> "flag", flag |-> f].flag = f
  BY DEF OpSet
<1> QED
  BY <1>1, <1>2, <1>3, <1>4 DEF Close, Write

\* Writes one after the other.
LEMMA TwoWrites ==
  ASSUME NEW s \in Seq(OpSet), NEW t \in Seq(OpSet)
  PROVE  /\ s \o t \in Seq(OpSet)
         /\ Flagged(s \o t) = Flagged(s) \cup Flagged(t)
         /\ Closed(s \o t) = Closed(s) \cup Closed(t)
<1> DEFINE u == s \o t
<1>1. /\ u \in Seq(OpSet) /\ Len(u) = Len(s) + Len(t) /\ Len(s) \in Nat /\ Len(t) \in Nat
      /\ DOMAIN u = 1..Len(u) /\ DOMAIN s = 1..Len(s) /\ DOMAIN t = 1..Len(t)
      /\ \A i \in 1..Len(s) : u[i] = s[i]
      /\ \A i \in 1..Len(t) : u[Len(s) + i] = t[i]
  OBVIOUS
<1> HIDE DEF u
<1>2. ASSUME NEW i \in DOMAIN u
      PROVE  (\E j \in DOMAIN s : u[i] = s[j]) \/ (\E j \in DOMAIN t : u[i] = t[j])
  <2>1. CASE i <= Len(s)
    BY <1>1, <2>1
  <2>2. CASE ~(i <= Len(s))
    <3>1. i - Len(s) \in 1..Len(t) /\ i = Len(s) + (i - Len(s))
      BY <1>1, <2>2
    <3> QED
      BY <1>1, <3>1
  <2> QED
    BY <2>1, <2>2
<1>3. /\ \A j \in DOMAIN s : j \in DOMAIN u /\ u[j] = s[j]
      /\ \A j \in DOMAIN t : Len(s) + j \in DOMAIN u /\ u[Len(s) + j] = t[j]
  BY <1>1
<1>4. Flagged(u) = Flagged(s) \cup Flagged(t) /\ Closed(u) = Closed(s) \cup Closed(t)
  BY <1>2, <1>3 DEF Flagged, Closed
<1> QED
  BY <1>1, <1>4 DEF u

\* The first write of several.
LEMMA FirstWrite ==
  ASSUME NEW s \in Seq(OpSet), s # <<>>
  PROVE  /\ Tail(s) \in Seq(OpSet) /\ Head(s) \in OpSet
         /\ Head(s).op = "flag" =>
              Flagged(s) = Flagged(Tail(s)) \cup {Head(s).flag} /\ Closed(s) = Closed(Tail(s))
         /\ Head(s).op = "close" =>
              Closed(s) = Closed(Tail(s)) \cup {Head(s).flag} /\ Flagged(s) = Flagged(Tail(s))
<1>1. /\ Tail(s) \in Seq(OpSet) /\ Head(s) \in OpSet /\ <<Head(s)>> \in Seq(OpSet)
      /\ s = <<Head(s)>> \o Tail(s)
  OBVIOUS
<1>2. /\ Flagged(s) = Flagged(<<Head(s)>>) \cup Flagged(Tail(s))
      /\ Closed(s) = Closed(<<Head(s)>>) \cup Closed(Tail(s))
  BY <1>1, TwoWrites
<1> DEFINE w == Head(s)
<1>3. DOMAIN <<w>> = {1} /\ <<w>>[1] = w
  OBVIOUS
<1> HIDE DEF w
<1>4. /\ w.op = "flag" => Flagged(<<w>>) = {w.flag} /\ Closed(<<w>>) = {}
      /\ w.op = "close" => Flagged(<<w>>) = {} /\ Closed(<<w>>) = {w.flag}
  BY <1>3 DEF Flagged, Closed
<1> QED
  BY <1>1, <1>2, <1>4 DEF w

-----------------------------------------------------------------------------
(* Episodes and their flags *)

\* What a plan for a kind must do: it closes open flags and creates new ones of
\* the kind, never a second of a severity, and leaves exactly one open.
Plan(kind, s) ==
  /\ s \in Seq(OpSet)
  /\ \A f \in Closed(s) : f \in OpenFlags /\ f.kind = kind
  /\ \A f \in Flagged(s) :
       f \in FlagSet \ flags /\ f.kind = kind /\ f.episode <= snapshot.n
  /\ \A f, g \in OpenFlags \cup Flagged(s) :
       f.kind = g.kind /\ f.severity = g.severity => f = g
  /\ \E f : {x \in (OpenFlags \cup Flagged(s)) \ Closed(s) : x.kind = kind} = {f}

\* _advance makes such a plan, whatever an earlier pass left half done.
LEMMA AdvancePlans ==
  ASSUME Holdings, Episodes, Single, ex.pc = "flags", NEW kind \in Kinds
  PROVE  Plan(kind, Advance(kind))
<1>0. /\ flags \subseteq FlagSet /\ resolved \subseteq flags /\ snapshot.n \in Nat
      /\ \A f \in flags : f.episode < snapshot.n
      /\ OpenFlags \subseteq flags
  BY DEF Episodes, Holdings, OpenFlags
<1>1. \A f, g \in OpenFlags : f.kind = g.kind /\ f.severity = g.severity => f = g
  <2>1. Flagged(ex.writes) = {}
    <3>1. ex.writes = <<>>
      BY DEF Episodes
    <3> QED
      BY <3>1 DEF Flagged
  <2> QED
    BY <2>1 DEF Single, OpenFlags
<1>2. \A f \in OpenFlags : f.kind \in Kinds /\ f.severity \in {"warn", "critical"} /\ f.episode \in Nat
                           /\ f.episode < snapshot.n /\ f.episode <= snapshot.n
  <2>1. \A f \in OpenFlags : f.kind \in Kinds /\ f.severity \in {"warn", "critical"} /\ f.episode \in Nat
    BY <1>0 DEF FlagSet
  <2> QED
    BY <1>0, <2>1
<1> DEFINE warns == Open(kind, "warn")
           criticals == Open(kind, "critical")
           warn == CHOOSE f \in warns : TRUE
           critical == [warn EXCEPT !.severity = "critical"]
           new == FlagOf(Subject(kind, snapshot.n), "warn")
<1>3. /\ warns \subseteq OpenFlags /\ criticals \subseteq OpenFlags
      /\ \A f \in OpenFlags : f.kind = kind => f \in warns \/ f \in criticals
      /\ \A f \in warns : f.kind = kind /\ f.severity = "warn"
      /\ \A f \in criticals : f.kind = kind /\ f.severity = "critical"
  BY <1>2 DEF Open
<1>4. warns # {} => warn \in warns
  OBVIOUS
<1>5. /\ new \in FlagSet /\ new \notin flags /\ new.kind = kind /\ new.severity = "warn"
      /\ new.episode = snapshot.n /\ new.episode <= snapshot.n
  <2>1. /\ new \in FlagSet /\ new.kind = kind /\ new.severity = "warn"
        /\ new.episode = snapshot.n
    BY <1>0 DEF FlagOf, Subject, FlagSet
  <2> HIDE DEF new
  <2> QED
    BY <1>0, <2>1
<1>6. warns # {} => /\ critical \in FlagSet /\ critical.kind = kind
                    /\ critical.severity = "critical" /\ critical.episode = warn.episode
  <2>1. ASSUME NEW w \in FlagSet
        PROVE  LET c == [w EXCEPT !.severity = "critical"]
               IN  /\ c \in FlagSet /\ c.kind = w.kind
                   /\ c.severity = "critical" /\ c.episode = w.episode
    BY DEF FlagSet
  <2> QED
    BY <1>0, <1>3, <1>4, <2>1
<1>7. Advance(kind) =
        CASE warns = {} /\ criticals = {} -> Write(new)
          [] warns = {} /\ criticals # {} -> <<>>
          [] warns # {} /\ criticals # {} -> Close(warn)
          [] warns # {} /\ criticals = {} ->
               IF warn = new \/ critical \in flags THEN <<>>
               ELSE Write(critical) \o Close(warn)
  BY DEF Advance
<1>9. /\ <<>> \in Seq(OpSet) /\ Flagged(<<>>) = {} /\ Closed(<<>>) = {}
  BY <1>5, OneWrite
<1> HIDE DEF warns, criticals, warn, critical, new
<1>10. \/ Advance(kind) = Write(new) /\ warns = {} /\ criticals = {}
       \/ Advance(kind) = <<>> /\ warns = {} /\ criticals # {}
       \/ Advance(kind) = Close(warn) /\ warns # {} /\ criticals # {}
       \/ Advance(kind) = <<>> /\ warns # {} /\ criticals = {}
       \/ /\ Advance(kind) = Write(critical) \o Close(warn) /\ warns # {} /\ criticals = {}
          /\ critical \notin flags
  BY <1>7
<1> DEFINE a == Advance(kind)
<1>11. CASE a = Write(new) /\ warns = {} /\ criticals = {}
  <2>1. a \in Seq(OpSet) /\ Flagged(a) = {new} /\ Closed(a) = {}
    BY <1>5, <1>11, OneWrite
  <2> HIDE DEF a
  <2>2. \A f \in OpenFlags : f.kind # kind
    BY <1>3, <1>11
  <2> QED
    BY <1>1, <1>5, <2>1, <2>2 DEF Plan, a
<1>12. CASE a = <<>> /\ warns = {} /\ criticals # {}
  <2>0. PICK c : c \in criticals
    BY <1>12
  <2> HIDE DEF a
  <2>1. \A f \in OpenFlags : f.kind = kind => f = c
    BY <1>1, <1>3, <1>12, <2>0
  <2>2. c \in OpenFlags /\ c.kind = kind
    BY <1>3, <2>0
  <2> QED
    BY <1>1, <1>9, <1>12, <2>1, <2>2 DEF Plan, a
<1>13. CASE a = Close(warn) /\ warns # {} /\ criticals # {}
  <2>0. PICK c : c \in criticals
    BY <1>13
  <2>3. warn \in OpenFlags /\ warn.kind = kind /\ warn.severity = "warn" /\ warn \in FlagSet
    BY <1>0, <1>3, <1>4, <1>13
  <2>4. a \in Seq(OpSet) /\ Flagged(a) = {} /\ Closed(a) = {warn}
    BY <1>13, <2>3, OneWrite
  <2> HIDE DEF a
  <2>2. c \in OpenFlags /\ c.kind = kind /\ c.severity = "critical"
    BY <1>3, <2>0
  <2>1. \A f \in OpenFlags : f.kind = kind => f = c \/ f = warn
    BY <1>1, <1>3, <2>2, <2>3
  <2>5. c # warn
    BY <2>2, <2>3
  <2>6. {x \in OpenFlags \ {warn} : x.kind = kind} = {c}
    BY <2>1, <2>2, <2>5
  <2> QED
    BY <1>1, <2>3, <2>4, <2>6 DEF Plan, a
<1>14. CASE a = <<>> /\ warns # {} /\ criticals = {}
  <2> HIDE DEF a
  <2>1. \A f \in OpenFlags : f.kind = kind => f = warn
    BY <1>1, <1>3, <1>4, <1>14
  <2>2. warn \in OpenFlags /\ warn.kind = kind
    BY <1>3, <1>4, <1>14
  <2> QED
    BY <1>1, <1>9, <1>14, <2>1, <2>2 DEF Plan, a
<1>15. CASE /\ a = Write(critical) \o Close(warn) /\ warns # {} /\ criticals = {}
            /\ critical \notin flags
  <2>1. /\ warn \in OpenFlags /\ warn.kind = kind /\ warn \in FlagSet
        /\ warn.episode <= snapshot.n
    BY <1>0, <1>2, <1>3, <1>4, <1>15
  <2>2. /\ critical \in FlagSet \ flags /\ critical.kind = kind
        /\ critical.severity = "critical" /\ critical.episode <= snapshot.n
    BY <1>6, <1>15, <2>1
  <2>3. /\ Write(critical) \in Seq(OpSet) /\ Flagged(Write(critical)) = {critical}
        /\ Closed(Write(critical)) = {}
        /\ Close(warn) \in Seq(OpSet) /\ Flagged(Close(warn)) = {} /\ Closed(Close(warn)) = {warn}
    BY <2>1, <2>2, OneWrite
  <2>4. a \in Seq(OpSet) /\ Flagged(a) = {critical} /\ Closed(a) = {warn}
    <3>1. /\ Write(critical) \o Close(warn) \in Seq(OpSet)
          /\ Flagged(Write(critical) \o Close(warn)) = {critical} \cup {}
          /\ Closed(Write(critical) \o Close(warn)) = {} \cup {warn}
      BY <2>3, TwoWrites
    <3> HIDE DEF a
    <3> QED
      BY <1>15, <3>1
  <2> HIDE DEF a
  <2>5. \A f \in OpenFlags : f.kind = kind => f = warn
    BY <1>1, <1>3, <1>4, <1>15
  <2>6. critical # warn /\ critical \notin OpenFlags /\ warn.severity = "warn"
    BY <1>0, <1>3, <1>4, <1>15, <2>1, <2>2
  <2>7. \A f, g \in OpenFlags \cup {critical} :
          f.kind = g.kind /\ f.severity = g.severity => f = g
    BY <1>1, <2>2, <2>5, <2>6
  <2> QED
    BY <2>1, <2>2, <2>4, <2>5, <2>6, <2>7 DEF Plan, a
<1> QED
  BY <1>10, <1>11, <1>12, <1>13, <1>14, <1>15

\* The steps that neither read nor write flags leave nothing to write.
LEMMA FlagsQuiet ==
  ASSUME Holdings, Holdings', Episodes, Single, UNCHANGED episodes,
         ex'.writes = <<>>, ex'.pc # "write", snapshot.n <= snapshot'.n,
         ex'.pc = "flags" => snapshot'.n = snapshot.n + 1
  PROVE  Episodes' /\ Single' /\ Settled'
<1>0. /\ flags \subseteq FlagSet /\ IsFiniteSet(flags)
      /\ resolved \subseteq flags /\ byHuman \subseteq resolved
      /\ \A f \in flags : f.episode <= snapshot.n /\ f.episode \in Nat
      /\ snapshot.n \in Nat /\ snapshot'.n \in Nat
      /\ UNCHANGED <<flags, resolved, byHuman>>
  BY DEF Episodes, Holdings, FlagSet, episodes
<1>1. Flagged(ex'.writes) = {} /\ Closed(ex'.writes) = {} /\ ex'.writes \in Seq(OpSet)
  BY DEF Flagged, Closed
<1>2. /\ \A f \in flags : f.episode <= snapshot'.n
      /\ ex'.pc = "flags" => \A f \in flags : f.episode < snapshot'.n
  BY <1>0
<1>3. Episodes'
  BY <1>0, <1>1, <1>2 DEF Episodes
<1>4. Single'
  BY <1>0, <1>1 DEF Single
<1> QED
  BY <1>3, <1>4 DEF Settled

\* The steps that leave the flags and the agent's plan alone.
LEMMA FlagsFrame ==
  ASSUME Shaped, Episodes, [Next]_vars, ~ReadFlags, ~WriteFlag, ~HumanResolves
  PROVE  /\ UNCHANGED episodes
         /\ \/ UNCHANGED <<ex, snapshot>>
            \/ /\ ex'.writes = <<>> /\ ex'.pc # "write"
               /\ \/ snapshot' = snapshot /\ ex'.pc # "flags"
                  \/ snapshot'.n = snapshot.n + 1
<1>i. Idle.pc = "idle" /\ Idle.writes = <<>> /\ Idle = [f \in Fields |-> Idle[f]]
  BY IdleFields
<1>w. ex.pc # "write" => ex.writes = <<>>
  BY DEF Episodes
<1> HIDE DEF Idle
<1>1. CASE SyncRunRequest
  <2>1. PICK r, t, l :
          \/ ex' = [Idle EXCEPT !.pc = "sweep", !.run = r, !.sweeping = TRUE,
                                !.todo = t, !.listed = l]
          \/ ex' = [Idle EXCEPT !.pc = "refresh", !.run = r, !.sweeping = TRUE]
    BY <1>1 DEF SyncRunRequest
  <2>2. ex'.writes = <<>> /\ ex'.pc \in {"sweep", "refresh"}
    BY <1>i, <2>1 DEF Fields
  <2> QED
    BY <1>1, <2>2 DEF SyncRunRequest, book
<1>2. CASE SweepSkips \/ SweepResolved \/ CancelTaken \/ CancelRaises
  <2>1. ex'.writes = ex.writes /\ ex'.pc \in {"sweep", "drop"}
    BY <1>2 DEF SweepSkips, SweepResolved, CancelTaken, CancelRaises, NotRecorded, Shaped, Fields
  <2>2. UNCHANGED episodes /\ snapshot' = snapshot /\ ex.pc = "sweep"
    BY <1>2 DEF SweepSkips, SweepResolved, CancelTaken, CancelRaises, book
  <2> QED
    BY <1>w, <2>1, <2>2
<1>3. CASE RecordDrop \/ RecordDropFact \/ SweepDone
  <2>1. ex'.writes = ex.writes /\ ex'.pc \in {"sweep", "dropfact", "mark"}
    BY <1>3 DEF RecordDrop, RecordDropFact, SweepDone, Shaped, Fields
  <2>2. UNCHANGED episodes /\ snapshot' = snapshot /\ ex.pc # "write"
    BY <1>3 DEF RecordDrop, RecordDropFact, SweepDone, book
  <2> QED
    BY <1>w, <2>1, <2>2
<1>4. CASE MarkExecutionRuns \/ ExecutePMRun
  <2>1. ex'.writes = <<>> /\ ex'.pc = "refresh"
    BY <1>i, <1>4 DEF MarkExecutionRuns, ExecutePMRun, Fields
  <2>2. UNCHANGED episodes /\ snapshot' = snapshot
    BY <1>4 DEF MarkExecutionRuns, ExecutePMRun, book
  <2> QED
    BY <2>1, <2>2
<1>5. CASE WriteConflicts \/ Link \/ Submit \/ SubmitDies \/ Crash
  BY <1>i, <1>5 DEF WriteConflicts, Link, Submit, SubmitDies, Crash, book
<1>6. CASE Refresh \/ FlagsDone
  <2>1. ex'.writes = ex.writes /\ ex'.pc \in {"snapshot", "done"}
    BY <1>6 DEF Refresh, FlagsDone, Shaped, Fields
  <2>2. UNCHANGED episodes /\ snapshot' = snapshot /\ ex.writes = <<>>
    BY <1>6, <1>w DEF Refresh, FlagsDone, book
  <2> QED
    BY <2>1, <2>2
<1>7. CASE Snapshot
  <2>1. ex'.writes = ex.writes /\ ex.writes = <<>> /\ UNCHANGED episodes
    BY <1>7, <1>w DEF Snapshot, Shaped, Fields
  <2>2. \/ snapshot'.n = snapshot.n + 1 /\ ex'.pc = "flags"
        \/ snapshot' = snapshot /\ ex'.pc = "done"
    <3>1. \/ /\ snapshot' = [n |-> snapshot.n + 1, q |-> held]
             /\ ex' = [ex EXCEPT !.pc = "flags", !.fresh = TRUE]
          \/ snapshot' = snapshot /\ ex' = [ex EXCEPT !.pc = "done"]
      BY <1>7 DEF Snapshot
    <3>2. ASSUME snapshot' = [n |-> snapshot.n + 1, q |-> held]
          PROVE  snapshot'.n = snapshot.n + 1
      BY <3>2
    <3>3. /\ ex' = [ex EXCEPT !.pc = "flags", !.fresh = TRUE] => ex'.pc = "flags"
          /\ ex' = [ex EXCEPT !.pc = "done"] => ex'.pc = "done"
      BY DEF Shaped, Fields
    <3> QED
      BY <3>1, <3>2, <3>3
  <2> QED
    BY <2>1, <2>2
<1>8. CASE MonitorAdopts \/ UNCHANGED vars \/ \E o \in Orders : Trades(o) \/ Ends(o)
  BY <1>8 DEF MonitorAdopts, Trades, Ends, vars, book, episodes
<1> QED
  BY <1>1, <1>2, <1>3, <1>4, <1>5, <1>6, <1>7, <1>8 DEF Next, Sweep, Reconcile

\* record_divergences reads the flags: its writes are a plan for the live kind,
\* and close what is open of the others.
LEMMA FlagsRead ==
  ASSUME Shaped, Holdings, Episodes, Single, ReadFlags
  PROVE  Episodes' /\ Single' /\ Settled'
<1> DEFINE d == Divergence
           gone == {f \in OpenFlags : f.kind # d}
           a == IF d = "none" THEN <<>> ELSE Advance(d)
           w == a \o CloseAll(gone)
<1>0. /\ flags \subseteq FlagSet /\ IsFiniteSet(flags)
      /\ resolved \subseteq flags /\ byHuman \subseteq resolved
      /\ \A f \in flags : f.episode <= snapshot.n
      /\ ex.pc = "flags" /\ ex.writes = <<>>
      /\ UNCHANGED <<flags, resolved, byHuman, snapshot>>
  BY DEF ReadFlags, Episodes, episodes, book
<1>1. ex'.pc = "write" /\ ex'.div = d /\ ex'.closed = resolved /\ ex'.writes = w
  <2>1. ex' = [ex EXCEPT !.pc = "write", !.div = d, !.closed = resolved, !.writes = w]
    BY DEF ReadFlags
  <2> HIDE DEF d, w
  <2> QED
    BY <2>1 DEF Shaped, Fields
<1>2. d \in Kinds \cup {"none"}
  BY DEF Divergence, Kinds
<1>3. \A f \in OpenFlags : f \in flags /\ f \notin resolved /\ f.kind \in Kinds
  BY <1>0 DEF OpenFlags, FlagSet
<1>4. /\ CloseAll(gone) \in Seq(OpSet)
      /\ Flagged(CloseAll(gone)) = {} /\ Closed(CloseAll(gone)) = gone
  <2>1. gone \subseteq flags /\ gone \in SUBSET FlagSet
    BY <1>0, <1>3
  <2>2. IsFiniteSet(gone)
    BY <1>0, <2>1, FS_Subset, Zenon
  <2> QED
    BY <2>1, <2>2, ClosesAll
<1>5. /\ a \in Seq(OpSet)
      /\ \A f \in Closed(a) : f \in OpenFlags /\ f.kind = d
      /\ \A f \in Flagged(a) :
           f \in FlagSet \ flags /\ f.kind = d /\ f.episode <= snapshot.n
      /\ \A f, g \in OpenFlags \cup Flagged(a) :
           f.kind = g.kind /\ f.severity = g.severity => f = g
      /\ d \in Kinds =>
           \E f : {x \in (OpenFlags \cup Flagged(a)) \ Closed(a) : x.kind = d} = {f}
  <2>1. CASE d = "none"
    <3>1. a = <<>> /\ d \notin Kinds
      BY <2>1 DEF Kinds
    <3>2. Flagged(<<>>) = {} /\ Closed(<<>>) = {} /\ <<>> \in Seq(OpSet)
      BY DEF Flagged, Closed
    <3>3. \A f, g \in OpenFlags : f.kind = g.kind /\ f.severity = g.severity => f = g
      BY <1>0, <3>2 DEF Single, OpenFlags
    <3> HIDE DEF a, d
    <3> QED
      BY <3>1, <3>2, <3>3
  <2>2. CASE d # "none"
    <3>1. a = Advance(d) /\ d \in Kinds
      BY <1>2, <2>2
    <3> HIDE DEF a, d
    <3>2. Plan(d, a)
      BY <1>0, <3>1, AdvancePlans
    <3> QED
      BY <3>2 DEF Plan
  <2> QED
    BY <2>1, <2>2
<1> HIDE DEF a, d
<1>6. /\ w \in Seq(OpSet) /\ Flagged(w) = Flagged(a) /\ Closed(w) = Closed(a) \cup gone
  <2> DEFINE c == CloseAll(gone)
  <2>1. c \in Seq(OpSet) /\ Flagged(c) = {} /\ Closed(c) = gone /\ w = a \o c
    BY <1>4
  <2> HIDE DEF c, w, gone
  <2>2. a \in Seq(OpSet)
    BY <1>5
  <2>3. /\ a \o c \in Seq(OpSet) /\ Flagged(a \o c) = Flagged(a) \cup Flagged(c)
        /\ Closed(a \o c) = Closed(a) \cup Closed(c)
    BY <2>1, <2>2, TwoWrites
  <2> QED
    BY <2>1, <2>3
<1> HIDE DEF w, gone
<1>g. /\ \A f \in gone : f \in OpenFlags /\ f.kind # d
      /\ \A f \in OpenFlags : f.kind # d => f \in gone
  BY DEF gone
<1>7. Episodes'
  <2>1. Closed(w) \subseteq flags
    BY <1>3, <1>5, <1>6, <1>g
  <2>2. \A f \in flags \cup Flagged(w) : f.episode <= snapshot.n
    BY <1>0, <1>5, <1>6
  <2> QED
    BY <1>0, <1>1, <1>6, <2>1, <2>2 DEF Episodes
<1>8. (flags \cup Flagged(w)) \ resolved = OpenFlags \cup Flagged(a)
  BY <1>0, <1>5, <1>6 DEF OpenFlags
<1>9. Single'
  BY <1>0, <1>1, <1>5, <1>8 DEF Single
<1>10. Settled'
  <2>1. \A k \in Kinds : Outcome(k)' = {f \in (OpenFlags \cup Flagged(a)) \ Closed(w) : f.kind = k}
    BY <1>0, <1>1, <1>8 DEF Outcome
  <2>2. ASSUME NEW k \in Kinds, k # d
        PROVE  Outcome(k)' = {}
    BY <1>5, <1>6, <1>g, <2>1, <2>2
  <2>3. ASSUME NEW k \in Kinds, k = d
        PROVE  \E f : Outcome(k)' = {f}
    <3>1. Outcome(k)' = {x \in (OpenFlags \cup Flagged(a)) \ Closed(a) : x.kind = d}
      BY <1>6, <1>g, <2>1, <2>3
    <3> QED
      BY <1>5, <2>3, <3>1
  <2>4. \A k \in Kinds : (k # d => Outcome(k)' = {}) /\ (k = d => \E f : Outcome(k)' = {f})
    BY <2>2, <2>3
  <2> QED
    BY <1>0, <1>1, <2>4 DEF Settled
<1> QED
  BY <1>7, <1>9, <1>10

\* One write moves a flag from the plan to the graph.
LEMMA FlagsWrite ==
  ASSUME Shaped, Episodes, Single, Settled, WriteFlag
  PROVE  Episodes' /\ Single' /\ Settled'
<1> DEFINE s == ex.writes
           f == Head(s).flag
<1>0. /\ ex.pc = "write" /\ s # <<>> /\ s \in Seq(OpSet)
      /\ flags \subseteq FlagSet /\ IsFiniteSet(flags)
      /\ resolved \subseteq flags /\ byHuman \subseteq resolved /\ Closed(s) \subseteq flags
      /\ \A x \in flags \cup Flagged(s) : x.episode <= snapshot.n
      /\ UNCHANGED <<byHuman, snapshot>>
  BY DEF WriteFlag, Episodes, book
<1>1. /\ ex'.pc = "write" /\ ex'.div = ex.div /\ ex'.closed = ex.closed /\ ex'.writes = Tail(s)
  BY <1>0 DEF WriteFlag, Shaped, Fields
<1>2. /\ Tail(s) \in Seq(OpSet) /\ f \in FlagSet
      /\ Head(s).op = "flag" =>
              Flagged(s) = Flagged(Tail(s)) \cup {f} /\ Closed(s) = Closed(Tail(s))
      /\ Head(s).op = "close" =>
              Closed(s) = Closed(Tail(s)) \cup {f} /\ Flagged(s) = Flagged(Tail(s))
  <2>1. Head(s) \in OpSet
    BY <1>0, FirstWrite
  <2>2. f \in FlagSet
    BY <2>1 DEF OpSet
  <2> QED
    BY <1>0, <2>2, FirstWrite
<1>3. \/ Head(s).op = "flag" /\ flags' = flags \cup {f} /\ resolved' = resolved
      \/ Head(s).op = "close" /\ resolved' = resolved \cup {f} /\ flags' = flags
  BY DEF WriteFlag
<1> HIDE DEF s, f
<1>4. /\ flags' \cup Flagged(Tail(s)) = flags \cup Flagged(s)
      /\ resolved' \cup Closed(Tail(s)) = resolved \cup Closed(s)
      /\ resolved \subseteq resolved'
  BY <1>2, <1>3
<1>5. Episodes'
  <2>1. flags' \subseteq FlagSet /\ resolved' \subseteq flags' /\ byHuman' \subseteq resolved'
        /\ Closed(Tail(s)) \subseteq flags'
    BY <1>0, <1>2, <1>3
  <2>2. IsFiniteSet(flags')
    BY <1>0, <1>3, FS_AddElement, Zenon
  <2>3. \A x \in flags' \cup Flagged(Tail(s)) : x.episode <= snapshot'.n
    BY <1>0, <1>4
  <2> QED
    BY <1>1, <1>2, <2>1, <2>2, <2>3 DEF Episodes
<1>6. Single'
  BY <1>1, <1>4 DEF Single, s
<1>7. \A k : Outcome(k)' = Outcome(k)
  BY <1>1, <1>4 DEF Outcome, s
<1>8. Settled'
  BY <1>0, <1>1, <1>4, <1>7 DEF Settled
<1> QED
  BY <1>5, <1>6, <1>8

\* A human closes an open flag: what was to stay open may then be closed by hand.
LEMMA FlagsHuman ==
  ASSUME Shaped, Episodes, Single, Settled, HumanResolves
  PROVE  Episodes' /\ Single' /\ Settled'
<1>0. /\ flags \subseteq FlagSet /\ IsFiniteSet(flags)
      /\ resolved \subseteq flags /\ byHuman \subseteq resolved
  BY DEF Episodes
<1>1. PICK f \in OpenFlags : resolved' = resolved \cup {f} /\ byHuman' = byHuman \cup {f}
  BY DEF HumanResolves
<1>2. UNCHANGED <<flags, ex, snapshot>> /\ f \in flags /\ f \notin resolved
  BY DEF HumanResolves, book, OpenFlags
<1>3. Episodes' /\ Single'
  BY <1>0, <1>1, <1>2 DEF Episodes, Single
<1>4. Settled'
  <2> SUFFICES ASSUME ex.pc = "write"
               PROVE  Settled'
    BY <1>2 DEF Settled
  <2>1. \A k : Outcome(k)' = Outcome(k) \ {f}
    BY <1>1, <1>2 DEF Outcome
  <2>2. ex.closed \subseteq resolved /\ f \notin ex.closed
    BY <1>2 DEF Settled
  <2>3. ASSUME NEW k \in Kinds, k # ex.div
        PROVE  Outcome(k)' = {}
    BY <2>1, <2>3 DEF Settled
  <2>4. ASSUME NEW k \in Kinds, k = ex.div
        PROVE  \/ \E g : Outcome(k)' = {g}
               \/ Outcome(k)' = {} /\ \E g \in byHuman' \ ex.closed : g.kind = k
    <3>1. CASE \E g : Outcome(k) = {g}
      <4>1. PICK g : Outcome(k) = {g}
        BY <3>1
      <4>2. g.kind = k
        BY <4>1 DEF Outcome
      <4> QED
        BY <1>1, <2>1, <2>2, <4>1, <4>2
    <3>2. CASE Outcome(k) = {} /\ \E g \in byHuman \ ex.closed : g.kind = k
      BY <1>1, <2>1, <3>2
    <3> QED
      BY <2>4, <3>1, <3>2 DEF Settled
  <2> QED
    BY <1>1, <1>2, <2>2, <2>3, <2>4 DEF Settled
<1> QED
  BY <1>3, <1>4

-----------------------------------------------------------------------------
(* The theorems *)

\* All of it together.  What was listed may be stale when it is used, so Listing
\* keeps only what cannot become false; the flags are read once and written one
\* by one, so Settled speaks of what will be open when the writes are done, and
\* Single of every point at which they may be cut short.
Inductive ==
  /\ Shaped /\ Orderly /\ Filed /\ Ordered /\ Listing /\ Dropping /\ Holdings
  /\ Episodes /\ Single /\ Settled /\ StopsSurviveSweeps /\ DroppedIsOver

\* The inductive invariant holds before the first run.
LEMMA InitInductive ==
  ASSUME OrdersAssumption, Init
  PROVE  Inductive
<1>0. ex.pc = "idle" /\ ex.writes = <<>> /\ Shaped
  <2>1. ex = Idle
    BY DEF Init
  <2> QED
    BY <2>1, IdleFields DEF Shaped
<1>1. Orderly
  <2>1. [st |-> "none", got |-> 0] \in [st: {"none", "open", "canceling", "over"}, got: 0..Whole]
    BY DEF Whole
  <2> QED
    BY <2>1 DEF Orderly, Init
<1>2. Filed /\ Ordered
  BY <1>0 DEF Filed, Ordered, Init
<1>3. Listing /\ Dropping /\ Settled
  BY <1>0 DEF Listing, Dropping, Settled, Sweeping
<1>4. Holdings
  BY DEF Holdings, Init, NoHolding
<1>5. Episodes /\ Single
  <2>1. Flagged(<<>>) = {} /\ Closed(<<>>) = {} /\ <<>> \in Seq(OpSet)
    BY DEF Flagged, Closed
  <2>2. IsFiniteSet(flags) /\ flags = {} /\ resolved = {} /\ byHuman = {}
    BY FS_EmptySet DEF Init
  <2> QED
    BY <1>0, <2>1, <2>2 DEF Episodes, Single
<1>6. StopsSurviveSweeps /\ DroppedIsOver
  BY DEF StopsSurviveSweeps, DroppedIsOver, Init, OrdersAssumption
<1> QED
  BY <1>0, <1>1, <1>2, <1>3, <1>4, <1>5, <1>6 DEF Inductive

\* Each step keeps it.
LEMMA StepInductive ==
  ASSUME OrdersAssumption, Inductive, [Next]_vars
  PROVE  Inductive'
<1>0. /\ Shaped /\ Orderly /\ Filed /\ Ordered /\ Listing /\ Dropping /\ Holdings
      /\ Episodes /\ Single /\ Settled /\ StopsSurviveSweeps /\ DroppedIsOver
  BY DEF Inductive
<1>1. Shaped' /\ Orderly' /\ Onward
  BY <1>0, ShapedStep, OrderlyStep
<1>2. Filed' /\ Ordered' /\ Holdings'
  BY <1>0, FiledStep, OrderedStep, HoldingsStep
<1>3. Listing' /\ Dropping' /\ StopsSurviveSweeps' /\ DroppedIsOver'
  BY <1>0, <1>1, SweepStep, DropsStep
<1>4. Episodes' /\ Single' /\ Settled'
  <2>1. CASE ReadFlags
    BY <1>0, <2>1, FlagsRead
  <2>2. CASE WriteFlag
    BY <1>0, <2>2, FlagsWrite
  <2>3. CASE HumanResolves
    BY <1>0, <2>3, FlagsHuman
  <2>4. CASE ~ReadFlags /\ ~WriteFlag /\ ~HumanResolves
    <3>1. /\ UNCHANGED episodes
          /\ \/ UNCHANGED <<ex, snapshot>>
             \/ /\ ex'.writes = <<>> /\ ex'.pc # "write"
                /\ \/ snapshot' = snapshot /\ ex'.pc # "flags"
                   \/ snapshot'.n = snapshot.n + 1
      BY <1>0, <2>4, FlagsFrame
    <3>2. CASE UNCHANGED <<ex, snapshot>>
      <4>1. UNCHANGED <<flags, resolved, byHuman>>
        BY <3>1 DEF episodes
      <4>2. \A k : Outcome(k)' = Outcome(k)
        BY <3>2, <4>1 DEF Outcome
      <4> QED
        BY <1>0, <3>2, <4>1, <4>2 DEF Episodes, Single, Settled
    <3>3. CASE /\ ex'.writes = <<>> /\ ex'.pc # "write"
               /\ \/ snapshot' = snapshot /\ ex'.pc # "flags"
                  \/ snapshot'.n = snapshot.n + 1
      <4>1. snapshot.n \in Nat
        BY <1>0 DEF Holdings
      <4>2. snapshot.n <= snapshot'.n
        BY <3>3, <4>1
      <4> QED
        BY <1>0, <1>2, <3>1, <3>3, <4>2, FlagsQuiet
    <3> QED
      BY <3>1, <3>2, <3>3
  <2> QED
    BY <2>1, <2>2, <2>3, <2>4
<1> QED
  BY <1>1, <1>2, <1>3, <1>4 DEF Inductive

\* Every state of a run start satisfies the inductive invariant.
THEOREM RunStartInvariant == Spec => []Inductive
<1>1. Init => Inductive
  BY OrdersAssumption, InitInductive
<1>2. Inductive /\ [Next]_vars => Inductive'
  BY OrdersAssumption, StepInductive
<1> QED
  BY <1>1, <1>2, PTL DEF Spec

\* The types, and where evidence may be.
THEOREM RunStartTypes == Spec => []TypeOK
<1>1. ASSUME Inductive PROVE TypeOK
  <2>1. \A o \in Orders : order[o].got \in 0..Whole
    BY <1>1 DEF Inductive, Orderly
  <2> QED
    BY <1>1, <2>1 DEF Inductive, Filed, Ordered, Holdings, Episodes, TypeOK
<1> QED
  BY <1>1, RunStartInvariant, PTL

\* No sweep cancels or drops a protective stop.
THEOREM RunStartStops == Spec => []StopsSurviveSweeps
<1>1. Inductive => StopsSurviveSweeps
  BY DEF Inductive
<1> QED
  BY <1>1, RunStartInvariant, PTL

\* A dropped decision no longer works at the broker.
THEOREM RunStartDrops == Spec => []DroppedIsOver
<1>1. Inductive => DroppedIsOver
  BY DEF Inductive
<1> QED
  BY <1>1, RunStartInvariant, PTL

\* ADR-0018: a sweep leaves no order of an earlier run working, but for one that
\* had traded in part or was reported.
THEOREM RunStartSweeps == Spec => []NothingLeftWorking
<1>1. ASSUME Inductive PROVE NothingLeftWorking
  <2>1. Listing /\ Orderly
    BY <1>1 DEF Inductive
  <2> SUFFICES ASSUME ex.pc = "mark", NEW o \in DOMAIN ex.listed \ (Stops \cup ex.failed),
                      order[o].st = "open"
               PROVE  RunOf[o] >= ex.run \/ ex.listed[o] = "partial"
    BY DEF NothingLeftWorking
  <2>2. ~Off(o)
    BY DEF Off
  <2> QED
    BY <2>1, <2>2 DEF Listing, Sweeping
<1> QED
  BY <1>1, RunStartInvariant, PTL

\* EXEC-OBS-07: when the flags of a snapshot are written, a live divergence has
\* one unresolved flag, or a human closed it meanwhile, and an absent one none.
THEOREM RunStartFlags == Spec => []OneOpenFlag
<1>1. ASSUME Inductive PROVE OneOpenFlag
  <2>1. Settled
    BY <1>1 DEF Inductive
  <2> SUFFICES ASSUME ex.pc = "write", ex.writes = <<>>, NEW kind \in Kinds
               PROVE  IF kind # ex.div THEN {f \in OpenFlags : f.kind = kind} = {}
                      ELSE \/ Cardinality({f \in OpenFlags : f.kind = kind}) = 1
                           \/ /\ {f \in OpenFlags : f.kind = kind} = {}
                              /\ \E f \in byHuman \ ex.closed : f.kind = kind
    BY DEF OneOpenFlag
  <2>2. Flagged(ex.writes) = {} /\ Closed(ex.writes) = {}
    BY DEF Flagged, Closed
  <2> DEFINE open == {f \in OpenFlags : f.kind = kind}
  <2>3. Outcome(kind) = open
    BY <2>2 DEF Outcome, OpenFlags
  <2> HIDE DEF open
  <2>4. IF kind # ex.div THEN open = {}
        ELSE \/ \E f : open = {f}
             \/ open = {} /\ \E f \in byHuman \ ex.closed : f.kind = kind
    BY <2>1, <2>3 DEF Settled
  <2>5. (\E f : open = {f}) => Cardinality(open) = 1
    BY FS_Singleton, Zenon
  <2> QED
    BY <2>4, <2>5 DEF open
<1> QED
  BY <1>1, RunStartInvariant, PTL

=============================================================================
