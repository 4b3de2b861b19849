------------------------ MODULE ExecutionGuardProofs ------------------------
(***************************************************************************)
(* What the execution agent guards: the stops of what is held, and the     *)
(* stage it may trade at.  The two components share nothing.               *)
(*                                                                         *)
(* StopBook.  That a lost stop is found is no invariant by itself: it      *)
(* needs to be known where every order stands whose key the agent ever     *)
(* handed out, so that each one without a fact has the key that is free    *)
(* next, and that a placement in hand still has that key when its fact is  *)
(* written.  What a run may say of a position when it ends rests on the    *)
(* path it came by, and on what its refresh left of the Fills.             *)
(*                                                                         *)
(* StageGate.  StageEarned alone is not inductive: a call writes the stage *)
(* it decided on earlier, so each call in hand carries its own claim, and  *)
(* a flag carries the evidence under which a human was asked.              *)
(***************************************************************************)
EXTENDS StopBook, StageGate, WellFoundedInduction, FiniteSetTheorems, TLAPS

----------------------------------------------------------------------------
(* StopBook *)

\* Values the variables range over.  Sums of prices and quantities stay as they
\* are written, so the sets of bases and prices are the ones they are built by.
Holdings == [q : Nat, entries : SUBSET Runs]
Seen == Holdings \cup {NoSnapshot}
Bases == {Basis(h) : h \in Holdings}
PositionKeys == [run : 0..MaxRuns, basis : Bases]
Refs == SUBSET PositionKeys
StopKeys == [ref : Refs, n : Nat]
Prices == {p \in [basis : {Total(K) : K \in Refs} \cup Bases, width : {"pm", "fallback"}] :
             p.basis.q \in Nat}
StopOrders == [key : StopKeys, price : Prices,
               state : {"open", "canceled", "replaced", "triggered", "ended"}]
Verdicts == {"pending", "filled", "rejected"}
StopFacts == [id : Nat, price : Prices, end : {"no", "cancelled", "replaced"}]
StopFillNodes == [key : StopKeys, id : Nat, said : Verdicts, price : Prices,
                  broker : {"unset", "filled", "rejected"}]
Ordinals == Nat \cup {Max(S) : S \in SUBSET Nat}
Places == {"submitstop", "replace", "stopfill", "fact"}
Steps == Places \cup {"idle", "refresh", "snapshot", "reconcile", "cancel", "mark", "free",
                      "place", "markold", "submit"}
Hands ==
  {e \in [pc : Steps, then : {"idle", "free", "place"},
          todo : SUBSET [ref : Refs, n : Ordinals], seen : Seen, over : SUBSET Nat,
          freed : BOOLEAN, key : StopKeys, price : Prices,
          answer : [id : Nat, said : Verdicts], told : BOOLEAN] :
     e.pc \in {"cancel", "mark"} => e.todo \subseteq StopKeys}
Decisions == [run : 0..MaxRuns, action : {"none", "buy", "sell"}, ref : Refs,
              phase : {"linked", "synced", "decided"}]

\* Types of what the broker holds.
BrokerTypes ==
  /\ held \in Holdings
  /\ entries \in [Runs -> {"none", "open", "filled", "ended"}]
  /\ stops \in Seq(StopOrders)
  /\ DOMAIN exit \subseteq Refs /\ exit \in [DOMAIN exit -> {"open", "filled", "ended"}]

\* Types of what the graph holds.
GraphTypes ==
  /\ positions \subseteq PositionKeys /\ inactive \subseteq positions
  /\ adopting \subseteq positions
  /\ entryFill \in [Runs -> {"none", "filled", "pending", "settled", "rejected"}]
  /\ exitFill \in [DOMAIN exitFill -> Verdicts]
  /\ stopFills \in [DOMAIN stopFills -> StopFillNodes]
  /\ DOMAIN facts \subseteq StopKeys /\ facts \in [DOMAIN facts -> StopFacts]
  /\ IsFiniteSet(DOMAIN facts)
  /\ snapshot \in Seen /\ linked \in Seen

\* Types of the run in hand.
RunTypes ==
  /\ pm \in Decisions /\ ex \in Hands
  /\ pm.phase = "synced" => pm.run < MaxRuns
  /\ pm.phase = "decided" => pm.run \in Runs
  /\ ex.pc # "idle" => pm.phase = "decided"

\* The parts of a record built from a field each.
LEMMA FlatBasis == Basis(Flat).q = 0 /\ Flat \in Holdings
<1>1. Flat.q = 0 /\ Flat \in Holdings
  BY DEF Flat, Holdings
<1>2. \A a, b, c : [q |-> a, n |-> b, cost |-> c].q = a
  OBVIOUS
<1>3. Basis(Flat).q = Flat.q
  BY <1>2, Zenon DEF Basis
<1> QED
  BY <1>1, <1>3

LEMMA IdleType == Idle \in Hands /\ Idle.pc = "idle"
<1>1. NoKey \in StopKeys
  BY DEF NoKey, NoRef, StopKeys, Refs
<1>2. NoPrice \in Prices
  <2>1. Basis(Flat) \in Bases /\ Basis(Flat).q \in Nat
    BY FlatBasis DEF Bases
  <2> HIDE DEF Basis
  <2> QED
    BY <2>1 DEF NoPrice, Prices
<1>3. NoAnswer \in [id : Nat, said : Verdicts]
  BY DEF NoAnswer, Verdicts
<1>4. NoSnapshot \in Seen
  BY DEF Seen
<1> QED
  BY <1>1, <1>2, <1>3, <1>4 DEF Idle, Hands, Steps, Places

\* Everything starts flat, empty and idle.
LEMMA TypesInit == Init => BrokerTypes /\ GraphTypes /\ RunTypes
<1> SUFFICES ASSUME Init PROVE BrokerTypes /\ GraphTypes /\ RunTypes
  OBVIOUS
<1>0. DOMAIN <<>> = {} /\ <<>> \in Seq(StopOrders)
  OBVIOUS
<1>1. BrokerTypes
  <2>1. exit \in [DOMAIN exit -> {"open", "filled", "ended"}]
    BY <1>0 DEF Init
  <2> QED
    BY <1>0, <2>1, FlatBasis DEF Init, BrokerTypes
<1>2. GraphTypes
  <2>1. IsFiniteSet(DOMAIN facts)
    BY <1>0, FS_EmptySet DEF Init
  <2>2. exitFill \in [DOMAIN exitFill -> Verdicts] /\ stopFills \in [DOMAIN stopFills -> StopFillNodes]
        /\ facts \in [DOMAIN facts -> StopFacts]
    BY <1>0 DEF Init
  <2> QED
    BY <1>0, <2>1, <2>2 DEF Init, GraphTypes, Seen
<1>3. RunTypes
  BY IdleType, RunsAssumption DEF Init, RunTypes, Decisions, Refs, NoRef, Runs
<1> QED
  BY <1>1, <1>2, <1>3

\* The orders s with the one at i at an end.
Ending(s, i, st) == [s EXCEPT ![i].state = st]

\* Ending the order at i leaves every order its key, its price and its place.
LEMMA EndOrder ==
  ASSUME NEW s \in Seq(StopOrders), NEW i,
         NEW st \in {"open", "canceled", "replaced", "triggered", "ended"}
  PROVE  /\ Ending(s, i, st) \in Seq(StopOrders) /\ Len(Ending(s, i, st)) = Len(s)
         /\ DOMAIN Ending(s, i, st) = DOMAIN s
         /\ \A j \in DOMAIN s : /\ Ending(s, i, st)[j].key = s[j].key
                                /\ Ending(s, i, st)[j].price = s[j].price
                                /\ Ending(s, i, st)[j].state = IF j = i THEN st ELSE s[j].state
<1> DEFINE t == Ending(s, i, st)
<1>1. DOMAIN s = 1..Len(s) /\ Len(s) \in Nat /\ \A j \in DOMAIN s : s[j] \in StopOrders
  OBVIOUS
<1>2. /\ t = [j \in DOMAIN s |-> t[j]]
      /\ \A j \in DOMAIN s : t[j] = IF j = i THEN [s[i] EXCEPT !.state = st] ELSE s[j]
  BY DEF Ending
<1>3. \A j \in DOMAIN s : t[j] \in StopOrders /\ t[j].key = s[j].key /\ t[j].price = s[j].price
                          /\ t[j].state = IF j = i THEN st ELSE s[j].state
  BY <1>1, <1>2 DEF StopOrders
<1> HIDE DEF t
<1>4. t \in [1..Len(s) -> StopOrders]
  BY <1>1, <1>2, <1>3
<1>5. t \in Seq(StopOrders) /\ Len(t) = Len(s) /\ DOMAIN t = DOMAIN s
  BY <1>1, <1>4
<1> QED
  BY <1>3, <1>5 DEF t

\* An accepted order is the last one.
LEMMA AppendOrder ==
  ASSUME NEW s \in Seq(StopOrders), NEW o \in StopOrders
  PROVE  LET t == Append(s, o)
         IN  /\ t \in Seq(StopOrders) /\ Len(t) = Len(s) + 1
             /\ DOMAIN t = DOMAIN s \cup {Len(s) + 1} /\ Len(s) + 1 \notin DOMAIN s
             /\ t[Len(s) + 1] = o
             /\ \A j \in DOMAIN s : t[j] = s[j]
<1>1. DOMAIN s = 1..Len(s) /\ DOMAIN Append(s, o) = 1..(Len(s) + 1)
  OBVIOUS
<1> QED
  BY <1>1

\* The order that SubmitStop adds.
LEMMA AcceptedType ==
  ASSUME BrokerTypes, RunTypes
  PROVE  /\ Accepted \in Seq(StopOrders) /\ Len(Accepted) = Len(stops) + 1
         /\ DOMAIN Accepted = DOMAIN stops \cup {Len(stops) + 1} /\ Len(stops) + 1 \notin DOMAIN stops
         /\ Accepted[Len(stops) + 1] = [key |-> ex.key, price |-> ex.price, state |-> "open"]
         /\ \A j \in DOMAIN stops : Accepted[j] = stops[j]
<1>1. [key |-> ex.key, price |-> ex.price, state |-> "open"] \in StopOrders
  BY DEF RunTypes, Hands, StopOrders
<1> QED
  BY <1>1, AppendOrder DEF Accepted, BrokerTypes

\* A replacement adds its order and ends another.
LEMMA ReplacedType ==
  ASSUME BrokerTypes, RunTypes
  PROVE  /\ Replaced \in Seq(StopOrders) /\ Len(Replaced) = Len(stops) + 1
         /\ DOMAIN Replaced = DOMAIN stops \cup {Len(stops) + 1} /\ Len(stops) + 1 \notin DOMAIN stops
         /\ Replaced[Len(stops) + 1].key = ex.key
         /\ \A j \in DOMAIN stops : /\ Replaced[j].key = stops[j].key
                                    /\ stops[j].state # "open" => Replaced[j].state # "open"
<1> DEFINE old == facts[CHOOSE k \in ex.todo : TRUE].id
<1>1. Replaced = Ending(Accepted, old, "replaced")
  BY DEF Replaced, Ending
<1> HIDE DEF old
<1>2. /\ Replaced \in Seq(StopOrders) /\ Len(Replaced) = Len(Accepted)
      /\ DOMAIN Replaced = DOMAIN Accepted
      /\ \A j \in DOMAIN Accepted : /\ Replaced[j].key = Accepted[j].key
                                    /\ Replaced[j].state = IF j = old THEN "replaced"
                                                           ELSE Accepted[j].state
  BY <1>1, AcceptedType, EndOrder
<1>3. Accepted[Len(stops) + 1].key = ex.key
  BY AcceptedType
<1>4. Len(stops) + 1 \in DOMAIN Accepted
  BY AcceptedType
<1> HIDE DEF Accepted
<1>5. ASSUME NEW j \in DOMAIN stops
      PROVE  /\ Replaced[j].key = stops[j].key
             /\ stops[j].state # "open" => Replaced[j].state # "open"
  <2>1. j \in DOMAIN Accepted /\ Accepted[j] = stops[j]
    BY AcceptedType
  <2> QED
    BY <1>2, <2>1
<1>6. Replaced[Len(stops) + 1].key = ex.key
  BY <1>2, <1>3, <1>4
<1> QED
  BY <1>2, <1>5, <1>6, AcceptedType

\* Buying and selling keep a holding a holding.
LEMMA TradeType ==
  ASSUME NEW h \in Holdings
  PROVE  /\ \A r \in Runs : Bought(h, r) \in Holdings
         /\ \A n \in Nat : Sells(h, n) \in Holdings
<1>1. ASSUME NEW r \in Runs PROVE Bought(h, r) \in Holdings
  BY DEF Bought, Holdings
<1>2. ASSUME NEW n \in Nat PROVE Sells(h, n) \in Holdings
  <2>1. CASE n >= h.q
    BY <2>1, FlatBasis DEF Sells
  <2>2. CASE ~(n >= h.q)
    <3>1. h.q - n \in Nat
      BY <2>2 DEF Holdings
    <3> QED
      BY <2>2, <3>1 DEF Sells, Holdings
  <2> QED
    BY <2>1, <2>2
<1> QED
  BY <1>1, <1>2

\* A map with one more or one other entry.
LEMMA PutType ==
  ASSUME NEW f, NEW x, NEW y, NEW S, f \in [DOMAIN f -> S], y \in S
  PROVE  /\ DOMAIN Put(f, x, y) = DOMAIN f \cup {x}
         /\ Put(f, x, y) \in [DOMAIN Put(f, x, y) -> S]
BY DEF Put

\* Every step keeps the types of what the broker holds.
LEMMA BrokerTypesStep ==
  ASSUME BrokerTypes, GraphTypes, RunTypes, Next
  PROVE  BrokerTypes'
<1>1. CASE UNCHANGED broker
  BY <1>1 DEF broker, BrokerTypes
<1>2. ASSUME UNCHANGED <<held, entries, exit>>, stops' \in Seq(StopOrders) PROVE BrokerTypes'
  BY <1>2 DEF BrokerTypes
<1>3. CASE CancelAnswered \/ CancelRaised
  <2>1. stops' = stops \/ \E i : stops' = Ending(stops, i, "canceled")
    BY <1>3 DEF CancelAnswered, CancelRaised, Ending
  <2>2. stops' \in Seq(StopOrders)
    BY <2>1, EndOrder DEF BrokerTypes
  <2> QED
    BY <1>3, <1>2, <2>2 DEF CancelAnswered, CancelRaised
<1>4. CASE SubmitStop \/ SubmitStopLost
  <2>1. stops' = stops \/ stops' = Accepted
    BY <1>4 DEF SubmitStop, SubmitStopLost
  <2> QED
    BY <1>4, <1>2, <2>1, AcceptedType DEF SubmitStop, SubmitStopLost, BrokerTypes
<1>5. CASE ReplaceStop \/ ReplaceRaised
  <2>1. stops' = stops \/ stops' = Replaced
    BY <1>5 DEF ReplaceStop, ReplaceRaised
  <2> QED
    BY <1>5, <1>2, <2>1, ReplacedType DEF ReplaceStop, ReplaceRaised, BrokerTypes
<1>6. CASE SubmitEntry
  <2>1. pm.run \in Runs
    BY <1>6 DEF SubmitEntry, RunTypes
  <2>2. held' \in Holdings
    BY <1>6, <2>1, TradeType DEF SubmitEntry, BrokerTypes
  <2>3. entries' \in [Runs -> {"none", "open", "filled", "ended"}]
    BY <1>6, <2>1 DEF SubmitEntry, BrokerTypes
  <2> QED
    BY <1>6, <2>2, <2>3 DEF SubmitEntry, BrokerTypes
<1>7. CASE SubmitExit
  <2>1. exit' = exit \/ exit' = Put(exit, pm.ref, "open")
    BY <1>7 DEF SubmitExit, WithExit
  <2>2. CASE exit' = exit
    BY <1>7, <2>2 DEF SubmitExit, BrokerTypes
  <2>3. CASE exit' = Put(exit, pm.ref, "open")
    <3> DEFINE S == {"open", "filled", "ended"}
    <3>1. pm.ref \in Refs
      BY DEF RunTypes, Decisions
    <3>2. exit \in [DOMAIN exit -> S] /\ "open" \in S
      BY DEF BrokerTypes
    <3> HIDE DEF S
    <3>3. /\ DOMAIN Put(exit, pm.ref, "open") = DOMAIN exit \cup {pm.ref}
          /\ Put(exit, pm.ref, "open") \in [DOMAIN Put(exit, pm.ref, "open") -> S]
      BY <3>2, PutType, Zenon
    <3>4. DOMAIN exit' = DOMAIN exit \cup {pm.ref} /\ exit' \in [DOMAIN exit' -> S]
      BY <2>3, <3>3, Zenon
    <3> USE DEF S
    <3> QED
      BY <1>7, <3>1, <3>4 DEF SubmitExit, BrokerTypes
  <2> QED
    BY <2>1, <2>2, <2>3
<1>8. ASSUME NEW r \in Runs, EntryMoves(r) PROVE BrokerTypes'
  <2>1. held' \in Holdings
    BY <1>8, TradeType DEF EntryMoves, BrokerTypes
  <2> QED
    BY <1>8, <2>1 DEF EntryMoves, BrokerTypes
<1>9. ASSUME NEW i \in DOMAIN stops, StopMoves(i) PROVE BrokerTypes'
  <2>1. stops[i].price.basis.q \in Nat
    <3>1. stops[i] \in StopOrders
      BY DEF BrokerTypes
    <3>2. stops[i].price \in Prices
      BY <3>1 DEF StopOrders
    <3> QED
      BY <3>2 DEF Prices
  <2>2. held' \in Holdings
    BY <1>9, <2>1, TradeType DEF StopMoves, BrokerTypes
  <2>3. \E st \in {"triggered", "ended"} : stops' = Ending(stops, i, st)
    BY <1>9 DEF StopMoves, Ending
  <2>4. stops' \in Seq(StopOrders)
    BY <2>3, EndOrder DEF BrokerTypes
  <2> QED
    BY <1>9, <2>2, <2>4 DEF StopMoves, BrokerTypes
<1>10. ASSUME NEW ref \in DOMAIN exit, ExitMoves(ref) PROVE BrokerTypes'
  <2>1. held.q \in Nat
    BY DEF BrokerTypes, Holdings
  <2>2. held' \in Holdings
    BY <1>10, <2>1, TradeType DEF ExitMoves, BrokerTypes
  <2>3. DOMAIN exit' = DOMAIN exit /\ exit' \in [DOMAIN exit -> {"open", "filled", "ended"}]
    BY <1>10 DEF ExitMoves, BrokerTypes
  <2> QED
    BY <1>10, <2>2, <2>3 DEF ExitMoves, BrokerTypes
<1>11. CASE RunStart \/ Decide \/ Begin \/ Refresh \/ Snapshot \/ ReconcileStops \/ FreeExit
            \/ MarkCancelled \/ CancelsDone
  BY <1>1, <1>11 DEF RunStart, Decide, Begin, Refresh, Snapshot, ReconcileStops, FreeExit,
     MarkCancelled, CancelsDone
<1>12. CASE PlaceNothing \/ PlaceNew \/ KeepResting \/ Realign \/ WriteStopFill
            \/ WriteStopFact \/ MarkReplaced \/ SubmitNothing \/ SkipExit \/ Crash
  BY <1>1, <1>12 DEF PlaceNothing, PlaceNew, KeepResting, Realign, WriteStopFill, WriteStopFact,
     MarkReplaced, SubmitNothing, SkipExit, Crash
<1>13. CASE Monitor
  BY <1>1, <1>13 DEF Monitor, MonitorSyncs, MonitorMarks, MonitorEvaluates
<1> QED
  BY <1>3, <1>4, <1>5, <1>6, <1>7, <1>8, <1>9, <1>10, <1>11, <1>12, <1>13
     DEF Next, Executor, Broker

\* The keys the monitor opens are Position keys.
LEMMA MonitorKeys ==
  /\ \A r \in Runs : RunKey(r) \in PositionKeys
  /\ \A h \in Holdings : BrokerKey(Basis(h)) \in PositionKeys
<1>1. ASSUME NEW r \in Runs PROVE RunKey(r) \in PositionKeys
  <2>1. Bought(Flat, r) \in Holdings
    BY FlatBasis, TradeType
  <2>2. EntryBasis(r) \in Bases
    BY <2>1 DEF EntryBasis, Bases
  <2>3. r \in 0..MaxRuns
    BY RunsAssumption DEF Runs
  <2> QED
    BY <2>2, <2>3 DEF RunKey, PositionKeys
<1>2. ASSUME NEW h \in Holdings PROVE BrokerKey(Basis(h)) \in PositionKeys
  <2>1. Basis(h) \in Bases /\ 0 \in 0..MaxRuns
    BY RunsAssumption DEF Bases
  <2> QED
    BY <2>1 DEF BrokerKey, PositionKeys
<1> QED
  BY <1>1, <1>2

\* What an order's state says is a verdict, and a final one once it is over.
LEMMA SaysVerdict ==
  \A st : Says(st) \in Verdicts /\ (Says(st) = "pending" <=> st = "open")
BY DEF Says, Verdicts

\* A refresh only writes broker verdicts over what awaits them.
LEMMA RefreshTypes ==
  ASSUME GraphTypes, RefreshFills
  PROVE  /\ entryFill' \in [Runs -> {"none", "filled", "pending", "settled", "rejected"}]
         /\ exitFill' \in [DOMAIN exitFill' -> Verdicts]
         /\ stopFills' \in [DOMAIN stopFills' -> StopFillNodes]
         /\ DOMAIN stopFills' = DOMAIN stopFills
         /\ \A f \in DOMAIN stopFills :
              /\ stopFills'[f].id = stopFills[f].id /\ stopFills'[f].said = stopFills[f].said
              /\ stopFills[f].broker # "unset" => stopFills'[f].broker # "unset"
              /\ AwaitsBroker(stopFills[f]) /\ stops[stopFills[f].id].state # "open"
                   => stopFills'[f].broker # "unset"
<1>1. entryFill' \in [Runs -> {"none", "filled", "pending", "settled", "rejected"}]
  BY DEF RefreshFills, GraphTypes
<1>2. exitFill' \in [DOMAIN exitFill' -> Verdicts]
  BY SaysVerdict DEF RefreshFills, GraphTypes
<1>3. DOMAIN stopFills' = DOMAIN stopFills
  BY DEF RefreshFills
<1>4. ASSUME NEW f \in DOMAIN stopFills
      PROVE  /\ stopFills'[f] \in StopFillNodes
             /\ stopFills'[f].id = stopFills[f].id /\ stopFills'[f].said = stopFills[f].said
             /\ stopFills[f].broker # "unset" => stopFills'[f].broker # "unset"
             /\ AwaitsBroker(stopFills[f]) /\ stops[stopFills[f].id].state # "open"
                   => stopFills'[f].broker # "unset"
  <2>1. stopFills[f] \in StopFillNodes
    BY DEF GraphTypes
  <2> DEFINE v == Says(stops[stopFills[f].id].state)
  <2>2. stopFills'[f] = IF AwaitsBroker(stopFills[f]) /\ v # "pending"
                        THEN [stopFills[f] EXCEPT !.broker = v] ELSE stopFills[f]
    BY DEF RefreshFills
  <2>3. v \in Verdicts /\ (v = "pending" <=> stops[stopFills[f].id].state = "open")
    BY SaysVerdict
  <2> HIDE DEF v
  <2>4. CASE AwaitsBroker(stopFills[f]) /\ v # "pending"
    <3>1. v \in {"filled", "rejected"}
      BY <2>3, <2>4 DEF Verdicts
    <3>2. stopFills'[f] = [stopFills[f] EXCEPT !.broker = v]
      BY <2>2, <2>4
    <3> QED
      BY <2>1, <3>1, <3>2 DEF StopFillNodes
  <2>5. CASE ~(AwaitsBroker(stopFills[f]) /\ v # "pending")
    BY <2>1, <2>2, <2>3, <2>5
  <2> QED
    BY <2>4, <2>5
<1>5. stopFills' \in [DOMAIN stopFills' -> StopFillNodes]
  <2>1. stopFills' = [f \in DOMAIN stopFills |-> stopFills'[f]]
    BY DEF RefreshFills
  <2> QED
    BY <1>3, <1>4, <2>1
<1> QED
  BY <1>1, <1>2, <1>3, <1>4, <1>5

\* The monitor opens keys of its own, and marks what was open.
LEMMA AdoptTypes ==
  ASSUME GraphTypes, NEW seen \in Seen, NEW opened \in SUBSET PositionKeys, Adopt(seen, opened),
         positions \subseteq opened
  PROVE  positions' \subseteq PositionKeys /\ adopting' \subseteq positions' /\ positions \subseteq positions'
<1> DEFINE active == opened \ inactive
           match == {k \in active : k.basis = Basis(seen)}
           kept == IF match # {} THEN {CHOOSE k \in match : TRUE} ELSE {BrokerKey(Basis(seen))}
<1>1. seen \in Holdings
  BY DEF Adopt, Seen
<1>2. kept \subseteq PositionKeys
  <2>1. match # {} => (CHOOSE k \in match : TRUE) \in match
    OBVIOUS
  <2>2. match \subseteq PositionKeys
    OBVIOUS
  <2>3. BrokerKey(Basis(seen)) \in PositionKeys
    BY <1>1, MonitorKeys
  <2> QED
    BY <2>1, <2>2, <2>3
<1>3. \/ positions' = opened /\ adopting' = active
      \/ positions' = opened \cup kept /\ adopting' = active \ kept
  BY DEF Adopt
<1>4. active \subseteq opened
  OBVIOUS
<1> HIDE DEF active, kept
<1> QED
  BY <1>2, <1>3, <1>4

\* Marking a fact changes neither its key nor its order.
Marked(K, e) == [k \in DOMAIN facts |->
                   IF k \in K THEN [facts[k] EXCEPT !.end = e] ELSE facts[k]]
LEMMA MarkTypes ==
  ASSUME GraphTypes, NEW K, NEW e \in {"cancelled", "replaced"}, facts' = Marked(K, e)
  PROVE  /\ DOMAIN facts' = DOMAIN facts /\ facts' \in [DOMAIN facts -> StopFacts]
         /\ \A k \in DOMAIN facts : facts'[k].id = facts[k].id
<1>1. DOMAIN facts' = DOMAIN facts
  BY DEF Marked
<1>2. ASSUME NEW k \in DOMAIN facts PROVE facts'[k] \in StopFacts /\ facts'[k].id = facts[k].id
  <2>1. facts[k] \in StopFacts
    BY DEF GraphTypes
  <2>2. facts'[k] = IF k \in K THEN [facts[k] EXCEPT !.end = e] ELSE facts[k]
    BY DEF Marked
  <2> QED
    BY <2>1, <2>2 DEF StopFacts
<1>3. facts' = [k \in DOMAIN facts |-> facts'[k]]
  BY DEF Marked
<1> QED
  BY <1>1, <1>2, <1>3

\* The facts after a step: the same orders under the same keys, or one more.
LEMMA FactsStep ==
  ASSUME GraphTypes, RunTypes, Next
  PROVE  \/ /\ DOMAIN facts' = DOMAIN facts /\ facts' \in [DOMAIN facts -> StopFacts]
            /\ \A k \in DOMAIN facts : facts'[k].id = facts[k].id
         \/ WriteStopFact
<1>1. CASE facts' = facts
  BY <1>1 DEF GraphTypes
<1>2. CASE MarkCancelled
  <2>1. facts' = Marked({ex.key}, "cancelled")
    BY <1>2 DEF MarkCancelled, Marked
  <2> QED
    BY <2>1, MarkTypes
<1>3. CASE MarkReplaced
  <2>1. facts' = Marked(ex.todo, "replaced")
    BY <1>3 DEF MarkReplaced, Marked
  <2> QED
    BY <2>1, MarkTypes
<1>4. CASE RunStart \/ Decide \/ Begin \/ Refresh \/ Snapshot \/ ReconcileStops \/ FreeExit
           \/ CancelAnswered \/ CancelRaised \/ CancelsDone \/ PlaceNothing \/ PlaceNew
           \/ KeepResting \/ Realign
  BY <1>1, <1>4 DEF RunStart, Decide, Begin, Refresh, Snapshot, ReconcileStops, FreeExit,
     CancelAnswered, CancelRaised, CancelsDone, PlaceNothing, PlaceNew, KeepResting, Realign,
     graph
<1>5. CASE SubmitStop \/ SubmitStopLost \/ ReplaceStop \/ ReplaceRaised \/ WriteStopFill
           \/ SubmitNothing \/ SubmitEntry \/ SkipExit \/ SubmitExit \/ Crash
  BY <1>1, <1>5 DEF SubmitStop, SubmitStopLost, ReplaceStop, ReplaceRaised, WriteStopFill,
     SubmitNothing, SubmitEntry, SkipExit, SubmitExit, Crash, graph
<1>6. CASE Monitor \/ Broker
  BY <1>1, <1>6 DEF Monitor, MonitorSyncs, MonitorMarks, MonitorEvaluates, Broker, EntryMoves,
     StopMoves, ExitMoves, graph
<1> QED
  BY <1>2, <1>3, <1>4, <1>5, <1>6 DEF Next, Executor

\* The fact of an answered stop.
LEMMA NewFact ==
  ASSUME GraphTypes, RunTypes, WriteStopFact
  PROVE  /\ DOMAIN facts' = DOMAIN facts \cup {ex.key} /\ facts' \in [DOMAIN facts' -> StopFacts]
         /\ \A k \in DOMAIN facts : facts'[k] = facts[k]
         /\ ex.key \notin DOMAIN facts => facts'[ex.key].id = ex.answer.id
<1> DEFINE v == [id |-> ex.answer.id, price |-> ex.price, end |-> "no"]
<1>1. v \in StopFacts
  BY DEF RunTypes, Hands, StopFacts
<1>2. facts' = PutNew(facts, ex.key, v)
  BY DEF WriteStopFact
<1>3. CASE ex.key \in DOMAIN facts
  <2>1. facts' = facts
    BY <1>2, <1>3 DEF PutNew
  <2> QED
    BY <1>3, <2>1 DEF GraphTypes
<1>4. CASE ex.key \notin DOMAIN facts
  <2>1. facts' = Put(facts, ex.key, v)
    BY <1>2, <1>4 DEF PutNew
  <2>2. v.id = ex.answer.id
    OBVIOUS
  <2> HIDE DEF v
  <2>3. DOMAIN facts' = DOMAIN facts \cup {ex.key} /\ facts' \in [DOMAIN facts' -> StopFacts]
    BY <1>1, <2>1, PutType DEF GraphTypes
  <2>4. facts'[ex.key] = v /\ \A k \in DOMAIN facts : facts'[k] = facts[k]
    BY <1>4, <2>1 DEF Put
  <2> QED
    BY <2>2, <2>3, <2>4
<1> QED
  BY <1>3, <1>4

\* The Fill of an answered stop.
LEMMA NewFill ==
  ASSUME GraphTypes, RunTypes, WriteStopFill
  PROVE  /\ stopFills' \in [DOMAIN stopFills' -> StopFillNodes]
         /\ DOMAIN stopFills \subseteq DOMAIN stopFills'
         /\ \A f \in DOMAIN stopFills : stopFills'[f] = stopFills[f]
         /\ \A f \in DOMAIN stopFills' \ DOMAIN stopFills :
              stopFills'[f].id = ex.answer.id /\ stopFills'[f].said = ex.answer.said
<1> DEFINE v == [key |-> ex.key, id |-> ex.answer.id, said |-> ex.answer.said,
                 price |-> ex.price, broker |-> "unset"]
<1>1. v \in StopFillNodes
  BY DEF RunTypes, Hands, StopFillNodes
<1>2. v.id = ex.answer.id /\ v.said = ex.answer.said
  OBVIOUS
<1>3. \E f : stopFills' = PutNew(stopFills, f, v)
  BY DEF WriteStopFill
<1> HIDE DEF v
<1>4. PICK f : stopFills' = PutNew(stopFills, f, v)
  BY <1>3
<1>5. CASE f \in DOMAIN stopFills
  BY <1>4, <1>5 DEF PutNew, GraphTypes
<1>6. CASE f \notin DOMAIN stopFills
  <2>1. stopFills' = Put(stopFills, f, v)
    BY <1>4, <1>6 DEF PutNew
  <2>2. /\ DOMAIN stopFills' = DOMAIN stopFills \cup {f}
        /\ stopFills' \in [DOMAIN stopFills' -> StopFillNodes]
    BY <1>1, <2>1, PutType DEF GraphTypes
  <2>3. stopFills'[f] = v /\ \A g \in DOMAIN stopFills : stopFills'[g] = stopFills[g]
    BY <1>6, <2>1 DEF Put
  <2> QED
    BY <1>2, <2>2, <2>3
<1> QED
  BY <1>5, <1>6

\* The steps that write Fills: a refresh, a stop's, an entry's, an exit's.
LEMMA FillSteps ==
  ASSUME Next
  PROVE  /\ UNCHANGED stopFills \/ RefreshFills \/ WriteStopFill
         /\ UNCHANGED entryFill \/ RefreshFills \/ SubmitEntry
         /\ \/ UNCHANGED <<exitFill, exit>>
            \/ RefreshFills /\ UNCHANGED exit
            \/ SubmitExit \/ \E ref \in DOMAIN exit : ExitMoves(ref)
<1>1. CASE RunStart \/ Refresh
  BY <1>1 DEF RunStart, Refresh, broker
<1>2. CASE Decide \/ Begin \/ Snapshot \/ ReconcileStops \/ FreeExit
           \/ CancelAnswered \/ CancelRaised \/ MarkCancelled \/ CancelsDone \/ PlaceNothing
           \/ PlaceNew \/ KeepResting \/ Realign
  BY <1>2 DEF Decide, Begin, Snapshot, ReconcileStops, FreeExit, CancelAnswered, CancelRaised,
     MarkCancelled, CancelsDone, PlaceNothing, PlaceNew, KeepResting, Realign, graph, broker
<1>3. CASE SubmitStop \/ SubmitStopLost \/ ReplaceStop \/ ReplaceRaised \/ WriteStopFill
           \/ WriteStopFact \/ MarkReplaced \/ SubmitNothing \/ SubmitEntry \/ SkipExit
           \/ SubmitExit \/ Crash
  BY <1>3 DEF SubmitStop, SubmitStopLost, ReplaceStop, ReplaceRaised, WriteStopFill,
     WriteStopFact, MarkReplaced, SubmitNothing, SubmitEntry, SkipExit, SubmitExit, Crash,
     graph, broker
<1>4. CASE Monitor
  BY <1>4 DEF Monitor, MonitorSyncs, MonitorMarks, MonitorEvaluates, broker
<1>5. CASE Broker
  BY <1>5 DEF Broker, EntryMoves, StopMoves, ExitMoves, graph
<1> QED
  BY <1>1, <1>2, <1>3, <1>4, <1>5 DEF Next, Executor

\* The steps that write snapshots or Positions.
LEMMA SnapshotSteps ==
  ASSUME Next
  PROVE  /\ snapshot' \in {snapshot, held} /\ linked' \in {linked, held}
         /\ UNCHANGED <<positions, inactive, adopting>> \/ Monitor
<1>1. CASE RunStart \/ Refresh \/ Decide \/ Begin \/ Snapshot \/ ReconcileStops \/ FreeExit
           \/ CancelAnswered \/ CancelRaised \/ MarkCancelled \/ CancelsDone \/ PlaceNothing
           \/ PlaceNew \/ KeepResting \/ Realign
  BY <1>1 DEF RunStart, Refresh, Decide, Begin, Snapshot, ReconcileStops, FreeExit,
     CancelAnswered, CancelRaised, MarkCancelled, CancelsDone, PlaceNothing, PlaceNew,
     KeepResting, Realign, graph
<1>2. CASE SubmitStop \/ SubmitStopLost \/ ReplaceStop \/ ReplaceRaised \/ WriteStopFill
           \/ WriteStopFact \/ MarkReplaced \/ SubmitNothing \/ SubmitEntry \/ SkipExit
           \/ SubmitExit \/ Crash
  BY <1>2 DEF SubmitStop, SubmitStopLost, ReplaceStop, ReplaceRaised, WriteStopFill,
     WriteStopFact, MarkReplaced, SubmitNothing, SubmitEntry, SkipExit, SubmitExit, Crash, graph
<1>3. CASE Monitor
  BY <1>3 DEF Monitor, MonitorSyncs, MonitorMarks, MonitorEvaluates
<1>4. CASE Broker
  BY <1>4 DEF Broker, EntryMoves, StopMoves, ExitMoves, graph
<1> QED
  BY <1>1, <1>2, <1>3, <1>4 DEF Next, Executor

\* Every step keeps the types of what the graph holds.
LEMMA GraphTypesStep ==
  ASSUME BrokerTypes, GraphTypes, RunTypes, Next
  PROVE  GraphTypes'
<1>1. positions' \subseteq PositionKeys /\ inactive' \subseteq positions' /\ adopting' \subseteq positions'
  <2>1. CASE UNCHANGED <<positions, inactive, adopting>>
    BY <2>1 DEF GraphTypes
  <2>2. CASE MonitorSyncs
    BY <2>2, AdoptTypes DEF MonitorSyncs, GraphTypes
  <2>3. ASSUME NEW r \in Runs, MonitorEvaluates(r)
        PROVE  positions' \subseteq PositionKeys /\ inactive' \subseteq positions'
               /\ adopting' \subseteq positions'
    <3>1. positions \cup {RunKey(r)} \in SUBSET PositionKeys
      BY MonitorKeys DEF GraphTypes
    <3>2. /\ positions' \subseteq PositionKeys /\ adopting' \subseteq positions'
          /\ positions \subseteq positions'
      BY <2>3, <3>1, AdoptTypes DEF MonitorEvaluates, GraphTypes
    <3> QED
      BY <2>3, <3>2 DEF MonitorEvaluates, GraphTypes
  <2>4. CASE MonitorMarks
    BY <2>4 DEF MonitorMarks, GraphTypes
  <2> QED
    BY <2>1, <2>2, <2>3, <2>4, SnapshotSteps DEF Monitor
<1>2. entryFill' \in [Runs -> {"none", "filled", "pending", "settled", "rejected"}]
  <2>1. CASE SubmitEntry
    BY <2>1 DEF SubmitEntry, GraphTypes
  <2> QED
    BY <2>1, RefreshTypes, FillSteps DEF GraphTypes
<1>3. exitFill' \in [DOMAIN exitFill' -> Verdicts]
  <2>1. CASE SubmitExit
    <3>1. \E v \in Verdicts : exitFill' = Put(exitFill, pm.ref, v)
      BY <2>1, SaysVerdict DEF SubmitExit, WithExit, Verdicts
    <3>2. PICK v \in Verdicts : exitFill' = Put(exitFill, pm.ref, v)
      BY <3>1
    <3>3. exitFill \in [DOMAIN exitFill -> Verdicts]
      BY DEF GraphTypes
    <3> QED
      BY <3>2, <3>3, PutType
  <2>2. ASSUME NEW ref \in DOMAIN exit, ExitMoves(ref) PROVE exitFill' = exitFill
    BY <2>2 DEF ExitMoves, graph
  <2> QED
    BY <2>1, <2>2, RefreshTypes, FillSteps DEF GraphTypes
<1>4. stopFills' \in [DOMAIN stopFills' -> StopFillNodes]
  BY NewFill, RefreshTypes, FillSteps DEF GraphTypes
<1>5. DOMAIN facts' \subseteq StopKeys /\ facts' \in [DOMAIN facts' -> StopFacts]
      /\ IsFiniteSet(DOMAIN facts')
  <2>1. CASE WriteStopFact
    <3>1. DOMAIN facts' = DOMAIN facts \cup {ex.key} /\ facts' \in [DOMAIN facts' -> StopFacts]
      BY <2>1, NewFact
    <3>2. IsFiniteSet(DOMAIN facts \cup {ex.key})
      BY FS_AddElement DEF GraphTypes
    <3>3. ex.key \in StopKeys
      BY DEF RunTypes, Hands
    <3> QED
      BY <3>1, <3>2, <3>3 DEF GraphTypes
  <2>2. CASE DOMAIN facts' = DOMAIN facts /\ facts' \in [DOMAIN facts -> StopFacts]
    BY <2>2 DEF GraphTypes
  <2> QED
    BY <2>1, <2>2, FactsStep
<1>6. snapshot' \in Seen /\ linked' \in Seen
  BY SnapshotSteps DEF GraphTypes, BrokerTypes, Seen
<1> QED
  BY <1>1, <1>2, <1>3, <1>4, <1>5, <1>6 DEF GraphTypes

\* FreeKey hands out keys: within as many ordinals as there are facts one is free.
LEMMA MinInSet ==
  ASSUME NEW S \in SUBSET Nat, S # {}
  PROVE  Min(S) \in S /\ \A y \in S : Min(S) <= y
<1> DEFINE R == {ss \in Nat \X Nat : ss[1] < ss[2]}
<1>1. PICK x \in S : \A y \in S : ~(<<y, x>> \in R)
  <2>1. IsWellFoundedOn(R, Nat)
    BY NatLessThanWellFounded, Zenon DEF OpToRel
  <2> HIDE DEF R
  <2> QED
    BY <2>1, WFMin
<1>2. \A y \in S : x <= y
  <2>1. ASSUME NEW y \in S PROVE ~(y < x)
    <3>1. <<y, x>> \in Nat \X Nat /\ <<y, x>>[1] = y /\ <<y, x>>[2] = x
      OBVIOUS
    <3>2. <<y, x>> \in Nat \X Nat => (<<y, x>> \in R <=> <<y, x>>[1] < <<y, x>>[2])
      BY Zenon
    <3> QED
      BY <1>1, <3>1, <3>2
  <2> QED
    BY <2>1
<1> QED
  BY <1>2, Zenon DEF Min

\* An ordinal that is free among the keys D, all those before it taken.
FirstFreeOf(k, D) ==
  k \notin D /\ \A m \in Nat : m < k.n => [ref |-> k.ref, n |-> m] \in D
NextFree(k) == FirstFreeOf(k, DOMAIN facts)

\* next_broker_stop_order_key returns the first free ordinal, and there is one.
LEMMA FreeKeyIsNext ==
  ASSUME GraphTypes, NEW ref \in Refs
  PROVE  /\ FreeKey(ref) \in StopKeys /\ FreeKey(ref).ref = ref /\ NextFree(FreeKey(ref))
         /\ \A k \in StopKeys : k.ref = ref /\ NextFree(k) => FreeKey(ref) = k
<1> DEFINE C == Cardinality(DOMAIN facts)
           K(n) == [ref |-> ref, n |-> n]
           F == {n \in 0..C : K(n) \notin DOMAIN facts}
<1>1. C \in Nat /\ IsFiniteSet(DOMAIN facts)
  BY FS_CardinalityType DEF GraphTypes
<1>2. F # {}
  <2> SUFFICES ASSUME \A n \in 0..C : K(n) \in DOMAIN facts PROVE FALSE
    OBVIOUS
  <2> DEFINE g == [n \in 0..C |-> K(n)]
  <2>1. g \in [0..C -> DOMAIN facts]
    OBVIOUS
  <2>2. IsFiniteSet(0..C) /\ Cardinality(0..C) = C + 1
    BY <1>1, FS_Interval
  <2>3. \A x, y \in 0..C : x # y => g[x] # g[y]
    OBVIOUS
  <2>4. Cardinality(DOMAIN facts) < Cardinality(0..C)
    BY <1>1, <2>2
  <2> HIDE DEF g
  <2>5. \E x, y \in 0..C : x # y /\ g[x] = g[y]
    BY <1>1, <2>1, <2>2, <2>4, FS_PigeonHole
  <2> QED
    BY <2>3, <2>5
<1>3. F \in SUBSET Nat
  OBVIOUS
<1>4. FreeKey(ref) = K(Min(F))
  BY DEF FreeKey
<1> DEFINE m == Min(F)
<1> HIDE DEF F
<1>5. m \in F /\ \A y \in F : m <= y
  BY <1>2, <1>3, MinInSet
<1> HIDE DEF m
<1> USE DEF F
<1>6. m \in Nat /\ m <= C /\ K(m) \notin DOMAIN facts
  BY <1>1, <1>5
<1>7. \A x \in Nat : x < m => K(x) \in DOMAIN facts
  <2> TAKE x \in Nat
  <2> HAVE x < m
  <2>1. x \in 0..C /\ ~(m <= x)
    BY <1>1, <1>6
  <2> QED
    BY <1>5, <2>1
<1>8. FreeKey(ref) = [ref |-> ref, n |-> m]
  BY <1>4 DEF m
<1>9. FreeKey(ref) \in StopKeys /\ FreeKey(ref).ref = ref /\ FreeKey(ref).n = m
  BY <1>6, <1>8 DEF StopKeys
<1>10. NextFree(FreeKey(ref))
  BY <1>6, <1>7, <1>8, <1>9 DEF NextFree, FirstFreeOf
<1>11. ASSUME NEW k \in StopKeys, k.ref = ref, NextFree(k) PROVE FreeKey(ref) = k
  <2>1. k = [ref |-> ref, n |-> k.n] /\ k.n \in Nat
    BY <1>11 DEF StopKeys
  <2>2. ~(k.n < m)
    BY <1>7, <1>11, <2>1 DEF NextFree, FirstFreeOf
  <2>3. ~(m < k.n)
    BY <1>6, <1>11, <2>1 DEF NextFree, FirstFreeOf
  <2>4. k.n = m
    BY <1>6, <2>1, <2>2, <2>3
  <2> QED
    BY <1>8, <2>1, <2>4
<1> QED
  BY <1>9, <1>10, <1>11

\* What a run may place: a plan for what it saw held.
LEMMA PlanTypes ==
  ASSUME GraphTypes, RunTypes
  PROVE  /\ Active \in Refs /\ PlanKeys \in Refs
         /\ LiveFacts \subseteq StopKeys /\ LiveFacts \subseteq DOMAIN facts
         /\ Placing => PlanPrice \in Prices
<1>1. Active \in Refs
  BY DEF Active, GraphTypes, Refs
<1>2. PlanKeys \in Refs
  <2>1. {RunKey(r) : r \in AwaitedLots} \subseteq PositionKeys
    BY MonitorKeys DEF AwaitedLots
  <2> QED
    BY <1>1, <2>1 DEF PlanKeys, Refs
<1>3. LiveFacts \subseteq StopKeys /\ LiveFacts \subseteq DOMAIN facts
  BY DEF LiveFacts, GraphTypes
<1>4. ASSUME Placing PROVE PlanPrice \in Prices
  <2>1. PlanKeys # {} /\ Total(PlanKeys).q = ex.seen.q
    BY <1>4 DEF Placing, NoMatch
  <2>2. ex.seen \in Holdings
    BY <1>4 DEF Placing, Fresh, RunTypes, Hands, Seen
  <2>3. Total(PlanKeys).q \in Nat
    BY <2>1, <2>2 DEF Holdings
  <2>4. PlanWidths # {} /\ PlanWidths \subseteq {"pm", "fallback"}
    BY <2>1 DEF PlanWidths, Width
  <2>5. (CHOOSE w \in PlanWidths : TRUE) \in {"pm", "fallback"}
    BY <2>4
  <2>6. PlanPrice = [basis |-> Total(PlanKeys), width |-> CHOOSE w \in PlanWidths : TRUE]
    BY DEF PlanPrice
  <2> DEFINE t == Total(PlanKeys)
             w == CHOOSE w \in PlanWidths : TRUE
  <2>7. t \in {Total(K) : K \in Refs}
    BY <1>2
  <2> HIDE DEF t, w
  <2>8. [basis |-> t, width |-> w] \in Prices
    BY <2>3, <2>5, <2>7 DEF Prices, t, w
  <2> QED
    BY <2>6, <2>8 DEF t, w
<1> QED
  BY <1>1, <1>2, <1>3, <1>4

\* The end of a run leaves the agent idle and the run linked.
LEMMA FinishTypes ==
  ASSUME RunTypes, NEW told \in BOOLEAN, Finish(told)
  PROVE  RunTypes' /\ ex'.pc = "idle" /\ ex'.told = told /\ ex'.over = {}
<1>1. ex' \in Hands /\ ex'.pc = "idle" /\ ex'.told = told /\ ex'.over = {}
  <2>1. Idle \in Hands /\ Idle.pc = "idle" /\ Idle.over = {}
    BY IdleType DEF Idle
  <2> HIDE DEF Idle
  <2> QED
    BY <2>1 DEF Finish, Hands
<1>2. pm' \in Decisions /\ pm'.phase = "linked"
  BY DEF Finish, RunTypes, Decisions
<1> QED
  BY <1>1, <1>2 DEF RunTypes

\* A step of the agent within a run.
LEMMA HandTypes ==
  ASSUME RunTypes, ex' \in Hands, UNCHANGED pm, ex.pc # "idle"
  PROVE  RunTypes'
BY DEF RunTypes

\* The edits a step makes to the run in hand.
LEMMA HandEdits ==
  ASSUME NEW e \in Hands, NEW T \in SUBSET StopKeys, NEW o \in SUBSET Nat, NEW b \in BOOLEAN
  PROVE  /\ [e EXCEPT !.pc = "snapshot", !.over = o] \in Hands
         /\ \A p \in {"snapshot", "place", "submit"} : [e EXCEPT !.pc = p] \in Hands
         /\ [e EXCEPT !.pc = "cancel", !.then = "free", !.todo = T] \in Hands
         /\ [e EXCEPT !.pc = "cancel", !.then = "place", !.todo = T, !.freed = b] \in Hands
         /\ [e EXCEPT !.pc = "submit", !.told = b] \in Hands
<1> USE DEF Steps, Places
<1>1. T \in SUBSET [ref : Refs, n : Ordinals]
  BY DEF StopKeys, Ordinals
<1>2. [e EXCEPT !.pc = "snapshot", !.over = o] \in Hands
  BY DEF Hands
<1>3. \A p \in {"snapshot", "place", "submit"} : [e EXCEPT !.pc = p] \in Hands
  BY DEF Hands
<1>4. [e EXCEPT !.pc = "cancel", !.then = "free", !.todo = T] \in Hands
  BY <1>1 DEF Hands
<1>5. [e EXCEPT !.pc = "cancel", !.then = "place", !.todo = T, !.freed = b] \in Hands
  BY <1>1 DEF Hands
<1>6. [e EXCEPT !.pc = "submit", !.told = b] \in Hands
  BY DEF Hands
<1> QED
  BY <1>2, <1>3, <1>4, <1>5, <1>6

\* Every step keeps the types of the run in hand.
LEMMA RunTypesStep ==
  ASSUME BrokerTypes, GraphTypes, RunTypes, Next
  PROVE  RunTypes'
<1> USE DEF Steps, Places
<1>0. ex \in Hands
  BY DEF RunTypes
<1>1. CASE UNCHANGED <<pm, ex>>
  BY <1>1 DEF RunTypes
<1>2. CASE RunStart
  BY <1>2 DEF RunStart, RunTypes, Decisions
<1>3. CASE Decide
  <2>1. Active \in Refs /\ NoRef \in Refs
    BY PlanTypes DEF NoRef, Refs
  <2>2. pm.run + 1 \in Runs /\ pm.run + 1 \in 0..MaxRuns
    BY <1>3, RunsAssumption DEF Decide, RunTypes, Decisions, Runs
  <2>3. pm' \in Decisions /\ pm'.phase = "decided" /\ pm'.run \in Runs
    BY <1>3, <2>1, <2>2 DEF Decide, Decisions
  <2> QED
    BY <1>3, <2>3 DEF Decide, RunTypes
<1>4. CASE Begin
  <2>1. ex' \in Hands
    BY <1>4, IdleType DEF Begin, Hands
  <2> QED
    BY <1>4, <2>1 DEF Begin, RunTypes
<1>5. CASE Refresh
  <2>1. DOMAIN stops \ OpenStops \subseteq Nat
    BY DEF BrokerTypes
  <2>2. \/ \E o \in SUBSET Nat : ex' = [ex EXCEPT !.pc = "snapshot", !.over = o]
        \/ ex' = [ex EXCEPT !.pc = "snapshot"]
    BY <1>5, <2>1 DEF Refresh
  <2>3. ex' \in Hands
    BY <1>0, <2>2, HandEdits
  <2> QED
    BY <1>5, <2>3, HandTypes DEF Refresh
<1>6. CASE Snapshot
  <2>1. held \in Seen
    BY DEF Seen, BrokerTypes
  <2>2. ex' \in Hands
    BY <1>0, <1>6, <2>1 DEF Snapshot, Hands
  <2> QED
    BY <1>6, <2>2, HandTypes DEF Snapshot
<1>7. StopKeys \subseteq [ref : Refs, n : Ordinals]
  BY DEF StopKeys, Ordinals
<1>8. CASE ReconcileStops
  <2>1. \E T \in SUBSET StopKeys :
          ex' = [ex EXCEPT !.pc = "cancel", !.then = "free", !.todo = T]
    BY <1>8, PlanTypes DEF ReconcileStops
  <2>2. ex' \in Hands
    BY <1>0, <2>1, HandEdits
  <2> QED
    BY <1>8, <2>2, HandTypes DEF ReconcileStops
<1>9. CASE FreeExit
  <2>1. \/ \E T \in SUBSET StopKeys : \E b \in BOOLEAN :
             ex' = [ex EXCEPT !.pc = "cancel", !.then = "place", !.todo = T, !.freed = b]
        \/ ex' = [ex EXCEPT !.pc = "place"]
    BY <1>9, PlanTypes DEF FreeExit
  <2>2. ex' \in Hands
    <3>1. CASE ex' = [ex EXCEPT !.pc = "place"]
      BY <1>0, <3>1, HandEdits
    <3>2. ASSUME NEW T \in SUBSET StopKeys, NEW b \in BOOLEAN,
                 ex' = [ex EXCEPT !.pc = "cancel", !.then = "place", !.todo = T, !.freed = b]
          PROVE  ex' \in Hands
      BY <1>0, <3>2, HandEdits
    <3> QED
      BY <2>1, <3>1, <3>2
  <2> QED
    BY <1>9, <2>2, HandTypes DEF FreeExit
<1>10. CASE CancelAnswered
  <2>1. PICK k \in ex.todo : ex' = [ex EXCEPT !.pc = "mark", !.key = k, !.todo = @ \ {k}]
    BY <1>10 DEF CancelAnswered
  <2>2. k \in StopKeys
    BY <1>0, <1>10 DEF CancelAnswered, Hands
  <2>3. ex' \in Hands
    BY <1>0, <1>10, <2>1, <2>2 DEF CancelAnswered, Hands
  <2> QED
    BY <1>10, <2>3, HandTypes DEF CancelAnswered, graph
<1>11. CASE CancelRaised
  <2>1. ex' \in Hands
    BY <1>0, <1>11 DEF CancelRaised, Hands
  <2> QED
    BY <1>11, <2>1, HandTypes DEF CancelRaised
<1>12. CASE MarkCancelled
  <2>1. ex' \in Hands
    BY <1>0, <1>12 DEF MarkCancelled, Hands
  <2> QED
    BY <1>12, <2>1, HandTypes DEF MarkCancelled
<1>13. CASE CancelsDone
  <2>1. ex' \in Hands
    BY <1>0, <1>13 DEF CancelsDone, Hands
  <2> QED
    BY <1>13, <2>1, HandTypes DEF CancelsDone
<1>14. CASE PlaceNothing \/ KeepResting
  <2>0. \/ \E b \in BOOLEAN : ex' = [ex EXCEPT !.pc = "submit", !.told = b]
        \/ ex' = [ex EXCEPT !.pc = "submit"]
    BY <1>14 DEF PlaceNothing, KeepResting
  <2>1. ex' \in Hands
    BY <1>0, <2>0, HandEdits
  <2> QED
    BY <1>14, <2>1, HandTypes DEF PlaceNothing, KeepResting, Placing
<1>15. CASE PlaceNew
  <2>1. FreeKey(PlanKeys) \in StopKeys /\ PlanPrice \in Prices
    BY <1>15, PlanTypes, FreeKeyIsNext DEF PlaceNew
  <2>2. ex' \in Hands
    BY <1>0, <1>15, <2>1 DEF PlaceNew, Hands
  <2> QED
    BY <1>15, <2>2, HandTypes DEF PlaceNew, Placing
<1>16. CASE Realign
  <2>1. FreeKey(PlanKeys) \in StopKeys /\ PlanPrice \in Prices
    BY <1>16, PlanTypes, FreeKeyIsNext DEF Realign
  <2>2. {ProtectingKey} \subseteq [ref : Refs, n : Ordinals]
    <3> DEFINE N == {k.n : k \in {l \in LiveFacts : l.ref = PlanKeys}}
    <3>1. N \in SUBSET Nat
      BY PlanTypes DEF StopKeys
    <3>2. ProtectingKey = [ref |-> PlanKeys, n |-> Max(N)]
      BY DEF ProtectingKey
    <3> HIDE DEF N
    <3>3. Max(N) \in Ordinals
      BY <3>1 DEF Ordinals
    <3> QED
      BY <3>2, <3>3, PlanTypes
  <2>3. ex' \in Hands
    BY <1>0, <1>16, <2>1, <2>2 DEF Realign, Hands
  <2> QED
    BY <1>16, <2>3, HandTypes DEF Realign, Placing
<1>17. ASSUME NEW id \in Nat, NEW said \in Verdicts, Answered(id, said) PROVE ex' \in Hands
  BY <1>0, <1>17 DEF Answered, Hands
<1>18. Len(stops) + 1 \in Nat /\ DOMAIN stops \subseteq Nat /\ 0 \in Nat
  BY DEF BrokerTypes
<1>19. "pending" \in Verdicts /\ "rejected" \in Verdicts
  BY DEF Verdicts
<1>20. CASE SubmitStop \/ SubmitStopLost \/ ReplaceStop
  <2>1. \E id \in Nat : \E said \in Verdicts : Answered(id, said)
    <3>1. CASE SubmitStop
      BY <3>1, <1>18, <1>19, SaysVerdict DEF SubmitStop, KnownTo
    <3>2. CASE SubmitStopLost \/ ReplaceStop
      BY <3>2, <1>18, <1>19 DEF SubmitStopLost, ReplaceStop
    <3> QED
      BY <1>20, <3>1, <3>2
  <2>2. ex' \in Hands
    BY <1>17, <2>1
  <2> QED
    BY <1>20, <2>2, HandTypes DEF SubmitStop, SubmitStopLost, ReplaceStop
<1>21. CASE ReplaceRaised
  <2>1. ex' \in Hands
    BY <1>0, <1>21 DEF ReplaceRaised, Hands
  <2> QED
    BY <1>21, <2>1, HandTypes DEF ReplaceRaised
<1>22. CASE WriteStopFill
  <2>1. ex' \in Hands
    BY <1>0, <1>22 DEF WriteStopFill, AfterFill, Hands
  <2> QED
    BY <1>22, <2>1, HandTypes DEF WriteStopFill
<1>23. CASE WriteStopFact \/ MarkReplaced
  <2>1. ex' \in Hands
    BY <1>0, <1>23 DEF WriteStopFact, MarkReplaced, Hands
  <2> QED
    BY <1>23, <2>1, HandTypes DEF WriteStopFact, MarkReplaced
<1>24. CASE SubmitNothing \/ SubmitEntry \/ SkipExit
  <2>1. Finish(ex.told) /\ ex.told \in BOOLEAN
    BY <1>0, <1>24 DEF SubmitNothing, SubmitEntry, SkipExit, Hands
  <2> QED
    BY <2>1, FinishTypes
<1>25. CASE SubmitExit
  <2>1. \E told \in BOOLEAN : Finish(told)
    <3>1. \A st : Reported(st) \in BOOLEAN
      BY DEF Reported
    <3> HIDE DEF Reported
    <3> QED
      BY <1>25, <3>1 DEF SubmitExit
  <2> QED
    BY <2>1, FinishTypes
<1>26. CASE Crash
  BY <1>26, IdleType DEF Crash, RunTypes
<1>27. CASE Monitor \/ Broker
  BY <1>1, <1>27 DEF Monitor, MonitorSyncs, MonitorMarks, MonitorEvaluates, Broker, EntryMoves,
     StopMoves, ExitMoves
<1> QED
  BY <1>2, <1>3, <1>4, <1>5, <1>6, <1>8, <1>9, <1>10, <1>11, <1>12, <1>13, <1>14, <1>15, <1>16,
     <1>20, <1>21, <1>22, <1>23, <1>24, <1>25, <1>26, <1>27 DEF Next, Executor

\* Where each order under a stop key stands: a fact names the order that has its
\* key, no two orders share a key, and an order without a fact has the key that
\* is free next.
KeysInv ==
  /\ \A k \in DOMAIN facts : facts[k].id \in DOMAIN stops /\ stops[facts[k].id].key = k
  /\ \A i, j \in DOMAIN stops : stops[i].key = stops[j].key => i = j
  /\ \A i \in DOMAIN stops : stops[i].key \in DOMAIN facts \/ NextFree(stops[i].key)

\* What a placement in hand may rely on: its key is still the free one, and an
\* answer that is not a rejection is about the order with that key.
PlacingInv ==
  /\ ex.pc \in Places => NextFree(ex.key)
  /\ ex.pc \in {"stopfill", "fact"} /\ ex.answer.said # "rejected"
       => ex.answer.id \in DOMAIN stops /\ stops[ex.answer.id].key = ex.key
  /\ ex.pc \in {"fact", "markold"} => ex.answer.said # "rejected"
  /\ ex.answer.id \in 0..Len(stops)

\* Fills name orders of the broker, or none.
FillsInv == \A f \in DOMAIN stopFills : stopFills[f].id \in 0..Len(stops)

\* The orders only move to an end.
OrdersMove ==
  /\ DOMAIN stops' = DOMAIN stops /\ Len(stops') = Len(stops)
  /\ \A i \in DOMAIN stops : /\ stops'[i].key = stops[i].key
                             /\ stops[i].state # "open" => stops'[i].state # "open"

\* One more order rests, under the key in hand.
OrderAdded ==
  /\ ex.pc \in {"submitstop", "replace"} /\ KnownTo(ex.key) = {} /\ UNCHANGED <<facts, stopFills>>
  /\ DOMAIN stops' = DOMAIN stops \cup {Len(stops) + 1} /\ Len(stops') = Len(stops) + 1
  /\ Len(stops) + 1 \notin DOMAIN stops /\ stops'[Len(stops) + 1].key = ex.key
  /\ \A i \in DOMAIN stops : /\ stops'[i].key = stops[i].key
                             /\ stops[i].state # "open" => stops'[i].state # "open"

\* A step adds at most one order, and none while a fact or a Fill is written.
LEMMA StopsStep ==
  ASSUME BrokerTypes, GraphTypes, RunTypes, Next
  PROVE  /\ OrdersMove \/ OrderAdded
         /\ WriteStopFact \/ WriteStopFill \/ RefreshFills => OrdersMove \/ UNCHANGED <<facts, stopFills>>
<1>1. ASSUME UNCHANGED stops PROVE OrdersMove
  BY <1>1 DEF OrdersMove
<1>2. ASSUME NEW i, NEW st \in {"canceled", "triggered", "ended"}, stops' = Ending(stops, i, st)
      PROVE  OrdersMove
  BY <1>2, EndOrder DEF OrdersMove, BrokerTypes
<1>3. CASE CancelAnswered \/ CancelRaised
  <2>1. stops' = stops \/ \E i : stops' = Ending(stops, i, "canceled")
    BY <1>3 DEF CancelAnswered, CancelRaised, Ending
  <2> QED
    BY <1>1, <1>2, <2>1 DEF OrdersMove
<1>4. CASE SubmitStop \/ SubmitStopLost
  <2>1. \/ stops' = stops
        \/ KnownTo(ex.key) = {} /\ stops' = Accepted
    BY <1>4 DEF SubmitStop, SubmitStopLost
  <2>2. ex.pc = "submitstop" /\ UNCHANGED <<facts, stopFills>>
    BY <1>4 DEF SubmitStop, SubmitStopLost, graph
  <2>3. CASE KnownTo(ex.key) = {} /\ stops' = Accepted
    <3>1. Accepted[Len(stops) + 1].key = ex.key
      BY AcceptedType
    <3> HIDE DEF Accepted
    <3> QED
      BY <2>2, <2>3, <3>1, AcceptedType DEF OrderAdded
  <2> QED
    BY <1>1, <2>1, <2>2, <2>3
<1>5. CASE ReplaceStop \/ ReplaceRaised
  <2>1. \/ stops' = stops
        \/ KnownTo(ex.key) = {} /\ stops' = Replaced
    BY <1>5 DEF ReplaceStop, ReplaceRaised, CanReplace
  <2>2. ex.pc = "replace" /\ UNCHANGED <<facts, stopFills>>
    BY <1>5 DEF ReplaceStop, ReplaceRaised, graph
  <2>3. CASE KnownTo(ex.key) = {} /\ stops' = Replaced
    <3> HIDE DEF Replaced
    <3> QED
      BY <2>2, <2>3, ReplacedType DEF OrderAdded
  <2> QED
    BY <1>1, <2>1, <2>2, <2>3
<1>6. ASSUME NEW i \in DOMAIN stops, StopMoves(i) PROVE OrdersMove
  <2>1. \E st \in {"triggered", "ended"} : stops' = Ending(stops, i, st)
    BY <1>6 DEF StopMoves, Ending
  <2> QED
    BY <1>2, <2>1
<1>7. CASE RunStart \/ Decide \/ Begin \/ Refresh \/ Snapshot \/ ReconcileStops \/ FreeExit
           \/ MarkCancelled \/ CancelsDone \/ PlaceNothing \/ PlaceNew \/ KeepResting \/ Realign
  BY <1>1, <1>7 DEF RunStart, Decide, Begin, Refresh, Snapshot, ReconcileStops, FreeExit,
     MarkCancelled, CancelsDone, PlaceNothing, PlaceNew, KeepResting, Realign, broker
<1>8. CASE WriteStopFill \/ WriteStopFact \/ MarkReplaced \/ SubmitNothing \/ SubmitEntry
           \/ SkipExit \/ SubmitExit \/ Crash
  BY <1>1, <1>8 DEF WriteStopFill, WriteStopFact, MarkReplaced, SubmitNothing, SubmitEntry,
     SkipExit, SubmitExit, Crash, broker
<1>9. CASE Monitor
  BY <1>1, <1>9 DEF Monitor, MonitorSyncs, MonitorMarks, MonitorEvaluates, broker
<1>10. ASSUME NEW r \in Runs, EntryMoves(r) PROVE OrdersMove
  <2>1. stops' = stops
    BY <1>10 DEF EntryMoves
  <2> QED
    BY <1>1, <2>1
<1>11. ASSUME NEW ref \in DOMAIN exit, ExitMoves(ref) PROVE OrdersMove
  <2>1. stops' = stops
    BY <1>11 DEF ExitMoves
  <2> QED
    BY <1>1, <2>1
<1>12. OrdersMove \/ OrderAdded
  BY <1>3, <1>4, <1>5, <1>6, <1>7, <1>8, <1>9, <1>10, <1>11 DEF Next, Executor, Broker
<1> QED
  BY <1>12 DEF OrderAdded

\* Every step keeps each order where its key says.
LEMMA KeysStep ==
  ASSUME BrokerTypes, GraphTypes, RunTypes, KeysInv, PlacingInv, Next
  PROVE  KeysInv'
<1>1. CASE WriteStopFact
  <2>1. /\ NextFree(ex.key) /\ ex.answer.id \in DOMAIN stops
        /\ stops[ex.answer.id].key = ex.key
    BY <1>1 DEF WriteStopFact, PlacingInv, Places
  <2>2. /\ DOMAIN facts' = DOMAIN facts \cup {ex.key} /\ ex.key \notin DOMAIN facts
        /\ \A k \in DOMAIN facts : facts'[k] = facts[k]
        /\ facts'[ex.key].id = ex.answer.id
    BY <1>1, <2>1, NewFact DEF NextFree, FirstFreeOf
  <2>3. stops' = stops
    BY <1>1 DEF WriteStopFact, broker
  <2>4. \A k \in DOMAIN facts' : facts'[k].id \in DOMAIN stops' /\ stops'[facts'[k].id].key = k
    BY <2>1, <2>2, <2>3 DEF KeysInv, NextFree
  <2>5. ASSUME NEW i \in DOMAIN stops', stops'[i].key \notin DOMAIN facts'
        PROVE  FirstFreeOf(stops'[i].key, DOMAIN facts')
    <3>1. NextFree(stops[i].key)
      BY <2>2, <2>3, <2>5 DEF KeysInv
    <3> QED
      BY <2>2, <2>3, <2>5, <3>1 DEF NextFree, FirstFreeOf
  <2> QED
    BY <2>3, <2>4, <2>5 DEF KeysInv, NextFree
<1>2. CASE ~WriteStopFact
  <2>1. DOMAIN facts' = DOMAIN facts /\ \A k \in DOMAIN facts : facts'[k].id = facts[k].id
    BY <1>2, FactsStep
  <2>3. CASE OrdersMove
    <3>1. ASSUME NEW i \in DOMAIN stops', stops'[i].key \notin DOMAIN facts'
          PROVE  FirstFreeOf(stops'[i].key, DOMAIN facts')
      <4>1. stops'[i].key = stops[i].key /\ NextFree(stops[i].key)
        BY <2>1, <2>3, <3>1 DEF OrdersMove, KeysInv
      <4> QED
        BY <2>1, <4>1 DEF NextFree, FirstFreeOf
    <3>2. \A k \in DOMAIN facts' : facts'[k].id \in DOMAIN stops' /\ stops'[facts'[k].id].key = k
      BY <2>1, <2>3 DEF OrdersMove, KeysInv
    <3>3. \A i, j \in DOMAIN stops' : stops'[i].key = stops'[j].key => i = j
      BY <2>3 DEF OrdersMove, KeysInv
    <3> QED
      BY <3>1, <3>2, <3>3 DEF KeysInv, NextFree
  <2>4. CASE OrderAdded
    <3> DEFINE new == Len(stops) + 1
    <3>1. /\ DOMAIN stops' = DOMAIN stops \cup {new} /\ stops'[new].key = ex.key
          /\ \A i \in DOMAIN stops : stops'[i].key = stops[i].key /\ stops[i].key # ex.key
      BY <2>4 DEF OrderAdded, KnownTo
    <3>2. NextFree(ex.key)
      BY <2>4 DEF OrderAdded, PlacingInv, Places
    <3> HIDE DEF new
    <3>3. ASSUME NEW i \in DOMAIN stops', stops'[i].key \notin DOMAIN facts'
          PROVE  FirstFreeOf(stops'[i].key, DOMAIN facts')
      <4>1. NextFree(stops'[i].key)
        BY <2>1, <3>1, <3>2, <3>3 DEF KeysInv
      <4> QED
        BY <2>1, <4>1 DEF NextFree, FirstFreeOf
    <3>4. \A k \in DOMAIN facts' : facts'[k].id \in DOMAIN stops' /\ stops'[facts'[k].id].key = k
      BY <2>1, <3>1 DEF KeysInv, NextFree
    <3>5. \A i, j \in DOMAIN stops' : stops'[i].key = stops'[j].key => i = j
      BY <3>1 DEF KeysInv, NextFree
    <3> QED
      BY <3>3, <3>4, <3>5 DEF KeysInv, NextFree
  <2> QED
    BY <2>3, <2>4, StopsStep
<1> QED
  BY <1>1, <1>2

\* An order without a fact is found again under its own key.
LEMMA FoundFromKeys ==
  ASSUME BrokerTypes, GraphTypes, KeysInv
  PROVE  LostStopIsFound
<1> SUFFICES ASSUME NEW i \in DOMAIN stops, \A k \in DOMAIN facts : facts[k].id # i
             PROVE  FreeKey(stops[i].key.ref) = stops[i].key
  BY DEF LostStopIsFound, OpenStops
<1>1. stops[i].key \in StopKeys /\ stops[i].key.ref \in Refs
  <2>1. stops[i] \in StopOrders
    BY DEF BrokerTypes
  <2> QED
    BY <2>1 DEF StopOrders, StopKeys
<1>2. stops[i].key \notin DOMAIN facts
  BY DEF KeysInv
<1>3. NextFree(stops[i].key)
  BY <1>2 DEF KeysInv
<1> QED
  BY <1>1, <1>3, FreeKeyIsNext

\* What the agent does next with a placement in hand.
LEMMA PlacingSteps ==
  ASSUME RunTypes, Next
  PROVE  \/ UNCHANGED ex
         \/ PlaceNew \/ Realign \/ SubmitStop \/ SubmitStopLost \/ ReplaceStop
         \/ WriteStopFill \/ WriteStopFact
         \/ /\ ex'.pc \notin Places \cup {"markold"}
            /\ ex'.answer = ex.answer \/ ex'.answer = NoAnswer
<1> USE DEF Steps, Places
<1>0. ex \in Hands /\ Idle \in Hands /\ Idle.pc = "idle" /\ Idle.answer = NoAnswer
  BY IdleType DEF RunTypes, Idle
<1> HIDE DEF Idle
<1>1. CASE RunStart \/ Decide \/ Monitor \/ Broker
  BY <1>1 DEF RunStart, Decide, Monitor, MonitorSyncs, MonitorMarks, MonitorEvaluates,
     Broker, EntryMoves, StopMoves, ExitMoves
<1>2. CASE Begin \/ Crash
  BY <1>0, <1>2 DEF Begin, Crash, Hands
<1>3. CASE Refresh \/ Snapshot
  BY <1>0, <1>3 DEF Refresh, Snapshot, Hands
<1>4. CASE ReconcileStops
  BY <1>0, <1>4 DEF ReconcileStops, Hands
<1>5. CASE FreeExit
  BY <1>0, <1>5 DEF FreeExit, Hands
<1>6. CASE CancelAnswered
  BY <1>0, <1>6 DEF CancelAnswered, Hands
<1>7. CASE CancelRaised
  BY <1>0, <1>7 DEF CancelRaised, Hands
<1>8. CASE MarkCancelled
  BY <1>0, <1>8 DEF MarkCancelled, Hands
<1>9. CASE CancelsDone
  BY <1>0, <1>9 DEF CancelsDone, Hands
<1>10. CASE PlaceNothing \/ KeepResting
  BY <1>0, <1>10 DEF PlaceNothing, KeepResting, Hands
<1>11. CASE ReplaceRaised \/ MarkReplaced
  BY <1>0, <1>11 DEF ReplaceRaised, MarkReplaced, Hands
<1>12. CASE SubmitNothing \/ SubmitEntry \/ SkipExit \/ SubmitExit
  <2>1. \E told : Finish(told)
    BY <1>12 DEF SubmitNothing, SubmitEntry, SkipExit, SubmitExit
  <2> QED
    BY <1>0, <2>1 DEF Finish, Hands
<1> QED
  BY <1>1, <1>2, <1>3, <1>4, <1>5, <1>6, <1>7, <1>8, <1>9, <1>10, <1>11, <1>12 DEF Next, Executor

\* Orders stay under their numbers and keys.
LEMMA OrdersStay ==
  ASSUME BrokerTypes, GraphTypes, RunTypes, Next
  PROVE  /\ Len(stops) \in Nat /\ DOMAIN stops = 1..Len(stops)
         /\ Len(stops') \in Nat /\ Len(stops) <= Len(stops') /\ DOMAIN stops \subseteq DOMAIN stops'
         /\ \A i \in DOMAIN stops : /\ stops'[i].key = stops[i].key
                                    /\ stops[i].state # "open" => stops'[i].state # "open"
<1>1. Len(stops) \in Nat /\ DOMAIN stops = 1..Len(stops)
  BY DEF BrokerTypes
<1> QED
  BY <1>1, StopsStep DEF OrdersMove, OrderAdded

\* Every Fill that is written names the order it is about, or none.
LEMMA FillsStep ==
  ASSUME BrokerTypes, GraphTypes, RunTypes, PlacingInv, FillsInv, Next
  PROVE  FillsInv'
<1>1. ASSUME NEW f \in DOMAIN stopFills' PROVE stopFills'[f].id \in 0..Len(stops)
  <2>1. CASE UNCHANGED stopFills
    BY <2>1 DEF FillsInv
  <2>2. CASE RefreshFills
    BY <2>2, RefreshTypes DEF FillsInv
  <2>3. CASE WriteStopFill
    BY <2>3, NewFill DEF FillsInv, PlacingInv
  <2> QED
    BY <2>1, <2>2, <2>3, FillSteps
<1> QED
  BY <1>1, OrdersStay DEF FillsInv

\* Every step keeps what a placement in hand relies on.
LEMMA PlacingStep ==
  ASSUME BrokerTypes, GraphTypes, RunTypes, PlacingInv, Next
  PROVE  PlacingInv'
<1> USE DEF Places
<1>0. ex \in Hands /\ ex.answer.id \in Nat /\ NoAnswer.id = 0
      /\ ex.answer \in [id : Nat, said : Verdicts]
  BY DEF RunTypes, Hands, NoAnswer
<1>1. /\ Len(stops) \in Nat /\ DOMAIN stops = 1..Len(stops)
      /\ Len(stops') \in Nat /\ Len(stops) <= Len(stops') /\ DOMAIN stops \subseteq DOMAIN stops'
      /\ \A i \in DOMAIN stops : stops'[i].key = stops[i].key
  BY OrdersStay
<1>3. CASE PlaceNew \/ Realign
  <2>1. NextFree(FreeKey(PlanKeys)) /\ facts' = facts /\ stops' = stops
    BY <1>3, PlanTypes, FreeKeyIsNext DEF PlaceNew, Realign, graph, broker
  <2>2. ex'.key = FreeKey(PlanKeys) /\ ex'.answer = ex.answer /\ ex'.pc \in {"submitstop", "replace"}
    BY <1>0, <1>3 DEF PlaceNew, Realign, Hands
  <2> QED
    BY <2>1, <2>2 DEF PlacingInv, NextFree
<1>4. CASE SubmitStop \/ SubmitStopLost \/ ReplaceStop
  <2>1. ex.pc \in Places /\ facts' = facts
    BY <1>4 DEF SubmitStop, SubmitStopLost, ReplaceStop, graph
  <2> DEFINE About(id, said) ==
        said # "rejected" => id \in DOMAIN stops' /\ stops'[id].key = ex.key
  <2>2. \E id \in 0..Len(stops') : \E said \in Verdicts : Answered(id, said) /\ About(id, said)
    <3>1. CASE SubmitStop
      <4>1. ASSUME NEW i \in KnownTo(ex.key), Answered(i, Says(stops[i].state)), stops' = stops
            PROVE  \E id \in 0..Len(stops') : \E said \in Verdicts :
                     Answered(id, said) /\ About(id, said)
        BY <1>0, <4>1, SaysVerdict DEF KnownTo
      <4>2. ASSUME stops' = Accepted, Answered(Len(stops) + 1, "pending")
            PROVE  \E id \in 0..Len(stops') : \E said \in Verdicts :
                     Answered(id, said) /\ About(id, said)
        <5>1. /\ Accepted[Len(stops) + 1].key = ex.key /\ Len(Accepted) = Len(stops) + 1
              /\ Len(stops) + 1 \in DOMAIN Accepted
          BY AcceptedType
        <5> HIDE DEF Accepted
        <5> QED
          BY <1>0, <4>2, <5>1 DEF Verdicts
      <4>3. ASSUME stops' = stops, Answered(0, "rejected")
            PROVE  \E id \in 0..Len(stops') : \E said \in Verdicts :
                     Answered(id, said) /\ About(id, said)
        BY <1>0, <4>3 DEF Verdicts
      <4> QED
        BY <3>1, <4>1, <4>2, <4>3 DEF SubmitStop
    <3>2. CASE SubmitStopLost
      BY <1>1, <3>2 DEF SubmitStopLost, Verdicts
    <3>3. CASE ReplaceStop
      <4>1. /\ Replaced[Len(stops) + 1].key = ex.key /\ Len(Replaced) = Len(stops) + 1
            /\ Len(stops) + 1 \in DOMAIN Replaced
        BY ReplacedType
      <4> HIDE DEF Replaced
      <4> QED
        BY <1>0, <3>3, <4>1 DEF ReplaceStop, Verdicts
    <3> QED
      BY <1>4, <3>1, <3>2, <3>3
  <2>3. PICK id \in 0..Len(stops'), said \in Verdicts : Answered(id, said) /\ About(id, said)
    BY <2>2
  <2>4. ex'.pc = "stopfill" /\ ex'.key = ex.key /\ ex'.answer.id = id /\ ex'.answer.said = said
    BY <1>0, <2>3 DEF Answered, Hands
  <2> QED
    BY <2>1, <2>3, <2>4 DEF PlacingInv, NextFree
<1>5. CASE WriteStopFill
  <2>1. /\ ex'.key = ex.key /\ ex'.answer = ex.answer
        /\ ex'.pc = IF ex.answer.said = "rejected" THEN "submit" ELSE "fact"
        /\ facts' = facts /\ stops' = stops /\ ex.pc = "stopfill"
    BY <1>0, <1>5 DEF WriteStopFill, AfterFill, Hands, broker
  <2> QED
    BY <2>1 DEF PlacingInv, NextFree
<1>6. CASE WriteStopFact
  <2>1. /\ ex'.answer = ex.answer /\ ex'.pc \in {"submit", "markold"} /\ stops' = stops
        /\ ex.pc = "fact"
    BY <1>0, <1>6 DEF WriteStopFact, Hands, broker
  <2> QED
    BY <2>1 DEF PlacingInv
<1>7. CASE UNCHANGED ex
  <2>1. ex.pc \notin Places => ex'.pc \notin Places
    BY <1>7
  <2>2. DOMAIN facts' = DOMAIN facts \/ WriteStopFact
    BY FactsStep
  <2>3. CASE DOMAIN facts' = DOMAIN facts
    BY <1>0, <1>1, <1>7, <2>3 DEF PlacingInv, NextFree
  <2> QED
    BY <1>6, <2>2, <2>3
<1>8. CASE /\ ex'.pc \notin Places \cup {"markold"}
           /\ ex'.answer = ex.answer \/ ex'.answer = NoAnswer
  BY <1>0, <1>1, <1>8 DEF PlacingInv
<1> QED
  BY <1>3, <1>4, <1>5, <1>6, <1>7, <1>8, PlacingSteps

\* What the run's refresh left behind: the stops it found at an end stay there,
\* and no Fill of theirs waits on the broker any more.
RefreshedInv ==
  /\ \A i \in ex.over : i \in DOMAIN stops /\ stops[i].state # "open"
  /\ \A f \in DOMAIN stopFills :
       stopFills[f].id \in ex.over /\ stopFills[f].said = "pending"
         => stopFills[f].broker # "unset"
  /\ ex.pc = "stopfill" /\ ex.answer.said = "pending" => ex.answer.id \notin ex.over

\* The stops a run found over change with a refresh, and are forgotten with the run.
LEMMA OverSteps ==
  ASSUME RunTypes, Next
  PROVE  /\ ex'.over = ex.over \/ ex'.over = {} \/ (Refresh /\ RefreshFills)
         /\ \/ UNCHANGED <<ex, stopFills>> \/ SubmitStop \/ SubmitStopLost \/ ReplaceStop
            \/ ex'.pc # "stopfill"
<1> USE DEF Steps, Places
<1>0. ex \in Hands /\ Idle \in Hands /\ Idle.pc = "idle" /\ Idle.over = {}
  BY IdleType DEF RunTypes, Idle
<1> HIDE DEF Idle
<1>1. CASE RunStart
  BY <1>0, <1>1 DEF RunStart
<1>2. CASE Begin \/ Crash
  BY <1>0, <1>2 DEF Begin, Crash, Hands
<1>3. CASE Refresh
  BY <1>0, <1>3 DEF Refresh, Hands
<1>4. CASE Snapshot \/ ReconcileStops
  BY <1>0, <1>4 DEF Snapshot, ReconcileStops, Hands
<1>5. CASE FreeExit
  BY <1>0, <1>5 DEF FreeExit, Hands
<1>6. CASE CancelAnswered
  BY <1>0, <1>6 DEF CancelAnswered, Hands
<1>7. CASE CancelRaised \/ MarkCancelled
  BY <1>0, <1>7 DEF CancelRaised, MarkCancelled, Hands
<1>8. CASE CancelsDone
  BY <1>0, <1>8 DEF CancelsDone, Hands
<1>9. CASE PlaceNothing \/ KeepResting
  BY <1>0, <1>9 DEF PlaceNothing, KeepResting, Hands
<1>10. CASE PlaceNew \/ Realign
  BY <1>0, <1>10 DEF PlaceNew, Realign, Hands
<1>11. CASE SubmitStop \/ SubmitStopLost \/ ReplaceStop
  BY <1>0, <1>11 DEF SubmitStop, SubmitStopLost, ReplaceStop, Answered, Hands
<1>12. CASE ReplaceRaised \/ MarkReplaced
  BY <1>0, <1>12 DEF ReplaceRaised, MarkReplaced, Hands
<1>13. CASE WriteStopFill
  BY <1>0, <1>13 DEF WriteStopFill, AfterFill, Hands
<1>14. CASE WriteStopFact
  BY <1>0, <1>14 DEF WriteStopFact, Hands
<1>15. CASE SubmitNothing \/ SubmitEntry \/ SkipExit \/ SubmitExit
  <2>1. \E told : Finish(told)
    BY <1>15 DEF SubmitNothing, SubmitEntry, SkipExit, SubmitExit
  <2> QED
    BY <1>0, <2>1 DEF Finish, Hands
<1>16. CASE Decide \/ Monitor \/ Broker
  BY <1>16 DEF Decide, Monitor, MonitorSyncs, MonitorMarks, MonitorEvaluates,
     Broker, EntryMoves, StopMoves, ExitMoves, graph
<1> QED
  BY <1>1, <1>2, <1>3, <1>4, <1>5, <1>6, <1>7, <1>8, <1>9, <1>10, <1>11, <1>12, <1>13, <1>14,
     <1>15, <1>16 DEF Next, Executor

\* Every step keeps what the refresh established.
LEMMA RefreshedStep ==
  ASSUME BrokerTypes, GraphTypes, RunTypes, PlacingInv, FillsInv, RefreshedInv, Next
  PROVE  RefreshedInv'
<1>0. ex \in Hands /\ ex.over \subseteq Nat /\ ex.answer \in [id : Nat, said : Verdicts]
  BY DEF RunTypes, Hands
<1>1. /\ Len(stops) \in Nat /\ DOMAIN stops = 1..Len(stops)
      /\ Len(stops') \in Nat /\ Len(stops) <= Len(stops') /\ DOMAIN stops \subseteq DOMAIN stops'
      /\ \A i \in DOMAIN stops : stops[i].state # "open" => stops'[i].state # "open"
  BY OrdersStay
<1>2. CASE Refresh /\ RefreshFills
  <2>1. /\ ex'.over \subseteq DOMAIN stops \ OpenStops \/ ex'.over = ex.over
        /\ ex'.pc = "snapshot" /\ stops' = stops
    BY <1>0, <1>2 DEF Refresh, Hands, broker
  <2>2. \A i \in ex'.over : i \in DOMAIN stops /\ stops[i].state # "open"
    BY <2>1 DEF RefreshedInv, OpenStops
  <2>3. ASSUME NEW f \in DOMAIN stopFills', stopFills'[f].id \in ex'.over,
               stopFills'[f].said = "pending"
        PROVE  stopFills'[f].broker # "unset"
    <3>1. f \in DOMAIN stopFills /\ stopFills'[f].id = stopFills[f].id
          /\ stopFills'[f].said = stopFills[f].said
      BY <1>2, <2>3, RefreshTypes
    <3>2. stops[stopFills[f].id].state # "open"
      BY <2>2, <2>3, <3>1
    <3>3. CASE stopFills[f].broker # "unset"
      BY <1>2, <3>1, <3>3, RefreshTypes
    <3>4. CASE stopFills[f].broker = "unset"
      BY <1>2, <2>3, <3>1, <3>2, <3>4, RefreshTypes DEF AwaitsBroker
    <3> QED
      BY <3>3, <3>4
  <2> QED
    BY <2>1, <2>2, <2>3 DEF RefreshedInv
<1>3. CASE ex'.over = ex.over \/ ex'.over = {}
  <2>0. ex'.over \subseteq ex.over
    BY <1>3
  <2>1. \A i \in ex'.over : i \in DOMAIN stops' /\ stops'[i].state # "open"
    BY <1>1, <2>0 DEF RefreshedInv
  <2>2. ASSUME NEW f \in DOMAIN stopFills', stopFills'[f].id \in ex.over,
               stopFills'[f].said = "pending"
        PROVE  stopFills'[f].broker # "unset"
    <3>1. CASE UNCHANGED stopFills
      BY <2>2, <3>1 DEF RefreshedInv
    <3>2. CASE RefreshFills
      BY <2>2, <3>2, RefreshTypes DEF RefreshedInv
    <3>3. CASE WriteStopFill
      <4>1. CASE f \in DOMAIN stopFills
        BY <2>2, <3>3, <4>1, NewFill DEF RefreshedInv
      <4>2. CASE f \notin DOMAIN stopFills
        <5>1. stopFills'[f].id = ex.answer.id /\ stopFills'[f].said = ex.answer.said
          BY <3>3, <4>2, NewFill
        <5>2. ex.pc = "stopfill"
          BY <3>3 DEF WriteStopFill
        <5> QED
          BY <2>2, <5>1, <5>2 DEF RefreshedInv
      <4> QED
        BY <4>1, <4>2
    <3> QED
      BY <3>1, <3>2, <3>3, FillSteps
  <2>3. ex'.pc = "stopfill" /\ ex'.answer.said = "pending" => ex'.answer.id \notin ex'.over
    <3>1. CASE UNCHANGED <<ex, stopFills>>
      BY <3>1 DEF RefreshedInv
    <3>2. ASSUME NEW id \in Nat, Answered(id, "pending"), id \notin ex.over
          PROVE  ex'.answer.id \notin ex'.over
      BY <1>0, <2>0, <3>2 DEF Answered, Hands
    <3>3. Len(stops) + 1 \notin ex.over /\ Len(stops) + 1 \in Nat
      BY <1>1 DEF RefreshedInv
    <3>4. CASE SubmitStop
      <4>1. ASSUME NEW i \in KnownTo(ex.key), Answered(i, Says(stops[i].state)),
                   ex'.answer.said = "pending"
            PROVE  ex'.answer.id \notin ex'.over
        <5>1. ex'.answer.said = Says(stops[i].state)
          BY <1>0, <4>1 DEF Answered, Hands
        <5>2. stops[i].state = "open" /\ Says(stops[i].state) = "pending" /\ i \in DOMAIN stops
          BY <4>1, <5>1, SaysVerdict DEF KnownTo
        <5> QED
          BY <1>1, <3>2, <4>1, <5>2 DEF RefreshedInv
      <4>2. CASE Answered(0, "rejected")
        BY <1>0, <4>2 DEF Answered, Hands
      <4> QED
        BY <3>2, <3>3, <3>4, <4>1, <4>2 DEF SubmitStop
    <3>5. CASE SubmitStopLost
      BY <1>0, <3>5 DEF SubmitStopLost, Answered, Hands
    <3>6. CASE ReplaceStop
      BY <3>2, <3>3, <3>6 DEF ReplaceStop
    <3> QED
      BY <3>1, <3>4, <3>5, <3>6, OverSteps
  <2> QED
    BY <2>0, <2>1, <2>2, <2>3 DEF RefreshedInv
<1> QED
  BY <1>2, <1>3, OverSteps

\* Why a run may go on to submit: nothing it saw needs a stop, or it told, or the
\* broker answered its placement with an order, or a fact still stands for a stop.
KeptInv ==
  /\ ex.pc = "submit" /\ Fresh /\ ~Sold
       => \/ ex.told \/ ex.seen = Flat \/ ex.answer.said # "rejected" \/ LiveFacts # {}
  /\ ex.pc = "replace" => LiveFacts # {}

\* Liveness of facts is read off the graph.
LEMMA SameLiveFacts ==
  ASSUME UNCHANGED <<facts, stopFills>>
  PROVE  LiveFacts' = LiveFacts
BY DEF LiveFacts, IsLive, Siblings, FillKey, Suffix, Terminal

\* The steps that lead to the submission of a run's orders.
LEMMA LandingSteps ==
  ASSUME RunTypes, Next
  PROVE  \/ PlaceNothing \/ KeepResting \/ Realign \/ ReplaceRaised
         \/ WriteStopFill \/ WriteStopFact \/ MarkReplaced
         \/ UNCHANGED <<ex, pm, facts, stopFills>>
         \/ ex'.pc \notin {"submit", "replace"}
<1> USE DEF Steps, Places
<1>0. ex \in Hands /\ Idle \in Hands /\ Idle.pc = "idle"
  BY IdleType DEF RunTypes
<1> HIDE DEF Idle
<1>1. CASE RunStart \/ Decide
  BY <1>1 DEF RunStart, Decide
<1>2. CASE Begin \/ Crash
  BY <1>0, <1>2 DEF Begin, Crash, Hands
<1>3. CASE Refresh \/ Snapshot \/ ReconcileStops
  BY <1>0, <1>3 DEF Refresh, Snapshot, ReconcileStops, Hands
<1>4. CASE FreeExit \/ PlaceNew
  BY <1>0, <1>4 DEF FreeExit, PlaceNew, Hands
<1>5. CASE CancelAnswered
  BY <1>0, <1>5 DEF CancelAnswered, Hands
<1>6. CASE CancelRaised \/ MarkCancelled
  BY <1>0, <1>6 DEF CancelRaised, MarkCancelled, Hands
<1>7. CASE CancelsDone
  BY <1>0, <1>7 DEF CancelsDone, Hands
<1>8. CASE SubmitStop \/ SubmitStopLost \/ ReplaceStop
  BY <1>0, <1>8 DEF SubmitStop, SubmitStopLost, ReplaceStop, Answered, Hands
<1>9. CASE SubmitNothing \/ SubmitEntry \/ SkipExit \/ SubmitExit
  <2>1. \E told : Finish(told)
    BY <1>9 DEF SubmitNothing, SubmitEntry, SkipExit, SubmitExit
  <2> QED
    BY <1>0, <2>1 DEF Finish, Hands
<1>10. CASE Monitor \/ Broker
  BY <1>10 DEF Monitor, MonitorSyncs, MonitorMarks, MonitorEvaluates,
     Broker, EntryMoves, StopMoves, ExitMoves, graph
<1> QED
  BY <1>1, <1>2, <1>3, <1>4, <1>5, <1>6, <1>7, <1>8, <1>9, <1>10 DEF Next, Executor

\* Every step keeps the reasons of a run that goes on to submit.
LEMMA KeptStep ==
  ASSUME RunTypes, PlacingInv, KeptInv, Next
  PROVE  KeptInv'
<1>0. ex \in Hands
  BY DEF RunTypes
<1>1. CASE PlaceNothing
  <2>1. /\ ex'.pc = "submit" /\ ex'.seen = ex.seen /\ pm' = pm
        /\ Fresh /\ ~Sold /\ (NoThreshold \/ NoMatch) => ex'.told
        /\ ~Fresh \/ Sold \/ ex.seen = Flat \/ NoThreshold \/ NoMatch
    BY <1>0, <1>1 DEF PlaceNothing, Hands
  <2> QED
    BY <2>1 DEF KeptInv, Fresh, Sold
<1>2. CASE KeepResting \/ Realign
  <2>1. LiveFacts # {} /\ UNCHANGED <<facts, stopFills>>
    BY <1>2 DEF KeepResting, Realign, ProtectedRefs, graph
  <2> QED
    BY <2>1, SameLiveFacts DEF KeptInv
<1>3. CASE ReplaceRaised
  <2>1. LiveFacts # {} /\ UNCHANGED <<facts, stopFills>>
    BY <1>3 DEF ReplaceRaised, KeptInv, graph
  <2> QED
    BY <2>1, SameLiveFacts DEF KeptInv
<1>4. CASE WriteStopFill
  <2>1. /\ ex'.answer = ex.answer /\ ex'.pc \in {"submit", "fact"}
        /\ ex.answer.said = "rejected" => ex'.told
    BY <1>0, <1>4 DEF WriteStopFill, AfterFill, Hands
  <2> QED
    BY <2>1 DEF KeptInv
<1>5. CASE WriteStopFact \/ MarkReplaced
  <2>1. ex.answer.said # "rejected"
    BY <1>5 DEF WriteStopFact, MarkReplaced, PlacingInv
  <2>2. ex'.answer = ex.answer /\ ex'.pc \in {"submit", "markold"}
    BY <1>0, <1>5 DEF WriteStopFact, MarkReplaced, Hands
  <2> QED
    BY <2>1, <2>2 DEF KeptInv
<1>6. CASE UNCHANGED <<ex, pm, facts, stopFills>>
  BY <1>6, SameLiveFacts DEF KeptInv, Fresh, Sold
<1>7. CASE ex'.pc \notin {"submit", "replace"}
  BY <1>7 DEF KeptInv
<1> QED
  BY <1>1, <1>2, <1>3, <1>4, <1>5, <1>6, <1>7, LandingSteps

\* An exit's Fill that awaits or carries a fill is about an order at the broker.
ExitInv ==
  \A ref \in DOMAIN exitFill :
    /\ exitFill[ref] \in {"pending", "filled"} => ref \in DOMAIN exit
    /\ exitFill[ref] = "filled" => exit[ref] = "filled"

\* Every step keeps the exits' Fills true to their orders.
LEMMA ExitStep ==
  ASSUME BrokerTypes, GraphTypes, RunTypes, ExitInv, Next
  PROVE  ExitInv'
<1>1. CASE UNCHANGED <<exitFill, exit>>
  BY <1>1 DEF ExitInv
<1>2. \A st \in {"open", "filled", "ended"} : Says(st) = "filled" => st = "filled"
  BY DEF Says
<1>3. CASE RefreshFills /\ UNCHANGED exit
  <2>1. DOMAIN exitFill' = DOMAIN exitFill
    BY <1>3 DEF RefreshFills
  <2>2. ASSUME NEW ref \in DOMAIN exitFill
        PROVE  /\ exitFill'[ref] \in {"pending", "filled"} => ref \in DOMAIN exit
               /\ exitFill'[ref] = "filled" => exit[ref] = "filled"
    <3>1. exitFill'[ref] = IF exitFill[ref] = "pending" THEN Says(exit[ref]) ELSE exitFill[ref]
      BY <1>3 DEF RefreshFills
    <3>2. CASE exitFill[ref] = "pending"
      <4>1. ref \in DOMAIN exit /\ exit[ref] \in {"open", "filled", "ended"}
        BY <3>2 DEF ExitInv, BrokerTypes
      <4> QED
        BY <1>2, <3>1, <3>2, <4>1
    <3>3. CASE exitFill[ref] # "pending"
      BY <3>1, <3>3 DEF ExitInv
    <3> QED
      BY <3>2, <3>3
  <2> QED
    BY <1>3, <2>1, <2>2 DEF ExitInv
<1>4. ASSUME NEW v \in Verdicts, exitFill' = Put(exitFill, pm.ref, v), DOMAIN exit \subseteq DOMAIN exit',
             \A ref \in DOMAIN exit : exit'[ref] = exit[ref],
             v \in {"pending", "filled"} => pm.ref \in DOMAIN exit',
             v = "filled" => exit'[pm.ref] = "filled"
      PROVE  ExitInv'
  <2>1. DOMAIN exitFill' = DOMAIN exitFill \cup {pm.ref} /\ exitFill'[pm.ref] = v
        /\ \A ref \in DOMAIN exitFill : ref # pm.ref => exitFill'[ref] = exitFill[ref]
    BY <1>4 DEF Put
  <2>2. ASSUME NEW ref \in DOMAIN exitFill'
        PROVE  /\ exitFill'[ref] \in {"pending", "filled"} => ref \in DOMAIN exit'
               /\ exitFill'[ref] = "filled" => exit'[ref] = "filled"
    BY <1>4, <2>1, <2>2 DEF ExitInv
  <2> QED
    BY <2>2 DEF ExitInv
<1>5. CASE SubmitExit
  <2>0. {"pending", "filled", "rejected"} = Verdicts /\ "pending" # "filled"
        /\ "rejected" \notin {"pending", "filled"}
    BY DEF Verdicts
  <2>1. CASE exit' = exit /\ pm.ref \in DOMAIN exit
             /\ exitFill' = Put(exitFill, pm.ref, Says(exit[pm.ref]))
    <3>1. exit[pm.ref] \in {"open", "filled", "ended"}
      BY <2>1 DEF BrokerTypes
    <3> QED
      BY <1>2, <1>4, <2>1, <3>1, SaysVerdict
  <2>2. CASE exit' = Put(exit, pm.ref, "open") /\ pm.ref \notin DOMAIN exit
             /\ exitFill' = Put(exitFill, pm.ref, "pending")
    <3>1. pm.ref \in DOMAIN exit' /\ DOMAIN exit \subseteq DOMAIN exit'
          /\ \A ref \in DOMAIN exit : exit'[ref] = exit[ref]
      BY <2>2 DEF Put
    <3> QED
      BY <1>4, <2>0, <2>2, <3>1
  <2>3. CASE exit' \in {exit, Put(exit, pm.ref, "open")} /\ pm.ref \notin DOMAIN exit
             /\ exitFill' = Put(exitFill, pm.ref, "rejected")
    <3>1. DOMAIN exit \subseteq DOMAIN exit' /\ \A ref \in DOMAIN exit : exit'[ref] = exit[ref]
      BY <2>3 DEF Put
    <3> QED
      BY <1>4, <2>0, <2>3, <3>1
  <2> QED
    BY <1>5, <2>1, <2>2, <2>3 DEF SubmitExit, WithExit
<1>6. ASSUME NEW ref \in DOMAIN exit, ExitMoves(ref) PROVE ExitInv'
  <2>1. exit[ref] = "open" /\ exitFill' = exitFill /\ DOMAIN exit' = DOMAIN exit
        /\ \A r \in DOMAIN exit : r # ref => exit'[r] = exit[r]
    BY <1>6 DEF ExitMoves, graph
  <2> QED
    BY <2>1 DEF ExitInv
<1> QED
  BY <1>1, <1>3, <1>5, <1>6, FillSteps

\* Only the submission of its orders ends a run.
LEMMA EndingSteps ==
  ASSUME RunTypes, Next, EndsRun
  PROVE  SubmitNothing \/ SubmitEntry \/ SkipExit \/ SubmitExit
<1>1. CASE UNCHANGED pm
  BY <1>1 DEF EndsRun
<1>2. CASE RunStart \/ Decide
  BY <1>2 DEF RunStart, Decide, EndsRun, RunTypes, Decisions
<1>3. CASE Begin \/ Refresh \/ Snapshot \/ ReconcileStops \/ FreeExit \/ CancelAnswered
           \/ CancelRaised \/ MarkCancelled \/ CancelsDone \/ PlaceNothing \/ PlaceNew
           \/ KeepResting \/ Realign
  BY <1>1, <1>3 DEF Begin, Refresh, Snapshot, ReconcileStops, FreeExit, CancelAnswered,
     CancelRaised, MarkCancelled, CancelsDone, PlaceNothing, PlaceNew, KeepResting, Realign
<1>4. CASE SubmitStop \/ SubmitStopLost \/ ReplaceStop \/ ReplaceRaised \/ WriteStopFill
           \/ WriteStopFact \/ MarkReplaced \/ Crash
  BY <1>1, <1>4 DEF SubmitStop, SubmitStopLost, ReplaceStop, ReplaceRaised, WriteStopFill,
     WriteStopFact, MarkReplaced, Crash
<1>5. CASE Monitor \/ Broker
  BY <1>1, <1>5 DEF Monitor, MonitorSyncs, MonitorMarks, MonitorEvaluates, Broker, EntryMoves,
     StopMoves, ExitMoves
<1> QED
  BY <1>2, <1>3, <1>4, <1>5 DEF Next, Executor

\* A run that ends after it freed an exit's shares has the exit or has told.
LEMMA FreedStep ==
  ASSUME BrokerTypes, RunTypes, ExitInv, Next, EndsRun, Sold, ex.freed
  PROVE  ex'.told \/ (pm.ref \in DOMAIN exit' /\ exit'[pm.ref] \in {"open", "filled"})
<1>1. CASE SubmitNothing \/ SubmitEntry
  BY <1>1 DEF SubmitNothing, SubmitEntry, Sold
<1>2. CASE SkipExit
  <2>1. pm.ref \in DOMAIN exit /\ exit[pm.ref] = "filled"
    BY <1>2 DEF SkipExit, CompletedExit, ExitInv
  <2> QED
    BY <1>2, <2>1 DEF SkipExit, broker
<1>3. CASE SubmitExit
  <2>1. CASE pm.ref \in DOMAIN exit /\ exit' = exit /\ Finish(Reported(Says(exit[pm.ref])))
    <3>1. exit[pm.ref] \in {"open", "filled", "ended"}
      BY <2>1 DEF BrokerTypes
    <3>2. CASE exit[pm.ref] \in {"open", "filled"}
      BY <2>1, <3>2
    <3>3. CASE exit[pm.ref] = "ended"
      <4>1. Says(exit[pm.ref]) = "rejected"
        BY <3>3 DEF Says
      <4>2. Reported(Says(exit[pm.ref])) \in BOOLEAN /\ Reported(Says(exit[pm.ref]))
        BY <4>1 DEF Reported
      <4> QED
        BY <2>1, <4>2, FinishTypes
    <3> QED
      BY <3>1, <3>2, <3>3
  <2>2. CASE exit' = Put(exit, pm.ref, "open")
    BY <2>2 DEF Put
  <2>3. CASE Finish(Reported("rejected"))
    <3>1. Reported("rejected") \in BOOLEAN /\ Reported("rejected")
      BY DEF Reported
    <3> QED
      BY <2>3, <3>1, FinishTypes
  <2> QED
    BY <1>3, <2>1, <2>2, <2>3 DEF SubmitExit, WithExit
<1> QED
  BY <1>1, <1>2, <1>3, EndingSteps

\* A watched fact that still stands for a stop says that the run's refresh did not
\* find it over.
LEMMA StandingFact ==
  ASSUME GraphTypes, RefreshedInv, NEW k \in LiveFacts, Watched(k)
  PROVE  facts[k].id \notin ex.over
<1> DEFINE f == FillKey(k, 0)
<1>1. f \in DOMAIN stopFills /\ stopFills[f].id = facts[k].id /\ stopFills[f].said = "pending"
  BY DEF Watched, Own
<1>2. f \in Siblings(k) /\ IsLive(k)
  BY <1>1 DEF Siblings, LiveFacts
<1>3. stopFills[f].broker \notin {"filled", "rejected"}
  BY <1>2 DEF IsLive, Terminal
<1>4. stopFills[f] \in StopFillNodes
  BY <1>1 DEF GraphTypes
<1>5. stopFills[f].broker = "unset"
  BY <1>3, <1>4 DEF StopFillNodes
<1> QED
  BY <1>1, <1>5 DEF RefreshedInv

\* A run that ends over a position it keeps has told, or leaves it with a stop.
LEMMA KeptEnds ==
  ASSUME GraphTypes, RunTypes, KeptInv, RefreshedInv, Next, EndsRun, ~Sold, Fresh,
         held # Flat, held = ex.seen
  PROVE  \/ ex'.told \/ ex.answer.said # "rejected"
         \/ \E k \in LiveFacts : ~Watched(k) \/ facts[k].id \notin ex.over
<1>1. CASE SkipExit \/ SubmitExit
  BY <1>1 DEF SkipExit, SubmitExit
<1>2. CASE SubmitNothing \/ SubmitEntry
  <2>1. ex.pc = "submit" /\ Finish(ex.told) /\ ex.told \in BOOLEAN
    BY <1>2 DEF SubmitNothing, SubmitEntry, RunTypes, Hands
  <2>2. ex'.told = ex.told
    BY <2>1, FinishTypes
  <2>3. ex.told \/ ex.answer.said # "rejected" \/ LiveFacts # {}
    BY <2>1 DEF KeptInv
  <2> QED
    BY <2>2, <2>3, StandingFact
<1> QED
  BY <1>1, <1>2, EndingSteps

\* The inductive invariant.
BookInv ==
  /\ BrokerTypes /\ GraphTypes /\ RunTypes
  /\ KeysInv /\ PlacingInv /\ FillsInv /\ RefreshedInv /\ KeptInv /\ ExitInv

\* It holds of the empty book.
LEMMA BookInit == Init => BookInv
<1> SUFFICES ASSUME Init PROVE BookInv
  OBVIOUS
<1>1. BrokerTypes /\ GraphTypes /\ RunTypes
  BY TypesInit
<1>2. DOMAIN stops = {} /\ Len(stops) = 0 /\ DOMAIN facts = {} /\ DOMAIN stopFills = {}
      /\ DOMAIN exitFill = {}
  BY DEF Init
<1>3. ex.pc = "idle" /\ ex.over = {} /\ ex.answer.id = 0
  BY DEF Init, Idle, NoAnswer
<1>4. KeysInv /\ FillsInv /\ ExitInv
  BY <1>2 DEF KeysInv, FillsInv, ExitInv
<1>5. PlacingInv /\ RefreshedInv /\ KeptInv
  BY <1>2, <1>3 DEF PlacingInv, RefreshedInv, KeptInv, Places
<1> QED
  BY <1>1, <1>4, <1>5 DEF BookInv

\* Every step keeps it.
LEMMA BookStep == BookInv /\ [Next]_vars => BookInv'
<1> SUFFICES ASSUME BookInv, [Next]_vars PROVE BookInv'
  OBVIOUS
<1> USE DEF BookInv
<1>1. CASE Next
  BY <1>1, BrokerTypesStep, GraphTypesStep, RunTypesStep, KeysStep, PlacingStep, FillsStep,
     RefreshedStep, KeptStep, ExitStep
<1>2. CASE UNCHANGED vars
  <2> USE <1>2 DEF vars, broker, graph
  <2>1. BrokerTypes' /\ GraphTypes' /\ RunTypes'
    BY DEF BrokerTypes, GraphTypes, RunTypes
  <2>2. KeysInv' /\ PlacingInv' /\ FillsInv' /\ ExitInv'
    BY DEF KeysInv, PlacingInv, FillsInv, ExitInv, NextFree
  <2>3. RefreshedInv'
    BY DEF RefreshedInv
  <2>4. KeptInv'
    BY SameLiveFacts DEF KeptInv, Fresh, Sold
  <2> QED
    BY <2>1, <2>2, <2>3, <2>4
<1> QED
  BY <1>1, <1>2

\* Facts and Fills name orders the broker holds, for every number of runs,
\* mishaps and orders the broker ends.
THEOREM BookWellTyped == Spec => []TypeOK
<1>1. BookInv => TypeOK
  <2> SUFFICES ASSUME BookInv PROVE TypeOK
    OBVIOUS
  <2>1. held.q \in Nat /\ held.entries \subseteq Runs
    BY DEF BookInv, BrokerTypes, Holdings
  <2> QED
    BY <2>1 DEF BookInv, GraphTypes, KeysInv, FillsInv, TypeOK
<1> QED
  BY <1>1, BookInit, BookStep, PTL DEF Spec

\* A stop whose answer or fact was lost is found under its own key by the next
\* submission for its position, so place_stop never sends a second one.
THEOREM LostStopHolds == Spec => []LostStopIsFound
<1>1. BookInv => LostStopIsFound
  BY FoundFromKeys DEF BookInv
<1> QED
  BY <1>1, BookInit, BookStep, PTL DEF Spec

\* A position whose stop was cancelled for an exit (cancel_stops_for_exits) ends
\* the run with the exit at the broker or reported.
THEOREM FreedHolds == Spec => FreedIsExitingOrTold
<1>1. BookInv /\ [Next]_vars =>
        [ EndsRun /\ Sold /\ ex.freed /\ held # Flat
          => ex'.told \/ (pm.ref \in DOMAIN exit' /\ exit'[pm.ref] \in {"open", "filled"}) ]_vars
  BY FreedStep DEF BookInv
<1> QED
  BY <1>1, BookInit, BookStep, PTL DEF Spec, FreedIsExitingOrTold

\* A position that a run saw and keeps (place_broker_stops) ends the run with a
\* stop it placed, with one its refresh did not find over, or reported.
THEOREM KeptHolds == Spec => KeptIsProtectedOrTold
<1>1. BookInv /\ [Next]_vars =>
        [ EndsRun /\ ~Sold /\ Fresh /\ held # Flat /\ held = ex.seen
          => \/ ex'.told \/ ex.answer.said # "rejected"
             \/ \E k \in LiveFacts : ~Watched(k) \/ facts[k].id \notin ex.over ]_vars
  BY KeptEnds DEF BookInv
<1> QED
  BY <1>1, BookInit, BookStep, PTL DEF Spec, KeptIsProtectedOrTold

----------------------------------------------------------------------------
(* StageGate *)

\* Every rung above the configured one, up to s, has its approval.
Approved(s) ==
  \A t \in Stages : Rank(DefaultStage) < Rank(t) /\ Rank(t) <= Rank(s) => t \in resolved

\* What a call in hand may rely on: the stage it read was earned, a stage it
\* is about to write is earned, a flag it is about to raise has its runs.
CallBacked(c) ==
  /\ Approved(asked[c].seen)
  /\ asked[c].pc = "transition" =>
       Approved(asked[c].target) /\ asked[c].target # "live_autopilot"
  /\ asked[c].pc = "flag" => good + bad >= MinRuns

\* The inductive invariant.
GateInv ==
  /\ GateTypeOK
  /\ Approved(stage)
  /\ resolved \subseteq flags
  /\ flags # {} => good + bad >= MinRuns
  /\ NoAutopilot
  /\ \A c \in Callers : CallBacked(c)

\* The ranks are the numbers 1 to 4, each stage its own.
LEMMA RankType ==
  /\ \A s \in Stages : Rank(s) \in 1..4
  /\ \A s, t \in Stages : Rank(s) = Rank(t) => s = t
  /\ \A s \in Stages : s # "live_autopilot" => Rank(s) < Rank("live_autopilot")
<1>1. Rank("paper") = 1
  BY DEF Rank
<1>2. Rank("broker_shadow") = 2
  BY DEF Rank
<1>3. Rank("live_manual") = 3
  BY DEF Rank
<1>4. Rank("live_autopilot") = 4
  BY DEF Rank
<1> QED
  BY <1>1, <1>2, <1>3, <1>4 DEF Stages

\* Approvals and Snapshots only accumulate, so no claim is ever withdrawn.
LEMMA ApprovedGrows ==
  ASSUME NEW s \in Stages, Approved(s), resolved \subseteq resolved'
  PROVE  Approved(s)'
BY DEF Approved

\* The arithmetic of a growing number of Snapshots.
LEMMA SumGrows ==
  ASSUME NEW a \in Nat, NEW b \in Nat, NEW c \in Nat, NEW d \in Nat, NEW n \in Nat
  PROVE  c + d >= a + b /\ a + b >= n => c + d >= n
OBVIOUS

\* A Snapshot adds one to the good or to the bad ones.
LEMMA SumOfOneMore ==
  ASSUME NEW a \in Nat, NEW b \in Nat, NEW c \in Nat, NEW d \in Nat,
         (c = a + 1 /\ d = b) \/ (d = b + 1 /\ c = a)
  PROVE  c + d >= a + b
OBVIOUS

\* The gate starts well typed.
LEMMA GateTypeInit == GateInit => GateTypeOK
BY StageAssumption DEF GateInit, GateTypeOK, NoCall, Calls

\* Every step keeps the types of the stage, the flags and the calls.
LEMMA GateTypeStep == GateTypeOK /\ [GateNext]_gateVars => GateTypeOK'
<1> SUFFICES ASSUME GateTypeOK, [GateNext]_gateVars PROVE GateTypeOK'
  OBVIOUS
<1> USE DEF GateTypeOK
<1>1. NoCall \in Calls
  BY StageAssumption DEF NoCall, Calls
<1>2. CASE UNCHANGED gateVars
  BY <1>2 DEF gateVars
<1>3. ASSUME NEW c \in Callers, NEW t \in Stages, NEW confirmed \in BOOLEAN,
             Ask(c, t, confirmed)
      PROVE  GateTypeOK'
  <2>1. [pc |-> "decide", seen |-> stage, target |-> t, confirmed |-> confirmed] \in Calls
    BY DEF Calls
  <2> QED
    BY <1>3, <2>1 DEF Ask
<1>4. ASSUME NEW c \in Callers, DecideCall(c) PROVE GateTypeOK'
  <2>1. Decision(asked[c]) \in {"idle", "transition", "flag"}
    BY DEF Decision
  <2>2. asked[c] \in Calls
    OBVIOUS
  <2>3. [asked[c] EXCEPT !.pc = Decision(asked[c])] \in Calls
    BY <2>1, <2>2 DEF Calls
  <2> QED
    BY <1>4, <2>3 DEF DecideCall
<1>5. ASSUME NEW c \in Callers, Transition(c) \/ RequestConfirmation(c) \/ Abandon(c)
      PROVE  GateTypeOK'
  <2>1. asked[c] \in Calls /\ asked[c].target \in Stages
    BY DEF Calls
  <2>2. CASE Transition(c)
    BY <1>1, <2>1, <2>2 DEF Transition
  <2>3. CASE RequestConfirmation(c)
    BY <1>1, <2>1, <2>3 DEF RequestConfirmation
  <2>4. CASE Abandon(c)
    BY <1>1, <2>4 DEF Abandon
  <2> QED
    BY <1>5, <2>2, <2>3, <2>4
<1>6. ASSUME NEW t \in Stages, Approve(t) PROVE GateTypeOK'
  BY <1>6 DEF Approve
<1>7. CASE RecordSnapshot
  BY <1>7 DEF RecordSnapshot
<1>8. CASE CriticalFault
  BY <1>8 DEF CriticalFault
<1> QED
  BY <1>2, <1>3, <1>4, <1>5, <1>6, <1>7, <1>8 DEF GateNext

\* Without a transition the configured stage is in force, which nobody must
\* have approved.
LEMMA GateStarts == GateInit => GateInv
<1> SUFFICES ASSUME GateInit PROVE GateInv
  OBVIOUS
<1>1. GateTypeOK
  BY GateTypeInit
<1>2. Approved(DefaultStage)
  BY RankType, StageAssumption DEF Approved
<1>3. NoAutopilot
  BY DEF GateInit, NoAutopilot
<1>4. ASSUME NEW c \in Callers PROVE CallBacked(c)
  BY <1>2 DEF GateInit, CallBacked, NoCall
<1> QED
  BY <1>1, <1>2, <1>3, <1>4 DEF GateInit, GateInv

\* A call that decides for a transition targets an earlier rung of an earned
\* stage, or the next rung with its own approval.
LEMMA DecisionBacked ==
  ASSUME NEW call \in Calls, Approved(call.seen)
  PROVE  /\ Decision(call) = "transition" =>
              Approved(call.target) /\ call.target # "live_autopilot"
         /\ Decision(call) = "flag" => PromotionAllowed
<1> DEFINE seen == call.seen  target == call.target
<1>1. seen \in Stages /\ target \in Stages
  BY DEF Calls
<1>2. CASE IsValidDemotion(seen, target)
  <2>1. Decision(call) = "transition"
    BY <1>2 DEF Decision
  <2>2. Rank(target) < Rank(seen)
    BY <1>2 DEF IsValidDemotion
  <2>3. Approved(target)
    BY <1>1, <2>2, RankType DEF Approved
  <2>4. target # "live_autopilot"
    BY <1>1, <2>2, RankType
  <2> QED
    BY <2>1, <2>3, <2>4
<1>3. CASE ~IsValidDemotion(seen, target) /\ ~IsValidPromotion(seen, target)
  <2>1. Decision(call) = "idle"
    BY <1>3 DEF Decision
  <2> QED
    BY <2>1
<1>4. CASE ~IsValidDemotion(seen, target) /\ IsValidPromotion(seen, target)
  <2>1. target # "live_autopilot" /\ Rank(target) = Rank(seen) + 1
    BY <1>4 DEF IsValidPromotion
  <2>2. CASE call.confirmed /\ target \in resolved
    <3>1. Decision(call) = "transition"
      BY <1>4, <2>2 DEF Decision
    <3>2. ASSUME NEW t \in Stages, Rank(DefaultStage) < Rank(t), Rank(t) <= Rank(target)
          PROVE  t \in resolved
      <4>1. t = target \/ Rank(t) <= Rank(seen)
        BY <1>1, <2>1, <3>2, RankType
      <4> QED
        BY <2>2, <3>2, <4>1 DEF Approved
    <3> QED
      BY <2>1, <3>1, <3>2 DEF Approved
  <2>3. CASE ~(call.confirmed /\ target \in resolved)
    <3>1. Decision(call) = IF PromotionAllowed THEN "flag" ELSE "idle"
      BY <1>4, <2>3 DEF Decision
    <3> QED
      BY <3>1
  <2> QED
    BY <2>2, <2>3
<1> QED
  BY <1>2, <1>3, <1>4

\* The claims about approvals and runs survive a step that lets no stage, no
\* approval and no call in hand change for the worse.
LEMMA GateStep == GateInv /\ [GateNext]_gateVars => GateInv'
<1> SUFFICES ASSUME GateInv, [GateNext]_gateVars PROVE GateInv'
  OBVIOUS
<1>1. GateTypeOK /\ GateTypeOK'
  BY GateTypeStep DEF GateInv
<1>1a. good \in Nat /\ bad \in Nat /\ good' \in Nat /\ bad' \in Nat /\ MinRuns \in Nat
  BY <1>1, EvidenceAssumption DEF GateTypeOK
<1>1b. good' + bad' >= good + bad /\ good + bad >= MinRuns => good' + bad' >= MinRuns
  BY <1>1a, SumGrows
<1>2. ASSUME NEW d \in Callers, CallBacked(d), asked'[d] = asked[d],
             resolved \subseteq resolved', good' + bad' >= good + bad
      PROVE  CallBacked(d)'
  <2>1. asked[d].seen \in Stages /\ asked[d].target \in Stages
    BY <1>1 DEF GateTypeOK, Calls
  <2>2. Approved(asked[d].seen)'
    BY <1>2, <2>1, ApprovedGrows DEF CallBacked
  <2>3. asked[d].pc = "transition" => Approved(asked[d].target)'
    BY <1>2, <2>1, ApprovedGrows DEF CallBacked
  <2>4. asked[d].pc = "flag" => good' + bad' >= MinRuns
    BY <1>2, <1>1b DEF CallBacked
  <2> QED
    BY <1>2, <2>2, <2>3, <2>4 DEF CallBacked
<1>3. ASSUME NEW c \in Callers, asked' = [asked EXCEPT ![c] = NoCall],
             resolved' = resolved, good' = good, bad' = bad
      PROVE  \A d \in Callers : CallBacked(d)'
  <2>1. SUFFICES ASSUME NEW d \in Callers PROVE CallBacked(d)'
    OBVIOUS
  <2>2. CASE d = c
    <3>1. asked'[d] = NoCall
      BY <1>1, <1>3, <2>2 DEF GateTypeOK
    <3>2. Approved(DefaultStage)'
      BY StageAssumption, RankType DEF Approved
    <3> QED
      BY <3>1, <3>2 DEF CallBacked, NoCall
  <2>3. CASE d # c
    BY <1>1, <1>2, <1>3, <2>3 DEF GateInv, GateTypeOK
  <2> QED
    BY <2>2, <2>3
<1>4. CASE UNCHANGED gateVars
  BY <1>1, <1>4 DEF gateVars, GateInv, Approved, NoAutopilot, CallBacked
<1>5. ASSUME NEW c \in Callers, NEW t \in Stages, NEW confirmed \in BOOLEAN,
             Ask(c, t, confirmed)
      PROVE  GateInv'
  <2>1. ASSUME NEW d \in Callers PROVE CallBacked(d)'
    <3>1. CASE d = c
      <4>1. asked'[d].seen = stage /\ asked'[d].pc = "decide"
        BY <1>1, <1>5, <3>1 DEF Ask, GateTypeOK
      <4> QED
        BY <1>5, <4>1 DEF Ask, CallBacked, GateInv, Approved
    <3>2. CASE d # c
      BY <1>1, <1>2, <1>5, <3>2 DEF Ask, GateInv, GateTypeOK
    <3> QED
      BY <3>1, <3>2
  <2> QED
    BY <1>1, <1>5, <2>1 DEF Ask, GateInv, Approved, NoAutopilot
<1>6. ASSUME NEW c \in Callers, DecideCall(c) PROVE GateInv'
  <2>1. ASSUME NEW d \in Callers PROVE CallBacked(d)'
    <3>1. CASE d = c
      <4>1. asked[c] \in Calls /\ Approved(asked[c].seen)
        BY <1>1 DEF GateTypeOK, GateInv, CallBacked
      <4>2. /\ asked'[d].pc = Decision(asked[c]) /\ asked'[d].seen = asked[c].seen
            /\ asked'[d].target = asked[c].target
        BY <1>1, <1>6, <3>1 DEF DecideCall, GateTypeOK, Calls
      <4>3. PromotionAllowed => good + bad >= MinRuns
        BY DEF PromotionAllowed, RunsAndRate
      <4> QED
        BY <1>6, <4>1, <4>2, <4>3, DecisionBacked DEF DecideCall, CallBacked, Approved
    <3>2. CASE d # c
      BY <1>1, <1>2, <1>6, <3>2 DEF DecideCall, GateInv, GateTypeOK
    <3> QED
      BY <3>1, <3>2
  <2> QED
    BY <1>1, <1>6, <2>1 DEF DecideCall, GateInv, Approved, NoAutopilot
<1>7. ASSUME NEW c \in Callers, Transition(c) PROVE GateInv'
  <2>1. \A d \in Callers : CallBacked(d)'
    BY <1>3, <1>7 DEF Transition
  <2>2. Approved(stage)' /\ NoAutopilot'
    BY <1>7 DEF Transition, GateInv, CallBacked, Approved, NoAutopilot
  <2> QED
    BY <1>1, <1>7, <2>1, <2>2 DEF Transition, GateInv
<1>8. ASSUME NEW c \in Callers, RequestConfirmation(c) PROVE GateInv'
  <2>1. \A d \in Callers : CallBacked(d)'
    BY <1>3, <1>8 DEF RequestConfirmation
  <2>2. flags' # {} => good' + bad' >= MinRuns
    BY <1>8 DEF RequestConfirmation, GateInv, CallBacked
  <2> QED
    BY <1>1, <1>8, <2>1, <2>2 DEF RequestConfirmation, GateInv, Approved, NoAutopilot
<1>9. ASSUME NEW c \in Callers, Abandon(c) PROVE GateInv'
  <2>1. \A d \in Callers : CallBacked(d)'
    BY <1>3, <1>9 DEF Abandon
  <2> QED
    BY <1>1, <1>9, <2>1 DEF Abandon, GateInv, Approved, NoAutopilot
<1>10. ASSUME resolved \subseteq resolved', resolved' \subseteq flags',
              good' + bad' >= good + bad,
              stage' = stage, flags' = flags, asked' = asked
       PROVE  GateInv'
  <2>1. \A d \in Callers : CallBacked(d)'
    BY <1>2, <1>10 DEF GateInv
  <2>2. Approved(stage)'
    BY <1>1, <1>10, ApprovedGrows DEF GateInv, GateTypeOK, Approved
  <2>3. flags' # {} => good' + bad' >= MinRuns
    BY <1>10, <1>1b DEF GateInv
  <2> QED
    BY <1>1, <1>10, <2>1, <2>2, <2>3 DEF GateInv, NoAutopilot
<1>11. ASSUME NEW t \in Stages, Approve(t) PROVE GateInv'
  BY <1>1, <1>10, <1>11 DEF Approve, GateInv, GateTypeOK
<1>12. CASE RecordSnapshot
  <2>1. good' + bad' >= good + bad
    <3>1. (good' = good + 1 /\ bad' = bad) \/ (bad' = bad + 1 /\ good' = good)
      BY <1>12 DEF RecordSnapshot
    <3> QED
      BY <1>1a, <3>1, SumOfOneMore
  <2> QED
    BY <1>10, <1>12, <2>1 DEF RecordSnapshot, GateInv
<1>13. CASE CriticalFault
  BY <1>1, <1>10, <1>13 DEF CriticalFault, GateInv, GateTypeOK
<1> QED
  BY <1>4, <1>5, <1>6, <1>7, <1>8, <1>9, <1>11, <1>12, <1>13 DEF GateNext

\* However many processes call promote_stage at once, every rung up to the
\* stage in force was approved by a human who was asked with at least
\* min_promotion_runs snapshots behind the question.
THEOREM EarnedHolds == GateSpec => []StageEarned
<1>1. GateInv => StageEarned
  BY DEF GateInv, StageEarned, Approved
<1> QED
  BY <1>1, GateStarts, GateStep, PTL DEF GateSpec

\* No interleaving of calls reaches live_autopilot from another stage.
THEOREM AutopilotHolds == GateSpec => []NoAutopilot
<1>1. GateInv => NoAutopilot
  BY DEF GateInv
<1> QED
  BY <1>1, GateStarts, GateStep, PTL DEF GateSpec

=============================================================================
