--------------------------- MODULE WorkLoopProofs ---------------------------
(***************************************************************************)
(* Safety of the graph-pull loop for every set of items and every policy.  *)
(*                                                                         *)
(* AttemptBudget and BackoffHonoured are not inductive.  The budget needs  *)
(* the ledger to count every start of a live item (LedgerCounts), which in *)
(* turn needs to know where the item in hand and the returned items stand  *)
(* in the pass (PassShape).  The backoff needs the time already waited and *)
(* the time still to wait to add up to the backoff (WaitAddsUp).           *)
(***************************************************************************)
EXTENDS WorkLoop, WellFoundedInduction, TLAPS

\* The item was started in this pass and its outcome is not in the ledger yet.
InHand(i) == IF i = cur \/ i \in completed THEN 1 ELSE 0

\* Where items stand: outside a pass nothing is open; inside it, unstarted,
\* in-hand and returned items are disjoint and none is quarantined.
PassShape ==
  /\ pc \notin {"pass", "item"} => todo = {} /\ completed = {}
  /\ pending \subseteq arrived /\ marked \subseteq arrived
  /\ todo \subseteq pending \ marked
  /\ cur # NoItem => cur \in pending /\ cur \notin marked
  /\ cur \notin todo /\ cur \notin completed
  /\ todo \cap completed = {}
  /\ completed \subseteq arrived \ marked
  /\ held \subseteq marked

\* Every start of a pending, unquarantined item is in its record or in hand.
LedgerCounts ==
  /\ \A i \in Items : i \in pending /\ i \notin marked
                        => starts[i] = attempts[i] + InHand(i)
  /\ \A i \in Items : attempts[i] < MaxAttempts
  /\ \A i \in Items \ arrived : starts[i] = 0 /\ attempts[i] = 0

\* Time waited since the failing pass plus time still to wait is the backoff.
WaitAddsUp ==
  /\ \A i \in Items : attempts[i] > 0 => wait[i] + gap[i] >= BackoffDelay(attempts[i])
  /\ \A i \in todo \cup {cur} : i \in Items /\ attempts[i] > 0 => wait[i] = 0

IndInv == TypeOK /\ PassShape /\ LedgerCounts /\ AttemptBudget /\ WaitAddsUp

-----------------------------------------------------------------------------
\* The delay of every recorded attempt lies within the policy's ceiling.
LEMMA BackoffRange ==
  ASSUME NEW n \in 1..MaxAttempts
  PROVE  BackoffDelay(n) \in 1..Ceiling
BY PolicyAssumption DEF BackoffDelay

\* Saturating helpers stay natural and within their bounds.
LEMMA ArithRange ==
  ASSUME NEW a \in Nat, NEW b \in Nat
  PROVE  /\ Least(a, b) \in Nat /\ Least(a, b) <= a /\ Least(a, b) <= b
         /\ Monus(a, b) \in Nat /\ Monus(a, b) <= a
BY DEF Least, Monus

\* A nonempty set of naturals has the least element that Min names.
LEMMA MinInSet ==
  ASSUME NEW S \in SUBSET Nat, S # {}
  PROVE  Min(S) \in S
<1> DEFINE R == {ss \in Nat \X Nat : ss[1] < ss[2]}
<1>1. PICK x \in S : \A y \in S : ~(<<y, x>> \in R)
  <2>1. IsWellFoundedOn(R, Nat)
    BY NatLessThanWellFounded, Zenon DEF OpToRel
  <2> HIDE DEF R
  <2> QED
    BY <2>1, WFMin
<1>2. \A y \in S : x <= y
  <2>1. ASSUME NEW y \in S PROVE ~(y < x)
    <3>1. <<y, x>> \in Nat \X Nat /\ <<y, x>>[1] = y /\ <<y, x>>[2] = x
      OBVIOUS
    <3>2. <<y, x>> \in Nat \X Nat => (<<y, x>> \in R <=> <<y, x>>[1] < <<y, x>>[2])
      BY Zenon
    <3> QED
      BY <1>1, <3>1, <3>2
  <2> QED
    BY <2>1
<1> QED
  BY <1>2, Zenon DEF Min

\* min(retry_delays), with 0 for the empty list, stays within the ceiling.
LEMMA MinDelayRange ==
  ASSUME TypeOK, NEW F \in SUBSET Items
  PROVE  MinDelay(F) \in 0..Ceiling
<1> DEFINE delays == {BackoffDelay(attempts[i] + 1) : i \in Delayed(F)}
                       \cup (IF soonest = 0 THEN {} ELSE {soonest})
<1>1. \A i \in Delayed(F) : attempts[i] + 1 \in 1..MaxAttempts
  BY PolicyAssumption DEF TypeOK, Delayed
<1>2. delays \subseteq 0..Ceiling
  BY <1>1, BackoffRange, PolicyAssumption DEF TypeOK
<1> HIDE DEF delays
<1>3. delays # {} => Min(delays) \in delays
  BY <1>2, MinInSet, PolicyAssumption
<1>4. MinDelay(F) = IF delays = {} THEN 0 ELSE Min(delays)
  BY DEF MinDelay, delays
<1>5. CASE delays = {}
  BY <1>4, <1>5, PolicyAssumption
<1>6. CASE delays # {}
  <2>1. MinDelay(F) \in delays
    BY <1>3, <1>4, <1>6
  <2> QED
    BY <2>1, <1>2
<1> QED
  BY <1>5, <1>6

\* The idle sleep is never longer than the poll interval.
LEMMA SleepRange ==
  ASSUME TypeOK
  PROVE  SleepDuration \in 0..Poll
<1>1. MinDelay(NoProgress) \in 0..Ceiling
  BY MinDelayRange DEF TypeOK, NoProgress
<1>2. NextReadyDelay \in Nat
  <2> DEFINE delays == {wait[i] : i \in {j \in found \ Advanced :
                                           attempts[j] > 0 /\ wait[j] > 0}}
  <2>1. delays \subseteq Nat
    BY PolicyAssumption DEF TypeOK
  <2> HIDE DEF delays
  <2>2. delays # {} => Min(delays) \in delays
    BY <2>1, MinInSet
  <2>3. NextReadyDelay = IF delays = {} THEN 0 ELSE Min(delays)
    BY DEF NextReadyDelay, delays
  <2> QED
    BY <2>1, <2>2, <2>3
<1> QED
  BY <1>1, <1>2, PolicyAssumption DEF SleepDuration, Least

\* The ledger update keeps the ledger's types.
LEMMA LedgerType ==
  ASSUME TypeOK, NEW F \in SUBSET Items, NEW S \in SUBSET Items, UpdateLedger(F, S)
  PROVE  /\ attempts' \in [Items -> 0..MaxAttempts]
         /\ wait' \in [Items -> 0..Ceiling]
         /\ gap' \in [Items -> 0..Ceiling]
         /\ held' \subseteq Items /\ marked' \subseteq Items
<1>1. \A i \in Delayed(F) : attempts[i] + 1 \in 1..MaxAttempts
  BY PolicyAssumption DEF TypeOK, Delayed
<1>2. \A i \in Delayed(F) : BackoffDelay(attempts[i] + 1) \in 0..Ceiling
  BY <1>1, BackoffRange, PolicyAssumption
<1>3. Capped(F) \subseteq Items
  BY DEF Capped
<1>4. attempts' \in [Items -> 0..MaxAttempts]
  BY <1>1, PolicyAssumption DEF TypeOK, UpdateLedger
<1>5. wait' \in [Items -> 0..Ceiling]
  BY <1>2, PolicyAssumption DEF TypeOK, UpdateLedger
<1>6. gap' \in [Items -> 0..Ceiling]
  BY PolicyAssumption DEF TypeOK, UpdateLedger
<1> QED
  BY <1>3, <1>4, <1>5, <1>6 DEF TypeOK, UpdateLedger

\* A fresh process has an empty ledger and no pass.
LEMMA LoseMemoryType ==
  ASSUME LoseMemory
  PROVE  /\ attempts' \in [Items -> 0..MaxAttempts]
         /\ wait' \in [Items -> 0..Ceiling]
         /\ gap' \in [Items -> 0..Ceiling]
         /\ starts' \in [Items -> Nat]
         /\ held' = {} /\ todo' = {} /\ found' = {} /\ completed' = {}
         /\ cur' = NoItem /\ soonest' \in 0..Ceiling
         /\ elapsed' \in 0..Ceiling /\ nap' \in 0..Poll
BY PolicyAssumption DEF LoseMemory

\* Every step of the loop keeps the type invariant.
LEMMA TypeStep == TypeOK /\ [Next]_vars => TypeOK'
<1> SUFFICES ASSUME TypeOK, [Next]_vars PROVE TypeOK'
  OBVIOUS
<1> USE PolicyAssumption, ItemAssumption
<1>1. ASSUME NEW i \in Items, Arrive(i) PROVE TypeOK'
  BY <1>1 DEF TypeOK, Arrive, ledgerVars, passVars
<1>2. CASE StartPass
  <2>1. wait' \in [Items -> 0..Ceiling]
    BY <1>2 DEF StartPass, TypeOK, Monus
  <2>2. gap' \in [Items -> 0..Ceiling]
    BY <1>2 DEF StartPass, TypeOK, Least
  <2>3. todo' \subseteq Items
    BY <1>2 DEF StartPass, TypeOK, Eligible
  <2> QED
    BY <1>2, <2>1, <2>2, <2>3 DEF StartPass, TypeOK, graphVars
<1>3. ASSUME NEW i \in Items, BeginItem(i) PROVE TypeOK'
  BY <1>3 DEF TypeOK, BeginItem, graphVars, ledgerVars
<1>4. ASSUME NEW a \in BOOLEAN, ItemReturns(a) PROVE TypeOK'
  BY <1>4 DEF TypeOK, ItemReturns, ledgerVars
<1>5. ASSUME NEW a \in BOOLEAN, ItemRaises(a) PROVE TypeOK'
  <2>1. cur \in Items
    BY <1>5 DEF TypeOK, ItemRaises
  <2>2. soonest' \in 0..Ceiling
    BY <1>5, <2>1, MinDelayRange DEF ItemRaises
  <2>3. UpdateLedger({cur}, {})
    BY <1>5 DEF ItemRaises
  <2> QED
    BY <1>5, <2>1, <2>2, <2>3, LedgerType DEF TypeOK, ItemRaises
<1>6. CASE EndPass
  <2>1. NoProgress \subseteq Items /\ Advanced \subseteq Items
    BY DEF TypeOK, NoProgress, Advanced
  <2>2. UpdateLedger(NoProgress, Advanced)
    BY <1>6 DEF EndPass
  <2>3. nap' \in 0..Poll /\ pc' \in {"loop", "sleep"}
    BY <1>6, SleepRange DEF EndPass
  <2>4. cur' = NoItem
    BY <1>6 DEF EndPass, TypeOK
  <2>5. /\ attempts' \in [Items -> 0..MaxAttempts]
        /\ wait' \in [Items -> 0..Ceiling]
        /\ gap' \in [Items -> 0..Ceiling]
        /\ held' \subseteq Items /\ marked' \subseteq Items
    BY <2>1, <2>2, LedgerType
  <2>6. soonest' \in 0..Ceiling
    BY <1>6 DEF EndPass
  <2> QED
    BY <1>6, <2>3, <2>4, <2>5, <2>6 DEF TypeOK, EndPass
<1>7. CASE Wake
  BY <1>7 DEF TypeOK, Wake, graphVars, ledgerVars, passVars
<1>8. CASE RequestStop
  BY <1>8 DEF TypeOK, RequestStop, graphVars, ledgerVars, passVars
<1>9. CASE EndLoop
  BY <1>9, LoseMemoryType DEF TypeOK, EndLoop, graphVars
<1>10. CASE Crash
  <2>1. pending' \subseteq Items
    BY <1>10 DEF TypeOK, Crash
  <2> QED
    BY <1>10, <2>1, LoseMemoryType DEF TypeOK, Crash
<1>11. CASE Restart
  <2>1. stop' \in BOOLEAN
    BY <1>11, Zenon DEF Restart
  <2> QED
    BY <1>11, <2>1 DEF TypeOK, Restart, graphVars, ledgerVars, passVars
<1>12. CASE Tick
  <2>1. elapsed' \in 0..Ceiling /\ nap' \in 0..Poll
    BY <1>12 DEF TypeOK, Tick, Least, Monus
  <2> QED
    BY <1>12, <2>1 DEF TypeOK, Tick, graphVars, ledgerVars, passVars
<1>13. CASE UNCHANGED vars
  BY <1>13 DEF TypeOK, vars
<1> QED
  BY <1>1, <1>2, <1>3, <1>4, <1>5, <1>6, <1>7, <1>8, <1>9, <1>10, <1>11, <1>12,
     <1>13 DEF Next

\* The loop starts well typed.
LEMMA TypeInit == Init => TypeOK
<1> SUFFICES ASSUME Init PROVE TypeOK
  OBVIOUS
<1>1. stop \in BOOLEAN
  BY Zenon DEF Init
<1>2. attempts \in [Items -> 0..MaxAttempts] /\ wait \in [Items -> 0..Ceiling]
  BY PolicyAssumption DEF Init
<1>3. gap \in [Items -> 0..Ceiling] /\ starts \in [Items -> Nat]
  BY PolicyAssumption DEF Init
<1> QED
  BY <1>1, <1>2, <1>3, PolicyAssumption, ItemAssumption DEF Init, TypeOK

\* The variables of the loop keep their types in every behaviour, for every set
\* of items and every valid policy; in particular a backoff never exceeds its
\* ceiling and the idle sleep never exceeds the poll interval.
THEOREM TypeCorrect == Spec => []TypeOK
BY TypeInit, TypeStep, PTL DEF Spec

-----------------------------------------------------------------------------
\* The unfinished items of a pass stay apart and unquarantined.
LEMMA ShapeStep == TypeOK /\ PassShape /\ [Next]_vars => PassShape'
<1> SUFFICES ASSUME TypeOK, PassShape, [Next]_vars PROVE PassShape'
  OBVIOUS
<1> USE ItemAssumption
<1>1. ASSUME NEW i \in Items, Arrive(i) PROVE PassShape'
  BY <1>1 DEF PassShape, Arrive, ledgerVars, passVars
<1>2. CASE StartPass
  BY <1>2 DEF PassShape, TypeOK, StartPass, Eligible, IsQuarantined, graphVars
<1>3. ASSUME NEW i \in Items, BeginItem(i) PROVE PassShape'
  BY <1>3 DEF PassShape, TypeOK, BeginItem, graphVars, ledgerVars
<1>4. ASSUME NEW a \in BOOLEAN, ItemReturns(a) PROVE PassShape'
  BY <1>4 DEF PassShape, TypeOK, ItemReturns, ledgerVars
<1>5. ASSUME NEW a \in BOOLEAN, ItemRaises(a) PROVE PassShape'
  <2>1. cur \in pending /\ Capped({cur}) \subseteq {cur}
    BY <1>5 DEF PassShape, TypeOK, ItemRaises, Capped
  <2> QED
    BY <1>5, <2>1 DEF PassShape, TypeOK, ItemRaises, UpdateLedger
<1>6. CASE EndPass
  <2>1. Capped(NoProgress) \subseteq arrived
    BY DEF PassShape, NoProgress, Capped
  <2>2. cur' = NoItem
    BY <1>6 DEF TypeOK, EndPass
  <2> QED
    BY <1>6, <2>1, <2>2 DEF PassShape, EndPass, UpdateLedger
<1>7. CASE Wake
  BY <1>7 DEF PassShape, Wake, graphVars, ledgerVars, passVars
<1>8. CASE RequestStop
  BY <1>8 DEF PassShape, RequestStop, graphVars, ledgerVars, passVars
<1>9. CASE EndLoop
  BY <1>9 DEF PassShape, EndLoop, LoseMemory, graphVars
<1>10. CASE Crash
  BY <1>10 DEF PassShape, Crash, LoseMemory
<1>11. CASE Restart
  BY <1>11 DEF PassShape, TypeOK, Restart, graphVars, ledgerVars, passVars
<1>12. CASE Tick
  BY <1>12 DEF PassShape, Tick, graphVars, ledgerVars, passVars
<1>13. CASE UNCHANGED vars
  BY <1>13 DEF PassShape, vars
<1> QED
  BY <1>1, <1>2, <1>3, <1>4, <1>5, <1>6, <1>7, <1>8, <1>9, <1>10, <1>11, <1>12,
     <1>13 DEF Next

\* Every start stays accounted for, and the budget is never exceeded.
Counted == LedgerCounts /\ AttemptBudget

\* Only BeginItem adds a start, and only a start in hand adds an attempt.
LEMMA CountStep == TypeOK /\ PassShape /\ Counted /\ [Next]_vars => Counted'
<1> SUFFICES ASSUME TypeOK, PassShape, Counted, [Next]_vars PROVE Counted'
  OBVIOUS
<1> USE ItemAssumption, PolicyAssumption DEF Counted, LedgerCounts, AttemptBudget, InHand
<1>1. ASSUME NEW i \in Items, Arrive(i) PROVE Counted'
  BY <1>1 DEF PassShape, TypeOK, Arrive, ledgerVars, passVars
<1>2. CASE StartPass
  BY <1>2 DEF PassShape, TypeOK, StartPass, graphVars
<1>3. ASSUME NEW i \in Items, BeginItem(i) PROVE Counted'
  <2>1. starts[i] = attempts[i] /\ i \in pending /\ i \notin marked
    BY <1>3 DEF PassShape, TypeOK, BeginItem
  <2> QED
    BY <1>3, <2>1 DEF PassShape, TypeOK, BeginItem, graphVars, ledgerVars
<1>4. ASSUME NEW a \in BOOLEAN, ItemReturns(a) PROVE Counted'
  BY <1>4 DEF PassShape, TypeOK, ItemReturns, ledgerVars
<1>5. ASSUME NEW a \in BOOLEAN, ItemRaises(a) PROVE Counted'
  BY <1>5 DEF PassShape, TypeOK, ItemRaises, UpdateLedger, Capped, Delayed, IsQuarantined
<1>6. CASE EndPass
  <2>1. cur = NoItem /\ cur' = NoItem
    BY <1>6 DEF TypeOK, EndPass
  <2> QED
    BY <1>6, <2>1 DEF PassShape, TypeOK, EndPass, UpdateLedger, Capped, Delayed,
                      IsQuarantined, NoProgress, Advanced
<1>7. CASE Wake
  BY <1>7 DEF Wake, graphVars, ledgerVars, passVars
<1>8. CASE RequestStop
  BY <1>8 DEF RequestStop, graphVars, ledgerVars, passVars
<1>9. CASE EndLoop
  BY <1>9 DEF EndLoop, LoseMemory, graphVars
<1>10. CASE Crash
  BY <1>10 DEF Crash, LoseMemory
<1>11. CASE Restart
  BY <1>11 DEF Restart, graphVars, ledgerVars, passVars
<1>12. CASE Tick
  BY <1>12 DEF Tick, graphVars, ledgerVars, passVars
<1>13. CASE UNCHANGED vars
  BY <1>13 DEF vars
<1> QED
  BY <1>1, <1>2, <1>3, <1>4, <1>5, <1>6, <1>7, <1>8, <1>9, <1>10, <1>11, <1>12,
     <1>13 DEF Next

\* Re-basing a deadline on a later clock reading loses no waiting time.
LEMMA Rebase ==
  ASSUME NEW w \in 0..Ceiling, NEW g \in 0..Ceiling, NEW e \in 0..Ceiling,
         NEW d \in 0..Ceiling, w + g >= d
  PROVE  Monus(w, e) + Least(g + e, Ceiling) >= d
BY PolicyAssumption DEF Monus, Least

\* The deadline of a failed item and the time it has waited keep adding up to
\* its backoff.
LEMMA WaitStep ==
  TypeOK /\ PassShape /\ LedgerCounts /\ WaitAddsUp /\ [Next]_vars => WaitAddsUp'
<1> SUFFICES ASSUME TypeOK, PassShape, LedgerCounts, WaitAddsUp, [Next]_vars
             PROVE  WaitAddsUp'
  OBVIOUS
<1> USE ItemAssumption, PolicyAssumption DEF WaitAddsUp
<1>0. \A n \in 1..MaxAttempts : BackoffDelay(n) \in 1..Ceiling
  BY BackoffRange
<1>1. ASSUME NEW i \in Items, Arrive(i) PROVE WaitAddsUp'
  BY <1>1 DEF Arrive, ledgerVars, passVars
<1>2. CASE StartPass
  <2>1. ASSUME NEW i \in Items, attempts[i] > 0
        PROVE  wait'[i] + gap'[i] >= BackoffDelay(attempts[i])
    <3>1. attempts[i] \in 1..MaxAttempts
      BY <2>1 DEF TypeOK
    <3>2. BackoffDelay(attempts[i]) \in 0..Ceiling
      BY <3>1, <1>0
    <3>3. wait'[i] = Monus(wait[i], elapsed) /\ gap'[i] = Least(gap[i] + elapsed, Ceiling)
      BY <1>2 DEF StartPass
    <3>4. wait[i] \in 0..Ceiling /\ gap[i] \in 0..Ceiling /\ elapsed \in 0..Ceiling
      BY DEF TypeOK
    <3>5. wait[i] + gap[i] >= BackoffDelay(attempts[i])
      BY <2>1
    <3> QED
      BY <3>2, <3>3, <3>4, <3>5, Rebase
  <2>2. wait' \in [Items -> Nat]
    BY <1>2 DEF StartPass, TypeOK, Monus
  <2>3. \A i \in todo' : attempts[i] > 0 => wait'[i] = 0
    BY <1>2, <2>2 DEF StartPass, Eligible, TypeOK
  <2>4. attempts' = attempts /\ cur' = NoItem
    BY <1>2 DEF StartPass, TypeOK
  <2> QED
    BY <2>1, <2>3, <2>4
<1>3. ASSUME NEW i \in Items, BeginItem(i) PROVE WaitAddsUp'
  BY <1>3 DEF BeginItem, graphVars, ledgerVars
<1>4. ASSUME NEW a \in BOOLEAN, ItemReturns(a) PROVE WaitAddsUp'
  BY <1>4 DEF ItemReturns, ledgerVars
<1>5. ASSUME NEW a \in BOOLEAN, ItemRaises(a) PROVE WaitAddsUp'
  <2>1. ASSUME NEW i \in Items, attempts'[i] > 0
        PROVE  wait'[i] + gap'[i] >= BackoffDelay(attempts'[i])
    <3>1. CASE i = cur
      <4>1. i \in Delayed({cur}) /\ i \notin Capped({cur})
        BY <1>5, <2>1, <3>1 DEF ItemRaises, UpdateLedger, PassShape, TypeOK,
                                Delayed, Capped, IsQuarantined
      <4>2. attempts'[i] = attempts[i] + 1
            /\ wait'[i] = BackoffDelay(attempts[i] + 1) /\ gap'[i] = 0
        BY <1>5, <3>1, <4>1 DEF ItemRaises, UpdateLedger
      <4>3. attempts[i] + 1 \in 1..MaxAttempts
        BY DEF LedgerCounts, TypeOK
      <4> QED
        BY <4>2, <4>3, <1>0
    <3>2. CASE i # cur
      BY <1>5, <2>1, <3>2 DEF ItemRaises, UpdateLedger, Delayed, Capped
    <3> QED
      BY <3>1, <3>2
  <2>2. \A i \in todo' : attempts'[i] = attempts[i] /\ wait'[i] = wait[i]
    BY <1>5 DEF ItemRaises, UpdateLedger, Delayed, Capped, PassShape, TypeOK
  <2>3. cur' = NoItem /\ todo' = todo
    BY <1>5 DEF ItemRaises
  <2> QED
    BY <2>1, <2>2, <2>3
<1>6. CASE EndPass
  <2>1. ASSUME NEW i \in Items, attempts'[i] > 0
        PROVE  wait'[i] + gap'[i] >= BackoffDelay(attempts'[i])
    <3>1. CASE i \in NoProgress
      <4>1. i \in Delayed(NoProgress) /\ i \notin Capped(NoProgress) /\ i \notin Advanced
        BY <1>6, <2>1, <3>1 DEF EndPass, UpdateLedger, PassShape, TypeOK, Delayed,
                                Capped, IsQuarantined, NoProgress, Advanced
      <4>2. attempts'[i] = attempts[i] + 1
            /\ wait'[i] = BackoffDelay(attempts[i] + 1) /\ gap'[i] = 0
        BY <1>6, <3>1, <4>1 DEF EndPass, UpdateLedger
      <4>3. attempts[i] + 1 \in 1..MaxAttempts
        BY DEF LedgerCounts, TypeOK
      <4> QED
        BY <4>2, <4>3, <1>0
    <3>2. CASE i \notin NoProgress
      BY <1>6, <2>1, <3>2 DEF EndPass, UpdateLedger, Delayed, Capped
    <3> QED
      BY <3>1, <3>2
  <2>2. todo' = {} /\ cur' = NoItem
    BY <1>6 DEF EndPass, TypeOK
  <2> QED
    BY <2>1, <2>2
<1>7. CASE Wake
  BY <1>7 DEF Wake, graphVars, ledgerVars, passVars
<1>8. CASE RequestStop
  BY <1>8 DEF RequestStop, graphVars, ledgerVars, passVars
<1>9. CASE EndLoop
  BY <1>9 DEF EndLoop, LoseMemory
<1>10. CASE Crash
  BY <1>10 DEF Crash, LoseMemory
<1>11. CASE Restart
  BY <1>11 DEF Restart, graphVars, ledgerVars, passVars
<1>12. CASE Tick
  BY <1>12 DEF Tick, graphVars, ledgerVars, passVars
<1>13. CASE UNCHANGED vars
  BY <1>13 DEF vars
<1> QED
  BY <1>1, <1>2, <1>3, <1>4, <1>5, <1>6, <1>7, <1>8, <1>9, <1>10, <1>11, <1>12,
     <1>13 DEF Next

-----------------------------------------------------------------------------
\* The inductive invariant holds in every behaviour of the loop.
THEOREM Inductive == Spec => []IndInv
<1>1. Init => IndInv
  <2> SUFFICES ASSUME Init PROVE IndInv
    OBVIOUS
  <2>1. TypeOK
    BY TypeInit
  <2>2. PassShape /\ LedgerCounts /\ AttemptBudget /\ WaitAddsUp
    BY PolicyAssumption, ItemAssumption
       DEF Init, PassShape, LedgerCounts, AttemptBudget, WaitAddsUp, InHand
  <2> QED
    BY <2>1, <2>2 DEF IndInv
<1>2. IndInv /\ [Next]_vars => IndInv'
  BY TypeStep, ShapeStep, CountStep, WaitStep DEF IndInv, Counted
<1> QED
  BY <1>1, <1>2, PTL DEF Spec

\* process_one is called at most MaxAttempts times on an item in one process
\* life, for every policy, every number of items and every mix of outcomes.
THEOREM BudgetHolds == Spec => []AttemptBudget
<1>1. IndInv => AttemptBudget
  BY DEF IndInv
<1> QED
  BY <1>1, Inductive, PTL

\* No retry starts before its backoff, counted between pass starts, is over.
THEOREM BackoffHolds == Spec => []BackoffHonoured
<1>1. IndInv => BackoffHonoured
  <2> SUFFICES ASSUME IndInv, pc = "item", attempts[cur] > 0
               PROVE  gap[cur] >= BackoffDelay(attempts[cur])
    BY DEF BackoffHonoured
  <2>1. cur \in Items
    BY DEF IndInv, TypeOK
  <2>2. wait[cur] = 0 /\ wait[cur] + gap[cur] >= BackoffDelay(attempts[cur])
    BY <2>1 DEF IndInv, WaitAddsUp
  <2>3. gap[cur] \in Nat
    BY <2>1 DEF IndInv, TypeOK
  <2> QED
    BY <2>2, <2>3
<1> QED
  BY <1>1, Inductive, PTL

\* A marker is written only by the two places that record a failure, for an item
\* whose starts all are in its record or in hand.
LEMMA EarnedStep ==
  IndInv /\ [Next]_vars => \A i \in marked' \ marked : starts[i] >= MaxAttempts
<1> SUFFICES ASSUME IndInv, [Next]_vars, NEW i \in marked' \ marked
             PROVE  starts[i] >= MaxAttempts
  OBVIOUS
<1> USE PolicyAssumption, ItemAssumption DEF IndInv
<1>1. CASE \E a \in BOOLEAN : ItemRaises(a)
  <2>1. i \in Capped({cur}) /\ cur \in Items /\ cur \in pending /\ cur \notin marked
    BY <1>1 DEF ItemRaises, UpdateLedger, PassShape, TypeOK
  <2> QED
    BY <2>1 DEF Capped, LedgerCounts, InHand, TypeOK
<1>2. CASE EndPass
  <2>1. i \in Capped(NoProgress)
    BY <1>2 DEF EndPass, UpdateLedger
  <2> QED
    BY <2>1 DEF Capped, NoProgress, LedgerCounts, InHand, TypeOK, PassShape
<1>3. CASE ~EndPass /\ ~(\E a \in BOOLEAN : ItemRaises(a))
  <2>1. marked' = marked
    BY <1>3, Zenon DEF Next, vars, graphVars, Arrive, StartPass, BeginItem, ItemReturns,
       Wake, RequestStop, EndLoop, Crash, Restart, Tick
  <2> QED
    BY <2>1
<1> QED
  BY <1>1, <1>2, <1>3

\* A quarantine marker is written only for an item that used its whole attempt
\* budget in the process life that writes it.
THEOREM EarnedHolds == Spec => QuarantineEarned
<1>1. IndInv /\ [Next]_vars => [\A i \in marked' \ marked : starts[i] >= MaxAttempts]_vars
  BY EarnedStep
<1> QED
  BY <1>1, Inductive, PTL DEF Spec, QuarantineEarned

\* Only BeginItem raises a start count, and it takes an unquarantined item.
LEMMA FinalStep ==
  IndInv /\ [Next]_vars => \A i \in Items : starts'[i] > starts[i] => i \notin marked
<1> SUFFICES ASSUME IndInv, [Next]_vars, NEW i \in Items, starts'[i] > starts[i]
             PROVE  i \notin marked
  OBVIOUS
<1> USE DEF IndInv
<1>1. CASE \E j \in Items : BeginItem(j)
  <2>1. PICK j \in Items : BeginItem(j)
    BY <1>1
  <2>2. i = j
    BY <2>1 DEF BeginItem, TypeOK
  <2> QED
    BY <2>1, <2>2 DEF BeginItem, PassShape
<1>2. CASE EndLoop \/ Crash
  <2>1. starts'[i] = 0 /\ starts[i] \in Nat
    BY <1>2 DEF EndLoop, Crash, LoseMemory, TypeOK
  <2> QED
    BY <2>1
<1>3. CASE ~(EndLoop \/ Crash) /\ ~(\E j \in Items : BeginItem(j))
  <2>1. starts' = starts
    BY <1>3, Zenon DEF Next, vars, Arrive, StartPass, ItemReturns, ItemRaises, EndPass,
       Wake, RequestStop, Restart, Tick
  <2>2. starts[i] \in Nat
    BY DEF TypeOK
  <2> QED
    BY <2>1, <2>2
<1> QED
  BY <1>1, <1>2, <1>3

\* A durably quarantined item is never started again, in this process life or in
\* a later one that begins with an empty ledger.
THEOREM FinalHolds == Spec => QuarantineIsFinal
<1>1. IndInv /\ [Next]_vars
        => [\A i \in Items : starts'[i] > starts[i] => i \notin marked]_vars
  BY FinalStep
<1> QED
  BY <1>1, Inductive, PTL DEF Spec, QuarantineIsFinal
=============================================================================
