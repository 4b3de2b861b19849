---------------------------- MODULE OrderProofs ----------------------------
(***************************************************************************)
(* Safety of order execution for every set of runs, tickers and approved   *)
(* intents, every posture and every environment.                           *)
(*                                                                         *)
(* BuyNeedsReview is not inductive: that a buy still to be submitted has   *)
(* its review rests on what the process knew when it classified the run    *)
(* (StatusIsBacked) and on what it kept after the posture (TodoIsBacked).  *)
(* NoOversell rests on exits having one key per position (SellsByPosition) *)
(* and FilledMeansTraded on the answer in hand being the broker's          *)
(* (HandIsBacked).                                                         *)
(*                                                                         *)
(* AllAccounted and UnvetoedOrdersRecorded hold while graph writes are     *)
(* answered.  The first is a sum kept from the reading of the veto to the  *)
(* record (CountedInHand); the second says what became of each intent that *)
(* is no longer to do (NotedInHand).  Both need that a veto comes once.    *)
(* VetoedBuyStaysOut follows from StaysOut, which every step keeps.        *)
(***************************************************************************)
EXTENDS OrderExecution, WellFoundedInduction, FiniteSetTheorems, TLAPS

\* The portfolio manager names the position of every exit it approves.
ExitsNamePosition ==
  \A r \in Runs : \A n \in DOMAIN Approved[r] :
    Approved[r][n].side = "sell" => Approved[r][n].ref

Guarded(r) == Posture = "binding" \/ r \in Degraded

\* What the status read at Begin says about the graph, then and ever after.
StatusIsBacked ==
  pc = "veto" =>
    /\ status \in {"applied", "applied_failed_open"} => run \in reviewed
    /\ status = "not_required" => ~HasBuy(run)
    /\ status = "proceeded_unvetoed" => run \notin Degraded

\* Every buy left to submit from a guarded run has its review.
TodoIsBacked ==
  pc \in {"reconcile", "gate", "submit", "write"} /\ Guarded(run) =>
    \A n \in todo : Approved[run][n].side = "buy" => run \in reviewed

ReviewInv == TypeOK /\ StatusIsBacked /\ TodoIsBacked /\ BuyNeedsReview

\* No order was ever sent under a run-scoped sell key.
SellsByPosition ==
  \A k \in Keys : k.side = "sell" /\ order[k] # "none" => k.scope = ExitScope

Traded == {"partial", "filled", "cut"}

\* An answer in hand that reports a trade is about an order that traded.
HandIsBacked ==
  pc = "write" /\ hand.said \in {"filled", "partial"} => order[CurrentKey] \in Traded

TradeInv == TypeOK /\ HandIsBacked /\ FilledMeansTraded

----------------------------------------------------------------------------
(* Parts of the invariants of accounting and recording *)

\* The statuses of a run whose review was linked when it was classified.
Applied == {"applied", "applied_failed_open"}

\* A veto comes with its review, once.
VetoOnce == \A r \in Runs \ reviewed : veto[r] = {}

\* A run in hand as reviewed is reviewed, and none in hand is executed.
RunIsOpen ==
  pc # "idle" => /\ run \notin linked
                 /\ status \in Applied => run \in reviewed

\* Counters start at zero, and nothing is left to do when the run is recorded.
Stages ==
  /\ pc = "veto" => tally.blocked = 0
  /\ pc \in {"veto", "reconcile", "gate"} =>
       tally.submitted = 0 /\ tally.rejected = 0 /\ tally.skipped = 0
  /\ pc \in {"record", "link"} => todo = {}

InHand == pc \in {"reconcile", "gate", "submit", "write", "record", "link"}

\* n intents are what a run with this status has to account for: the ones the
\* review left, or all of them when none was linked.
Settles(r, s, n) ==
  \/ r \in reviewed /\ n = Len(Approved[r]) - Cardinality(Vetoed(r))
  \/ s \notin Applied /\ n = Len(Approved[r])

\* What is counted and what is left to do add up, at every step.
CountedInHand ==
  InHand => Settles(run, status, tally.submitted + tally.rejected + tally.skipped
                                   + tally.blocked + Cardinality(todo))

\* And they did when the ExecutionRun was written, whatever came after.
CountedOnRecord ==
  \A r \in Runs : execRun[r] # NoRun =>
    Settles(r, execRun[r].status,
            execRun[r].submitted + execRun[r].rejected + execRun[r].skipped)

AccountInv ==
  TypeOK /\ VetoOnce /\ RunIsOpen /\ Stages /\ CountedInHand /\ CountedOnRecord

KeyAt(r, n) == KeyOf(r, Approved[r][n])
BuyAt(r, n) == Approved[r][n].side = "buy"

\* A run that blocks its buys has sent none of them.
BlockedUnsent ==
  pc = "veto" /\ BlocksBuys(status) =>
    \A n \in DOMAIN Approved[run] : BuyAt(run, n) => order[KeyAt(run, n)] = "none"

\* Intent n is vetoed or has its Fill.
Noted(r, n) == Approved[r][n].ticker \in veto[r] \/ fills[KeyAt(r, n)] # <<>>

\* What is no longer to do is noted, or is an unsent buy of a run that has no
\* other buy to send.
NotedInHand ==
  InHand => \A n \in DOMAIN Approved[run] \ todo :
    \/ Noted(run, n)
    \/ BuyAt(run, n) /\ order[KeyAt(run, n)] = "none" /\ \A m \in todo : ~BuyAt(run, m)

\* The same of every executed run.
NotedOnRecord ==
  \A r \in linked : \A n \in DOMAIN Approved[r] :
    Noted(r, n) \/ (BuyAt(r, n) /\ order[KeyAt(r, n)] = "none")

RecordInv ==
  ReviewInv /\ VetoOnce /\ RunIsOpen /\ Stages /\ BlockedUnsent /\ NotedInHand /\ NotedOnRecord

\* Buy t of run r is vetoed, unsent and not about to be sent.
StaysOut(r, t) ==
  /\ r \in reviewed /\ t \in veto[r]
  /\ order[[scope |-> r, ticker |-> t, side |-> "buy"]] = "none"
  /\ InHand /\ run = r =>
       \A n \in todo : ~(BuyAt(r, n) /\ Approved[r][n].ticker = t)

----------------------------------------------------------------------------
(* Operators *)

\* A nonempty set of naturals has the least element that Min names.
LEMMA MinInSet ==
  ASSUME NEW S \in SUBSET Nat, S # {}
  PROVE  Min(S) \in S
<1> DEFINE R == {ss \in Nat \X Nat : ss[1] < ss[2]}
<1>1. PICK x \in S : \A y \in S : ~(<<y, x>> \in R)
  <2>1. IsWellFoundedOn(R, Nat)
    BY NatLessThanWellFounded, Zenon DEF OpToRel
  <2> HIDE DEF R
  <2> QED
    BY <2>1, WFMin
<1>2. \A y \in S : x <= y
  <2>1. ASSUME NEW y \in S PROVE ~(y < x)
    <3>1. <<y, x>> \in Nat \X Nat /\ <<y, x>>[1] = y /\ <<y, x>>[2] = x
      OBVIOUS
    <3>2. <<y, x>> \in Nat \X Nat => (<<y, x>> \in R <=> <<y, x>>[1] < <<y, x>>[2])
      BY Zenon
    <3> QED
      BY <1>1, <3>1, <3>2
  <2> QED
    BY <2>1
<1> QED
  BY <1>2, Zenon DEF Min

\* A function on 1..n is a sequence, with n as its length.
LEMMA FunctionIsSeq ==
  ASSUME NEW S, NEW n \in Nat, NEW f \in [1..n -> S]
  PROVE  f \in Seq(S) /\ Len(f) = n
OBVIOUS

\* Every intent's idempotency key is a key.
LEMMA KeyType ==
  ASSUME NEW r \in Runs, NEW n \in DOMAIN Approved[r]
  PROVE  /\ Approved[r][n] \in Intents
         /\ KeyOf(r, Approved[r][n]) \in Keys
         /\ KeyOf(r, Approved[r][n]).side = Approved[r][n].side
         /\ Approved[r][n].side = "buy" => KeyOf(r, Approved[r][n]).scope = r
<1>1. Approved[r] \in Seq(Intents)
  BY ApprovedAssumption
<1>2. Approved[r][n] \in Intents
  BY <1>1
<1> QED
  BY <1>2 DEF KeyOf, Keys, Intents, Sides

\* A broker order is reported with a status of the port.
LEMMA StatusOfType ==
  ASSUME NEW o \in OrderStates
  PROVE  /\ StatusOf(o) \in Said
         /\ StatusOf(o) \in {"filled", "partial"} => o \in Traded
BY DEF StatusOf, OrderStates, Said, Traded

\* The intents of a run are finitely many natural indices.
LEMMA IndexSet ==
  ASSUME NEW r \in Runs
  PROVE  /\ DOMAIN Approved[r] \subseteq Nat
         /\ IsFiniteSet(DOMAIN Approved[r])
<1>1. Approved[r] \in Seq(Intents)
  BY ApprovedAssumption
<1>2. DOMAIN Approved[r] = 1..Len(Approved[r]) /\ Len(Approved[r]) \in Nat
  BY <1>1
<1> QED
  BY <1>2, FS_Interval

\* While work is left, the intent in hand is one of the run's.
LEMMA CurrentType ==
  ASSUME TypeOK, pc # "idle", todo # {}
  PROVE  /\ run \in Runs
         /\ Current \in todo /\ Current \in DOMAIN Approved[run]
         /\ CurrentKey \in Keys
<1>1. run \in Runs /\ todo \subseteq DOMAIN Approved[run]
  BY DEF TypeOK
<1>2. todo \in SUBSET Nat
  BY <1>1, IndexSet
<1>3. Current \in todo
  BY <1>2, MinInSet DEF Current
<1> QED
  BY <1>1, <1>3, KeyType DEF CurrentKey

\* A chain stays a chain of fills when an attempt is written to it.
LEMMA WithAttemptType ==
  ASSUME NEW c \in Seq(Fills), NEW f \in Fills
  PROVE  /\ WithAttempt(c, f) \in Seq(Fills)
         /\ \A n \in DOMAIN WithAttempt(c, f) :
              (n \in DOMAIN c /\ WithAttempt(c, f)[n] = c[n]) \/ WithAttempt(c, f)[n] = f
BY DEF WithAttempt

\* What a run writes as a fill is a fill.
LEMMA NewFillType ==
  ASSUME NEW r \in Runs, NEW a \in Answers
  PROVE  /\ NewFill(r, a) \in Fills
         /\ EffectiveStatus(NewFill(r, a)) = a.said
BY DEF NewFill, Fills, Answers, EffectiveStatus, Said

\* A refresh keeps a fill a fill.
LEMMA RefreshedType ==
  ASSUME NEW f \in Fills, NEW o \in OrderStates
  PROVE  /\ Refreshed(f, o) \in Fills
         /\ EffectiveStatus(Refreshed(f, o)) \in {"filled", "partial"}
              => EffectiveStatus(f) \in {"filled", "partial"} \/ o \in Traded
BY StatusOfType DEF Refreshed, Fills, EffectiveStatus, Said, AwaitsBroker

\* Counting an outcome keeps a tally a tally.
LEMMA TallyType ==
  ASSUME NEW t \in Tallies
  PROVE  /\ [t EXCEPT !.skipped = @ + 1] \in Tallies
         /\ \A said \in Said : Counted(t, said) \in Tallies
BY DEF Tallies, Counted

----------------------------------------------------------------------------
(* Types *)

\* The initial state is well typed.
LEMMA TypeInit == Init => TypeOK
<1> SUFFICES ASSUME Init PROVE TypeOK
  OBVIOUS
<1>1. fills \in [Keys -> Seq(Fills)]
  BY DEF Init
<1>2. execRun \in [Runs -> ExecutionRuns \cup {NoRun}] /\ veto \in [Runs -> SUBSET Tickers]
  BY DEF Init
<1>3. order \in [Keys -> OrderStates]
  BY DEF Init, OrderStates
<1>4. tally \in Tallies /\ hand \in Answers /\ status \in Statuses
  BY DEF Init, Tallies, Answers, NoTally, NoAnswer, Said, Statuses
<1> QED
  BY <1>1, <1>2, <1>3, <1>4, ApprovedAssumption DEF Init, TypeOK

\* Letting go of the run leaves the process well typed.
LEMMA LetGoType ==
  ASSUME LetGo
  PROVE  /\ pc' = "idle" /\ run' = NoRun /\ todo' = {} /\ NoRun \notin Runs
         /\ tally' \in Tallies /\ hand' \in Answers /\ status' \in Statuses
BY ApprovedAssumption DEF LetGo, Tallies, Answers, NoTally, NoAnswer, Said, Statuses

\* Every step keeps every variable in its type.
LEMMA TypeStep == TypeOK /\ [Next]_vars => TypeOK'
<1> SUFFICES ASSUME TypeOK, [Next]_vars PROVE TypeOK'
  OBVIOUS
<1> USE DEF graph, proc
<1>1. ASSUME NEW r \in Runs, Arrive(r) PROVE TypeOK'
  BY <1>1 DEF TypeOK, Arrive
<1>2. ASSUME NEW r \in Runs, GraceExpires(r) PROVE TypeOK'
  BY <1>2 DEF TypeOK, GraceExpires
<1>3. ASSUME NEW r \in Runs, Deliberate(r) PROVE TypeOK'
  <2>1. \A n \in DOMAIN Approved[r] : Approved[r][n].ticker \in Tickers
    BY KeyType DEF Intents
  <2>2. TickersOf(r) \subseteq Tickers
    BY <2>1 DEF TickersOf
  <2>3. veto' \in [Runs -> SUBSET Tickers] /\ failedOpen' \subseteq Runs
    BY <1>3, <2>2 DEF TypeOK, Deliberate
  <2> QED
    BY <1>3, <2>3 DEF TypeOK, Deliberate
<1>4. CASE ChangeStage
  BY <1>4 DEF TypeOK, ChangeStage
<1>5. ASSUME NEW k \in Keys, BrokerMoves(k) PROVE TypeOK'
  <2>1. order' \in [Keys -> OrderStates]
    BY <1>5 DEF TypeOK, BrokerMoves
  <2> QED
    BY <1>5, <2>1 DEF TypeOK, BrokerMoves
<1>6. ASSUME NEW r \in Runs, Begin(r) PROVE TypeOK'
  <2>1. DeliberationStatus(r) \in Statuses
    BY DEF DeliberationStatus, Statuses
  <2>2. tally' \in Tallies /\ hand' \in Answers
    BY <1>6 DEF Begin, Tallies, Answers, NoTally, NoAnswer, Said
  <2> QED
    BY <1>6, <2>1, <2>2, ApprovedAssumption DEF TypeOK, Begin
<1>7. CASE ReadVeto
  <2> DEFINE left == Survivors(run)
             kept == IF BlocksBuys(status)
                     THEN {n \in left : Approved[run][n].side # "buy"} ELSE left
  <2>1. run \in Runs /\ left \subseteq DOMAIN Approved[run] /\ kept \subseteq left
    BY <1>7 DEF TypeOK, ReadVeto, Survivors
  <2>2. IsFiniteSet(left)
    BY <2>1, IndexSet, FS_Subset
  <2>3. /\ Cardinality(left) \in Nat /\ Cardinality(kept) \in Nat
        /\ Cardinality(kept) <= Cardinality(left)
    BY <2>1, <2>2, FS_Subset, FS_CardinalityType
  <2>4. Cardinality(left) - Cardinality(kept) \in Nat
    BY <2>3
  <2>5. tally' = [tally EXCEPT !.blocked = Cardinality(left) - Cardinality(kept)] /\ todo' = kept
    BY <1>7 DEF ReadVeto
  <2> HIDE DEF left, kept
  <2>6. tally' \in Tallies
    BY <2>4, <2>5 DEF TypeOK, Tallies
  <2> QED
    BY <1>7, <2>1, <2>5, <2>6, ApprovedAssumption DEF TypeOK, ReadVeto
<1>8. CASE Reconcile
  <2>1. CASE fills' = [k \in Keys |->
                         [n \in DOMAIN fills[k] |-> Refreshed(fills[k][n], order[k])]]
    <3>1. ASSUME NEW k \in Keys PROVE fills'[k] \in Seq(Fills)
      <4> DEFINE f == [n \in DOMAIN fills[k] |-> Refreshed(fills[k][n], order[k])]
      <4>1. fills[k] \in Seq(Fills) /\ order[k] \in OrderStates
        BY DEF TypeOK
      <4>2. DOMAIN fills[k] = 1..Len(fills[k]) /\ Len(fills[k]) \in Nat
        BY <4>1
      <4>3. \A n \in DOMAIN fills[k] : Refreshed(fills[k][n], order[k]) \in Fills
        BY <4>1, RefreshedType
      <4>4. f \in [1..Len(fills[k]) -> Fills]
        BY <4>2, <4>3
      <4> HIDE DEF f
      <4>5. f \in Seq(Fills)
        BY <4>2, <4>4, FunctionIsSeq
      <4> QED
        BY <2>1, <4>5 DEF f
    <3>2. fills' \in [Keys -> Seq(Fills)]
      BY <2>1, <3>1
    <3> QED
      BY <1>8, <3>2 DEF TypeOK, Reconcile
  <2>2. CASE fills' = fills
    BY <1>8, <2>2 DEF TypeOK, Reconcile
  <2> QED
    BY <1>8, <2>1, <2>2 DEF Reconcile
<1>9. CASE PassGate
  BY <1>9 DEF TypeOK, PassGate
<1>10. CASE LiveGateRejects
  <2>1. run \in Runs /\ todo \subseteq DOMAIN Approved[run]
    BY <1>10 DEF TypeOK, LiveGateRejects
  <2>2. NewFill(run, NoAnswer) \in Fills
    BY <2>1, NewFillType DEF NoAnswer, Answers, Said
  <2>3. \A k \in Keys : WithAttempt(fills[k], NewFill(run, NoAnswer)) \in Seq(Fills)
    BY <2>2, WithAttemptType DEF TypeOK
  <2>4. fills' \in [Keys -> Seq(Fills)]
    BY <1>10, <2>3 DEF TypeOK, LiveGateRejects
  <2>5. Cardinality(todo) \in Nat
    BY <2>1, IndexSet, FS_Subset, FS_CardinalityType
  <2>6. tally' \in Tallies
    BY <1>10, <2>5 DEF TypeOK, LiveGateRejects, Tallies
  <2> QED
    BY <1>10, <2>4, <2>6 DEF TypeOK, LiveGateRejects
<1>11. CASE SkipCompletedExit
  <2>1. tally' \in Tallies
    <3>1. tally \in Tallies /\ tally' = [tally EXCEPT !.skipped = @ + 1]
      BY <1>11 DEF TypeOK, SkipCompletedExit
    <3> QED
      BY <3>1, TallyType
  <2> QED
    BY <1>11, <2>1 DEF TypeOK, SkipCompletedExit
<1>12. CASE SubmitAnswered
  <2>1. CurrentKey \in Keys
    BY <1>12, CurrentType DEF SubmitAnswered
  <2>2. PICK new \in OrderStates : /\ order' = [order EXCEPT ![CurrentKey] = new]
                                   /\ hand' = [said |-> StatusOf(new), real |-> TRUE]
    BY <1>12, <2>1 DEF TypeOK, SubmitAnswered, OrderStates
  <2>3. hand' \in Answers /\ order' \in [Keys -> OrderStates]
    BY <2>2, StatusOfType DEF TypeOK, Answers
  <2> QED
    BY <1>12, <2>3 DEF TypeOK, SubmitAnswered
<1>13. CASE SubmitRaised
  <2>1. order' \in [Keys -> OrderStates]
    BY <1>13 DEF TypeOK, SubmitRaised, OrderStates
  <2>2. hand' \in Answers
    BY <1>13 DEF SubmitRaised, NoAnswer, Answers, Said
  <2> QED
    BY <1>13, <2>1, <2>2 DEF TypeOK, SubmitRaised
<1>14. CASE WriteFill
  <2>1. CurrentKey \in Keys /\ run \in Runs
    BY <1>14, CurrentType DEF TypeOK, WriteFill
  <2>2. NewFill(run, hand) \in Fills
    BY <2>1, NewFillType DEF TypeOK
  <2>3. WithAttempt(fills[CurrentKey], NewFill(run, hand)) \in Seq(Fills)
    BY <2>1, <2>2, WithAttemptType DEF TypeOK
  <2>4. fills' \in [Keys -> Seq(Fills)]
    BY <1>14, <2>1, <2>3 DEF TypeOK, WriteFill
  <2>5. tally' \in Tallies
    <3>1. tally \in Tallies /\ hand.said \in Said /\ tally' = Counted(tally, hand.said)
      BY <1>14 DEF TypeOK, WriteFill, Answers
    <3> QED
      BY <3>1, TallyType
  <2>6. hand' \in Answers
    BY <1>14 DEF WriteFill, NoAnswer, Answers, Said
  <2> QED
    BY <1>14, <2>4, <2>5, <2>6 DEF TypeOK, WriteFill
<1>15. CASE WriteFillFails
  <2>1. hand' \in Answers
    BY <1>15 DEF WriteFillFails, NoAnswer, Answers, Said
  <2> QED
    BY <1>15, <2>1 DEF TypeOK, WriteFillFails
<1>16. CASE SubmitDone
  BY <1>16 DEF TypeOK, SubmitDone
<1>17. CASE WriteExecutionRun
  <2>1. run \in Runs
    BY <1>17 DEF TypeOK, WriteExecutionRun
  <2>2. ExecutionProps \in ExecutionRuns
    BY DEF TypeOK, ExecutionProps, ExecutionRuns, Tallies
  <2>3. execRun' \in [Runs -> ExecutionRuns \cup {NoRun}]
    BY <1>17, <2>1, <2>2 DEF TypeOK, WriteExecutionRun
  <2> QED
    BY <1>17, <2>3 DEF TypeOK, WriteExecutionRun
<1>18. CASE WriteExecutionRunRaises
  BY <1>18, LetGoType DEF TypeOK, WriteExecutionRunRaises
<1>19. CASE Link
  BY <1>19, LetGoType DEF TypeOK, Link
<1>20. CASE LinkFails
  BY <1>20, LetGoType DEF TypeOK, LinkFails
<1>21. CASE Crash
  BY <1>21, LetGoType DEF TypeOK, Crash
<1>22. CASE UNCHANGED vars
  BY <1>22 DEF TypeOK, vars
<1> QED
  BY <1>1, <1>2, <1>3, <1>4, <1>5, <1>6, <1>7, <1>8, <1>9, <1>10, <1>11, <1>12, <1>13,
     <1>14, <1>15, <1>16, <1>17, <1>18, <1>19, <1>20, <1>21, <1>22
  DEF Next, Executor, Mishap, World

\* The graph's facts, the broker's orders and the process keep their types;
\* execute_pm_node never holds a run that should still be waiting.
THEOREM TypeCorrect == Spec => []TypeOK
BY TypeInit, TypeStep, PTL DEF Spec

----------------------------------------------------------------------------
(* No buy without its review *)

\* The process's own steps keep the review invariant.
LEMMA ReviewStep == ReviewInv /\ [Next]_vars => ReviewInv'
<1> SUFFICES ASSUME ReviewInv, [Next]_vars PROVE StatusIsBacked' /\ TodoIsBacked' /\ BuyNeedsReview'
  BY TypeStep DEF ReviewInv
<1> USE DEF graph, proc, ReviewInv
<1>0. reviewed \subseteq reviewed'
  <2>1. CASE \E r \in Runs : Deliberate(r)
    BY <2>1 DEF Deliberate
  <2>2. CASE UNCHANGED reviewed
    BY <2>2
  <2> QED
    BY <2>1, <2>2 DEF Next, Executor, Mishap, World, vars, Arrive, GraceExpires, ChangeStage,
       BrokerMoves, Begin, ReadVeto, Reconcile, PassGate, LiveGateRejects, SkipCompletedExit,
       SubmitAnswered, SubmitRaised, WriteFill, WriteFillFails, SubmitDone, WriteExecutionRun,
       WriteExecutionRunRaises, Link, LinkFails, Crash
<1>1. CASE \/ \E r \in Runs : Arrive(r) \/ GraceExpires(r) \/ Deliberate(r)
           \/ ChangeStage \/ UNCHANGED vars
  <2>1. UNCHANGED <<order, proc>>
    BY <1>1 DEF Arrive, GraceExpires, Deliberate, ChangeStage, vars
  <2> QED
    BY <1>0, <2>1 DEF StatusIsBacked, TodoIsBacked, BuyNeedsReview
<1>2. ASSUME NEW k \in Keys, BrokerMoves(k)
      PROVE  StatusIsBacked' /\ TodoIsBacked' /\ BuyNeedsReview'
  <2>1. \A j \in Keys : order'[j] # "none" => order[j] # "none"
    BY <1>2 DEF BrokerMoves, TypeOK
  <2> QED
    BY <1>2, <2>1 DEF BrokerMoves, StatusIsBacked, TodoIsBacked, BuyNeedsReview
<1>3. ASSUME NEW r \in Runs, Begin(r)
      PROVE  StatusIsBacked' /\ TodoIsBacked' /\ BuyNeedsReview'
  <2>1. StatusIsBacked'
    BY <1>3 DEF Begin, StatusIsBacked, DeliberationStatus, HasBuy
  <2> QED
    BY <1>3, <2>1 DEF Begin, TodoIsBacked, BuyNeedsReview
<1>4. CASE ReadVeto
  <2>1. run \in Runs /\ status \in Statuses /\ status # "waiting" /\ pc = "veto"
    BY <1>4 DEF ReadVeto, TypeOK
  <2>2. todo' \subseteq DOMAIN Approved[run]
    BY <1>4 DEF ReadVeto, Survivors
  <2>3. ASSUME Guarded(run), NEW n \in todo', Approved[run][n].side = "buy"
        PROVE  run \in reviewed
    <3>1. ~BlocksBuys(status)
      BY <1>4, <2>3 DEF ReadVeto
    <3>2. HasBuy(run)
      BY <2>2, <2>3 DEF HasBuy
    <3>3. status # "held_degraded" /\ status # "not_required"
      BY <2>1, <3>1, <3>2 DEF BlocksBuys, StatusIsBacked
    <3>4. status # "proceeded_unvetoed"
      BY <2>1, <2>3, <3>1 DEF BlocksBuys, StatusIsBacked, Guarded
    <3> QED
      BY <2>1, <3>3, <3>4 DEF StatusIsBacked, Statuses
  <2> QED
    BY <1>4, <2>3 DEF ReadVeto, StatusIsBacked, TodoIsBacked, BuyNeedsReview, Guarded
<1>5. CASE Reconcile \/ PassGate \/ LiveGateRejects \/ SkipCompletedExit
  BY <1>5 DEF Reconcile, PassGate, LiveGateRejects, SkipCompletedExit,
     StatusIsBacked, TodoIsBacked, BuyNeedsReview, Guarded
<1>6. CASE SubmitAnswered \/ SubmitRaised
  <2>1. /\ pc = "submit" /\ todo # {} /\ pc' = "write" /\ run' = run /\ todo' = todo
        /\ reviewed' = reviewed
        /\ \A k \in Keys : k # CurrentKey => order'[k] = order[k]
    BY <1>6 DEF SubmitAnswered, SubmitRaised, TypeOK
  <2>2. /\ run \in Runs /\ Current \in todo /\ Current \in DOMAIN Approved[run]
        /\ CurrentKey \in Keys
    BY <2>1, CurrentType
  <2>3. /\ CurrentKey.side = Approved[run][Current].side
        /\ CurrentKey.side = "buy" => CurrentKey.scope = run
    BY <2>2, KeyType DEF CurrentKey
  <2>4. CurrentKey.side = "buy" /\ Guarded(run) => run \in reviewed
    BY <2>1, <2>2, <2>3 DEF TodoIsBacked
  <2>5. BuyNeedsReview'
    BY <2>1, <2>3, <2>4 DEF BuyNeedsReview, Guarded
  <2> QED
    BY <2>1, <2>5 DEF StatusIsBacked, TodoIsBacked, Guarded
<1>7. CASE WriteFill \/ WriteFillFails \/ SubmitDone \/ WriteExecutionRun
  BY <1>7 DEF WriteFill, WriteFillFails, SubmitDone, WriteExecutionRun,
     StatusIsBacked, TodoIsBacked, BuyNeedsReview, Guarded
<1>8. CASE WriteExecutionRunRaises \/ Link \/ LinkFails \/ Crash
  BY <1>8 DEF WriteExecutionRunRaises, Link, LinkFails, Crash, LetGo,
     StatusIsBacked, TodoIsBacked, BuyNeedsReview
<1> QED
  BY <1>1, <1>2, <1>3, <1>4, <1>5, <1>6, <1>7, <1>8 DEF Next, Executor, Mishap, World

\* Under the binding posture, and on degraded runs, a buy is at the broker
\* only if its review is linked: whatever raced, crashed or was retried.
THEOREM ReviewHolds == Spec => []BuyNeedsReview
<1>1. Init => ReviewInv
  BY TypeInit DEF Init, ReviewInv, StatusIsBacked, TodoIsBacked, BuyNeedsReview
<1>2. ReviewInv => BuyNeedsReview
  BY DEF ReviewInv
<1> QED
  BY <1>1, <1>2, ReviewStep, PTL DEF Spec

----------------------------------------------------------------------------
(* One order per exited position *)

\* No step sends a sell under a run-scoped key when exits name their position.
LEMMA SellStep ==
  ASSUME ExitsNamePosition
  PROVE  TypeOK /\ SellsByPosition /\ [Next]_vars => SellsByPosition'
<1> SUFFICES ASSUME TypeOK, SellsByPosition, [Next]_vars PROVE SellsByPosition'
  OBVIOUS
<1> USE DEF graph, proc
<1>1. CASE \E k \in Keys : BrokerMoves(k)
  <2>1. \A j \in Keys : order'[j] # "none" => order[j] # "none"
    BY <1>1 DEF BrokerMoves, TypeOK
  <2> QED
    BY <2>1 DEF SellsByPosition
<1>2. CASE SubmitAnswered \/ SubmitRaised
  <2>1. /\ pc = "submit" /\ todo # {}
        /\ \A k \in Keys : k # CurrentKey => order'[k] = order[k]
    BY <1>2 DEF SubmitAnswered, SubmitRaised, TypeOK
  <2>2. run \in Runs /\ Current \in DOMAIN Approved[run]
    BY <2>1, CurrentType
  <2>3. CurrentKey.side = "sell" => CurrentKey.scope = ExitScope
    BY <2>2 DEF CurrentKey, KeyOf, ExitsNamePosition
  <2> QED
    BY <2>1, <2>3 DEF SellsByPosition
<1>3. CASE UNCHANGED order
  BY <1>3 DEF SellsByPosition
<1> QED
  BY <1>1, <1>2, <1>3 DEF Next, Executor, Mishap, World, vars, Arrive, GraceExpires,
     Deliberate, ChangeStage, Begin, ReadVeto, Reconcile, PassGate, LiveGateRejects,
     SkipCompletedExit, WriteFill, WriteFillFails, SubmitDone, WriteExecutionRun,
     WriteExecutionRunRaises, Link, LinkFails, Crash

\* However often an exit is decided, retried or replayed, and whatever the
\* broker loses or the process forgets, one order at most sells a position.
THEOREM OversellHolds ==
  ASSUME ExitsNamePosition
  PROVE  Spec => []NoOversell
<1>1. Init => TypeOK /\ SellsByPosition
  BY TypeInit DEF Init, SellsByPosition
<1>2. TypeOK /\ SellsByPosition => NoOversell
  BY DEF SellsByPosition, NoOversell, Keys, Working
<1> QED
  BY <1>1, <1>2, SellStep, TypeStep, PTL DEF Spec

----------------------------------------------------------------------------
(* Fills tell the truth about trades *)

\* Every step keeps the trade invariant.
LEMMA TradeStep == TradeInv /\ [Next]_vars => TradeInv'
<1> SUFFICES ASSUME TradeInv, [Next]_vars PROVE HandIsBacked' /\ FilledMeansTraded'
  BY TypeStep DEF TradeInv
<1> USE DEF graph, proc, TradeInv
<1>0. \A k \in Keys : order[k] \in Traded => order'[k] \in Traded
  <2>1. CASE \E k \in Keys : BrokerMoves(k)
    BY <2>1 DEF BrokerMoves, TypeOK, Traded
  <2>2. CASE SubmitAnswered
    BY <2>2 DEF SubmitAnswered, TypeOK, Traded
  <2>3. CASE SubmitRaised
    BY <2>3 DEF SubmitRaised, TypeOK, Traded
  <2>4. CASE UNCHANGED order
    BY <2>4
  <2> QED
    BY <2>1, <2>2, <2>3, <2>4 DEF Next, Executor, Mishap, World, vars, Arrive, GraceExpires,
       Deliberate, ChangeStage, Begin, ReadVeto, Reconcile, PassGate, LiveGateRejects,
       SkipCompletedExit, WriteFill, WriteFillFails, SubmitDone, WriteExecutionRun,
       WriteExecutionRunRaises, Link, LinkFails, Crash
<1>1. ASSUME UNCHANGED fills PROVE FilledMeansTraded'
  BY <1>0, <1>1 DEF FilledMeansTraded, Traded
<1>2. ASSUME UNCHANGED <<pc, run, todo, hand>> PROVE HandIsBacked'
  <2>1. CASE pc = "write"
    <3>1. CurrentKey \in Keys /\ CurrentKey' = CurrentKey
      BY <1>2, <2>1, CurrentType DEF TypeOK, CurrentKey, Current
    <3> QED
      BY <1>0, <1>2, <3>1 DEF HandIsBacked
  <2>2. CASE pc # "write"
    BY <1>2, <2>2 DEF HandIsBacked
  <2> QED
    BY <2>1, <2>2
<1>3. ASSUME pc' # "write" PROVE HandIsBacked'
  BY <1>3 DEF HandIsBacked
<1>4. CASE World \/ UNCHANGED vars
  <2>1. UNCHANGED <<fills, pc, run, todo, hand>>
    BY <1>4 DEF World, vars, Arrive, GraceExpires, Deliberate, ChangeStage, BrokerMoves
  <2> QED
    BY <1>1, <1>2, <2>1
<1>5. CASE \/ \E r \in Runs : Begin(r)
           \/ ReadVeto \/ PassGate \/ SubmitDone \/ WriteExecutionRun
           \/ WriteExecutionRunRaises \/ Link \/ Mishap \/ SkipCompletedExit
  <2>1. UNCHANGED fills /\ pc' # "write"
    BY <1>5 DEF Begin, ReadVeto, PassGate, SubmitDone, WriteExecutionRun, LetGo, Mishap,
       WriteExecutionRunRaises, Link, WriteFillFails, LinkFails, Crash, SkipCompletedExit
  <2> QED
    BY <1>1, <1>3, <2>1
<1>6. CASE Reconcile
  <2>1. pc' # "write" /\ order' = order
    BY <1>6 DEF Reconcile
  <2>2. ASSUME NEW k \in Keys, NEW n \in DOMAIN fills'[k],
               EffectiveStatus(fills'[k][n]) \in {"filled", "partial"}
        PROVE  order'[k] \in Traded
    <3>1. CASE fills' = fills
      BY <2>1, <2>2, <3>1 DEF FilledMeansTraded, Traded
    <3>2. CASE fills' = [j \in Keys |->
                           [m \in DOMAIN fills[j] |-> Refreshed(fills[j][m], order[j])]]
      <4>1. n \in DOMAIN fills[k] /\ fills'[k][n] = Refreshed(fills[k][n], order[k])
        BY <2>2, <3>2
      <4>2. fills[k] \in Seq(Fills) /\ order[k] \in OrderStates
        BY DEF TypeOK
      <4>3. fills[k][n] \in Fills
        BY <4>1, <4>2
      <4>4. EffectiveStatus(fills[k][n]) \in {"filled", "partial"} \/ order[k] \in Traded
        BY <2>2, <4>1, <4>2, <4>3, RefreshedType
      <4> QED
        BY <2>1, <4>1, <4>4 DEF FilledMeansTraded, Traded
    <3> QED
      BY <1>6, <3>1, <3>2 DEF Reconcile
  <2> QED
    BY <1>3, <2>1, <2>2 DEF FilledMeansTraded, Traded
<1>7. ASSUME pc # "idle", pc' # "write", NEW K \in SUBSET Keys, NEW a \in Answers,
             fills' = [k \in Keys |-> IF k \in K THEN WithAttempt(fills[k], NewFill(run, a))
                                                 ELSE fills[k]],
             \A k \in K : a.said \in {"filled", "partial"} => order[k] \in Traded
      PROVE  HandIsBacked' /\ FilledMeansTraded'
  <2>1. run \in Runs
    BY <1>7 DEF TypeOK
  <2>2. NewFill(run, a) \in Fills /\ EffectiveStatus(NewFill(run, a)) = a.said
    BY <1>7, <2>1, NewFillType
  <2>3. ASSUME NEW k \in Keys, NEW n \in DOMAIN fills'[k],
               EffectiveStatus(fills'[k][n]) \in {"filled", "partial"}
        PROVE  order'[k] \in Traded
    <3>1. CASE k \notin K
      <4>1. fills'[k] = fills[k]
        BY <1>7, <3>1
      <4>2. order[k] \in Traded
        BY <2>3, <4>1 DEF FilledMeansTraded, Traded
      <4> QED
        BY <1>0, <4>2
    <3>2. CASE k \in K
      <4>1. fills'[k] = WithAttempt(fills[k], NewFill(run, a)) /\ fills[k] \in Seq(Fills)
        BY <1>7, <3>2 DEF TypeOK
      <4>2. \/ n \in DOMAIN fills[k] /\ fills'[k][n] = fills[k][n]
            \/ fills'[k][n] = NewFill(run, a)
        BY <2>2, <2>3, <4>1, WithAttemptType
      <4>3. order[k] \in Traded
        BY <1>7, <2>2, <2>3, <3>2, <4>2 DEF FilledMeansTraded, Traded
      <4> QED
        BY <1>0, <4>3
    <3> QED
      BY <3>1, <3>2
  <2> QED
    BY <1>3, <1>7, <2>3 DEF FilledMeansTraded, Traded
<1>8. CASE LiveGateRejects
  <2> DEFINE K == {KeyOf(run, Approved[run][n]) : n \in todo}
  <2>1. run \in Runs /\ todo \subseteq DOMAIN Approved[run]
    BY <1>8 DEF LiveGateRejects, TypeOK
  <2>2. K \in SUBSET Keys
    BY <2>1, KeyType
  <2>3. NoAnswer \in Answers /\ NoAnswer.said \notin {"filled", "partial"}
    BY DEF NoAnswer, Answers, Said
  <2>4. fills' = [k \in Keys |-> IF k \in K THEN WithAttempt(fills[k], NewFill(run, NoAnswer))
                                           ELSE fills[k]]
    BY <1>8 DEF LiveGateRejects
  <2>5. pc # "idle" /\ pc' # "write"
    BY <1>8 DEF LiveGateRejects
  <2> HIDE DEF K
  <2> QED
    BY <1>7, <2>2, <2>3, <2>4, <2>5
<1>9. CASE WriteFill
  <2> DEFINE K == {CurrentKey}
  <2>1. K \in SUBSET Keys /\ hand \in Answers
    BY <1>9, CurrentType DEF WriteFill, TypeOK
  <2>2. fills' = [k \in Keys |-> IF k \in K THEN WithAttempt(fills[k], NewFill(run, hand))
                                            ELSE fills[k]]
    BY <1>9, <2>1 DEF WriteFill, TypeOK
  <2>3. \A k \in K : hand.said \in {"filled", "partial"} => order[k] \in Traded
    BY <1>9 DEF WriteFill, HandIsBacked
  <2>4. pc # "idle" /\ pc' # "write"
    BY <1>9 DEF WriteFill
  <2> HIDE DEF K
  <2> QED
    BY <1>7, <2>1, <2>2, <2>3, <2>4
<1>10. CASE SubmitAnswered
  <2>1. CurrentKey \in Keys /\ CurrentKey' = CurrentKey
    BY <1>10, CurrentType DEF SubmitAnswered, CurrentKey, Current
  <2>2. PICK new \in OrderStates : /\ order' = [order EXCEPT ![CurrentKey] = new]
                                   /\ hand' = [said |-> StatusOf(new), real |-> TRUE]
    BY <1>10, <2>1 DEF TypeOK, SubmitAnswered, OrderStates
  <2>3. order'[CurrentKey] = new /\ hand'.said = StatusOf(new)
    BY <2>1, <2>2 DEF TypeOK
  <2>4. HandIsBacked'
    BY <2>1, <2>3, StatusOfType DEF HandIsBacked
  <2> QED
    BY <1>1, <1>10, <2>4 DEF SubmitAnswered
<1>11. CASE SubmitRaised
  <2>1. HandIsBacked'
    BY <1>11 DEF SubmitRaised, HandIsBacked, NoAnswer
  <2> QED
    BY <1>1, <1>11, <2>1 DEF SubmitRaised
<1> QED
  BY <1>4, <1>5, <1>6, <1>8, <1>9, <1>10, <1>11 DEF Next, Executor

\* A Fill that reports a fill or a part, by itself or by a later refresh, is
\* backed by a broker order that traded.
THEOREM TradeHolds == Spec => []FilledMeansTraded
<1>1. Init => TradeInv
  BY TypeInit DEF Init, TradeInv, HandIsBacked, FilledMeansTraded
<1>2. TradeInv => FilledMeansTraded
  BY DEF TradeInv
<1> QED
  BY <1>1, <1>2, TradeStep, PTL DEF Spec

----------------------------------------------------------------------------
(* Every intent is accounted for *)

\* A review is linked once, with its vetoes: a later step changes neither.
LEMMA VetoStep ==
  TypeOK /\ VetoOnce /\ [Next]_vars =>
    /\ VetoOnce'
    /\ reviewed \subseteq reviewed'
    /\ \A r \in reviewed : veto'[r] = veto[r]
    /\ \A r \in Runs : veto[r] \subseteq veto'[r]
<1> SUFFICES ASSUME TypeOK, VetoOnce, [Next]_vars
             PROVE  /\ VetoOnce'
                    /\ reviewed \subseteq reviewed'
                    /\ \A r \in reviewed : veto'[r] = veto[r]
                    /\ \A r \in Runs : veto[r] \subseteq veto'[r]
  OBVIOUS
<1>1. ASSUME NEW d \in Runs, Deliberate(d)
      PROVE  /\ VetoOnce'
             /\ reviewed \subseteq reviewed'
             /\ \A r \in reviewed : veto'[r] = veto[r]
             /\ \A r \in Runs : veto[r] \subseteq veto'[r]
  <2>1. d \notin reviewed /\ reviewed' = reviewed \cup {d}
    BY <1>1 DEF Deliberate
  <2>2. \A r \in Runs : r # d => veto'[r] = veto[r]
    BY <1>1 DEF Deliberate, TypeOK
  <2>3. veto[d] = {} /\ reviewed \subseteq Runs
    BY <2>1 DEF VetoOnce, TypeOK
  <2> QED
    BY <2>1, <2>2, <2>3 DEF VetoOnce
<1>2. CASE UNCHANGED <<reviewed, veto>>
  BY <1>2 DEF VetoOnce
<1> QED
  BY <1>1, <1>2 DEF Next, Executor, Mishap, World, vars, graph, Arrive, GraceExpires,
     ChangeStage, BrokerMoves, Begin, ReadVeto, Reconcile, PassGate, LiveGateRejects,
     SkipCompletedExit, SubmitAnswered, SubmitRaised, WriteFill, WriteFillFails, SubmitDone,
     WriteExecutionRun, WriteExecutionRunRaises, Link, LinkFails, Crash

\* What a run has to account for does not change once it is decided.
LEMMA SettlesStep ==
  ASSUME TypeOK, VetoOnce, [Next]_vars, NEW r \in Runs, NEW s, NEW n, Settles(r, s, n)
  PROVE  /\ r \in reviewed => r \in reviewed' /\ Vetoed(r)' = Vetoed(r)
         /\ \/ r \in reviewed' /\ n = Len(Approved[r]) - Cardinality(Vetoed(r)')
            \/ s \notin Applied /\ n = Len(Approved[r])
<1>1. r \in reviewed => r \in reviewed' /\ veto'[r] = veto[r]
  BY VetoStep
<1>2. r \in reviewed => Vetoed(r)' = Vetoed(r)
  BY <1>1 DEF Vetoed
<1> QED
  BY <1>1, <1>2 DEF Settles

\* The survivors of a review and its vetoes make up the approved intents.
LEMMA SurvivorsCount ==
  ASSUME TypeOK, NEW r \in Runs
  PROVE  /\ Survivors(r) \subseteq DOMAIN Approved[r] /\ IsFiniteSet(Survivors(r))
         /\ Cardinality(Survivors(r)) \in Nat
         /\ r \in reviewed =>
              Cardinality(Survivors(r)) = Len(Approved[r]) - Cardinality(Vetoed(r))
         /\ r \notin reviewed => Cardinality(Survivors(r)) = Len(Approved[r])
<1> DEFINE D == DOMAIN Approved[r]
<1>1. Approved[r] \in Seq(Intents)
  BY ApprovedAssumption
<1>2. D = 1..Len(Approved[r]) /\ Len(Approved[r]) \in Nat
  BY <1>1
<1>3. IsFiniteSet(D) /\ Cardinality(D) = Len(Approved[r])
  BY <1>2, FS_Interval
<1>4. Survivors(r) \subseteq D /\ Vetoed(r) \subseteq D
  BY DEF Survivors, Vetoed
<1>5. r \in reviewed => Survivors(r) = D \ Vetoed(r)
  BY DEF Survivors, Vetoed
<1>6. r \notin reviewed => Survivors(r) = D
  BY DEF Survivors
<1>7. D \cap Vetoed(r) = Vetoed(r)
  BY <1>4
<1> HIDE DEF D
<1>8. IsFiniteSet(Survivors(r)) /\ IsFiniteSet(Vetoed(r))
  BY <1>3, <1>4, FS_Subset
<1>9. Cardinality(D \ Vetoed(r)) = Cardinality(D) - Cardinality(D \cap Vetoed(r))
  BY <1>3, FS_Difference
<1>10. Cardinality(Survivors(r)) \in Nat
  BY <1>8, FS_CardinalityType
<1> QED
  BY <1>3, <1>4, <1>5, <1>6, <1>7, <1>8, <1>9, <1>10 DEF D

\* Counting an outcome and taking its intent off the list keeps the sum.
LEMMA OneCounted ==
  ASSUME TypeOK, pc # "idle", todo # {}
  PROVE  /\ Cardinality(todo) \in Nat /\ Cardinality(todo \ {Current}) \in Nat
         /\ Cardinality(todo \ {Current}) = Cardinality(todo) - 1
<1>1. run \in Runs /\ Current \in todo /\ todo \subseteq DOMAIN Approved[run]
  BY CurrentType DEF TypeOK
<1>2. IsFiniteSet(todo)
  BY <1>1, IndexSet, FS_Subset
<1>3. Cardinality(todo \ {Current}) = Cardinality(todo) - 1 /\ IsFiniteSet(todo \ {Current})
  BY <1>1, <1>2, FS_RemoveElement
<1> QED
  BY <1>2, <1>3, FS_CardinalityType

\* Every step keeps the run in hand open and its counters in their stage.
LEMMA OpenStep ==
  TypeOK /\ VetoOnce /\ RunIsOpen /\ Stages /\ [Next]_vars => RunIsOpen' /\ Stages'
<1> SUFFICES ASSUME TypeOK, VetoOnce, RunIsOpen, Stages, [Next]_vars
             PROVE  RunIsOpen' /\ Stages'
  OBVIOUS
<1> USE DEF graph, proc, RunIsOpen, Stages
<1>0. reviewed \subseteq reviewed'
  BY VetoStep
<1>1. CASE World \/ UNCHANGED vars
  <2>1. UNCHANGED <<pc, run, status, todo, tally, linked>>
    BY <1>1 DEF World, vars, Arrive, GraceExpires, Deliberate, ChangeStage, BrokerMoves
  <2> QED
    BY <1>0, <2>1
<1>2. ASSUME NEW r \in Runs, Begin(r) PROVE RunIsOpen' /\ Stages'
  <2>1. DeliberationStatus(r) \in Applied => r \in reviewed
    BY DEF DeliberationStatus, Applied
  <2> QED
    BY <1>2, <2>1 DEF Begin, NoTally
<1>3. CASE ReadVeto
  <2> DEFINE b == Cardinality(Survivors(run)) - Cardinality(
                    IF BlocksBuys(status)
                    THEN {n \in Survivors(run) : Approved[run][n].side # "buy"}
                    ELSE Survivors(run))
  <2>1. tally' = [tally EXCEPT !.blocked = b] /\ tally \in Tallies
    BY <1>3 DEF ReadVeto, TypeOK
  <2> HIDE DEF b
  <2>2. /\ tally'.submitted = tally.submitted /\ tally'.rejected = tally.rejected
        /\ tally'.skipped = tally.skipped
    BY <2>1 DEF Tallies
  <2> QED
    BY <1>3, <2>2 DEF ReadVeto
<1>4. CASE Reconcile \/ PassGate \/ SubmitDone \/ WriteExecutionRun
  BY <1>4 DEF Reconcile, PassGate, SubmitDone, WriteExecutionRun
<1>5. CASE LiveGateRejects \/ SkipCompletedExit \/ SubmitAnswered \/ SubmitRaised
  BY <1>5 DEF LiveGateRejects, SkipCompletedExit, SubmitAnswered, SubmitRaised
<1>6. CASE WriteFill \/ WriteFillFails
  BY <1>6 DEF WriteFill, WriteFillFails
<1>7. CASE WriteExecutionRunRaises \/ Link \/ LinkFails \/ Crash
  BY <1>7 DEF WriteExecutionRunRaises, Link, LinkFails, Crash, LetGo
<1> QED
  BY <1>1, <1>2, <1>3, <1>4, <1>5, <1>6, <1>7 DEF Next, Executor, Mishap

\* Reading the veto opens the account: what is blocked and what is left to do
\* are what the review left, or everything.
LEMMA AccountOpens ==
  ASSUME AccountInv, ReadVeto
  PROVE  CountedInHand'
<1> USE DEF AccountInv, graph
<1> DEFINE left == Survivors(run)
           kept == IF BlocksBuys(status)
                   THEN {n \in left : Approved[run][n].side # "buy"} ELSE left
<1>1. run \in Runs /\ tally \in Tallies /\ pc = "veto"
  BY DEF TypeOK, ReadVeto
<1>2. /\ todo' = kept /\ tally' = [tally EXCEPT !.blocked = Cardinality(left) - Cardinality(kept)]
      /\ UNCHANGED <<run, status, reviewed, veto>>
  BY DEF ReadVeto
<1>3. IsFiniteSet(left) /\ Cardinality(left) \in Nat /\ kept \subseteq left
  BY <1>1, SurvivorsCount
<1>4. \/ run \in reviewed /\ Cardinality(left) = Len(Approved[run]) - Cardinality(Vetoed(run))
      \/ run \notin reviewed /\ Cardinality(left) = Len(Approved[run])
  BY <1>1, SurvivorsCount
<1> HIDE DEF left, kept
<1>5. Cardinality(kept) \in Nat
  BY <1>3, FS_Subset, FS_CardinalityType
<1>6. /\ tally'.submitted = 0 /\ tally'.rejected = 0 /\ tally'.skipped = 0
      /\ tally'.blocked = Cardinality(left) - Cardinality(kept)
  BY <1>1, <1>2 DEF Tallies, Stages
<1>7. tally'.submitted + tally'.rejected + tally'.skipped + tally'.blocked
        + Cardinality(todo') = Cardinality(left)
  BY <1>2, <1>3, <1>5, <1>6
<1>8. Vetoed(run)' = Vetoed(run)
  BY <1>2 DEF Vetoed
<1>9. run \notin reviewed => status \notin Applied
  BY <1>1 DEF RunIsOpen
<1> QED
  BY <1>2, <1>4, <1>7, <1>8, <1>9 DEF CountedInHand, Settles

\* With every graph write answered, each step counts what it takes off the
\* list, and the record keeps the sum it was written with.
LEMMA AccountStep ==
  ASSUME "graph_fault" \notin Env
  PROVE  AccountInv /\ [Next]_vars => AccountInv'
<1> SUFFICES ASSUME AccountInv, [Next]_vars PROVE CountedInHand' /\ CountedOnRecord'
  BY TypeStep, VetoStep, OpenStep DEF AccountInv
<1> DEFINE Sum == tally.submitted + tally.rejected + tally.skipped
                    + tally.blocked + Cardinality(todo)
<1> USE DEF graph, proc, AccountInv
<1>0. ASSUME InHand, NEW n, n = Sum, UNCHANGED <<run, status>>, Sum' = n
      PROVE  CountedInHand'
  <2>1. run \in Runs /\ Settles(run, status, n)
    BY <1>0 DEF TypeOK, InHand, CountedInHand
  <2> QED
    BY <1>0, <2>1, SettlesStep DEF CountedInHand, Settles, Vetoed
<1>1. ASSUME UNCHANGED execRun PROVE CountedOnRecord'
  <2>1. ASSUME NEW r \in Runs, execRun[r] # NoRun
        PROVE  Settles(r, execRun[r].status, execRun[r].submitted + execRun[r].rejected
                                               + execRun[r].skipped)'
    <3> DEFINE n == execRun[r].submitted + execRun[r].rejected + execRun[r].skipped
               s == execRun[r].status
    <3>1. Settles(r, s, n)
      BY <2>1 DEF CountedOnRecord
    <3> HIDE DEF n, s
    <3>2. \/ r \in reviewed' /\ n = Len(Approved[r]) - Cardinality(Vetoed(r)')
          \/ s \notin Applied /\ n = Len(Approved[r])
      BY <3>1, SettlesStep
    <3> QED
      BY <1>1, <3>2 DEF Settles, n, s, Vetoed
  <2> QED
    BY <1>1, <2>1 DEF CountedOnRecord
<1>2. ASSUME ~InHand' PROVE CountedInHand'
  BY <1>2 DEF CountedInHand
<1>3. CASE World \/ UNCHANGED vars
  <2>1. UNCHANGED <<pc, run, status, todo, tally, execRun>>
    BY <1>3 DEF World, vars, Arrive, GraceExpires, Deliberate, ChangeStage, BrokerMoves
  <2>2. CASE InHand
    BY <1>0, <1>1, <2>1, <2>2
  <2>3. CASE ~InHand
    BY <1>1, <1>2, <2>1, <2>3 DEF InHand
  <2> QED
    BY <2>2, <2>3
<1>4. CASE (\E r \in Runs : Begin(r)) \/ WriteExecutionRunRaises \/ Link \/ Crash
  <2>1. UNCHANGED execRun /\ ~InHand'
    BY <1>4 DEF Begin, WriteExecutionRunRaises, Link, Crash, LetGo, InHand
  <2> QED
    BY <1>1, <1>2, <2>1
<1>5. CASE ReadVeto
  BY <1>1, <1>5, AccountOpens DEF ReadVeto
<1>6. CASE Reconcile \/ PassGate \/ SubmitAnswered \/ SubmitRaised \/ SubmitDone
  <2>1. InHand /\ UNCHANGED <<run, status, todo, tally, execRun>>
    BY <1>6 DEF Reconcile, PassGate, SubmitAnswered, SubmitRaised, SubmitDone, InHand
  <2> QED
    BY <1>0, <1>1, <2>1
<1>7. CASE LiveGateRejects
  <2>1. /\ InHand /\ UNCHANGED <<run, status, execRun>> /\ todo' = {} /\ tally \in Tallies
        /\ tally' = [tally EXCEPT !.rejected = Cardinality(todo)] /\ tally.rejected = 0
    BY <1>7 DEF LiveGateRejects, InHand, TypeOK, Stages
  <2>2. Cardinality(todo) \in Nat /\ Cardinality(todo') = 0
    <3>1. run \in Runs /\ todo \subseteq DOMAIN Approved[run]
      BY <1>7 DEF LiveGateRejects, TypeOK
    <3> QED
      BY <2>1, <3>1, IndexSet, FS_Subset, FS_CardinalityType, FS_EmptySet
  <2>3. /\ tally'.submitted = tally.submitted /\ tally'.skipped = tally.skipped
        /\ tally'.blocked = tally.blocked /\ tally'.rejected = Cardinality(todo)
        /\ tally.submitted \in Nat /\ tally.skipped \in Nat /\ tally.blocked \in Nat
    BY <2>1 DEF Tallies
  <2>4. Sum' = Sum
    BY <2>1, <2>2, <2>3
  <2> QED
    BY <1>0, <1>1, <2>1, <2>4
<1>8. CASE SkipCompletedExit
  <2>1. /\ InHand /\ UNCHANGED <<run, status, execRun>> /\ todo' = todo \ {Current}
        /\ tally \in Tallies /\ tally' = [tally EXCEPT !.skipped = @ + 1]
        /\ todo # {} /\ pc # "idle"
    BY <1>8 DEF SkipCompletedExit, InHand, TypeOK
  <2>2. Cardinality(todo) \in Nat /\ Cardinality(todo') = Cardinality(todo) - 1
    BY <2>1, OneCounted
  <2>3. /\ tally'.submitted = tally.submitted /\ tally'.skipped = tally.skipped + 1
        /\ tally'.blocked = tally.blocked /\ tally'.rejected = tally.rejected
        /\ tally.submitted \in Nat /\ tally.skipped \in Nat /\ tally.blocked \in Nat
        /\ tally.rejected \in Nat
    BY <2>1 DEF Tallies
  <2>4. Sum' = Sum
    BY <2>2, <2>3
  <2> QED
    BY <1>0, <1>1, <2>1, <2>4
<1>9. CASE WriteFill
  <2>1. /\ InHand /\ UNCHANGED <<run, status, execRun>> /\ todo' = todo \ {Current}
        /\ tally \in Tallies /\ tally' = Counted(tally, hand.said)
        /\ todo # {} /\ pc # "idle"
    BY <1>9 DEF WriteFill, InHand, TypeOK
  <2>2. Cardinality(todo) \in Nat /\ Cardinality(todo') = Cardinality(todo) - 1
    BY <2>1, OneCounted
  <2>3. /\ tally'.submitted + tally'.rejected = tally.submitted + tally.rejected + 1
        /\ tally'.submitted \in Nat /\ tally'.rejected \in Nat
        /\ tally'.blocked = tally.blocked /\ tally'.skipped = tally.skipped
        /\ tally.submitted \in Nat /\ tally.skipped \in Nat /\ tally.blocked \in Nat
        /\ tally.rejected \in Nat
    BY <2>1 DEF Tallies, Counted
  <2>4. Sum' = Sum
    BY <2>2, <2>3
  <2> QED
    BY <1>0, <1>1, <2>1, <2>4
<1>10. CASE WriteExecutionRun
  <2>1. /\ InHand /\ UNCHANGED <<run, status, todo, tally, reviewed, veto>> /\ run \in Runs
        /\ tally \in Tallies /\ todo = {}
        /\ execRun' = [execRun EXCEPT ![run] = ExecutionProps]
    BY <1>10 DEF WriteExecutionRun, InHand, TypeOK, Stages
  <2>2. CountedInHand'
    BY <1>0, <2>1
  <2>3. Settles(run, status, Sum)
    BY <2>1 DEF CountedInHand
  <2>4. ExecutionProps.submitted + ExecutionProps.rejected + ExecutionProps.skipped = Sum
    <3>1. Cardinality(todo) = 0
      BY <2>1, FS_EmptySet
    <3> QED
      BY <2>1, <3>1 DEF ExecutionProps, Tallies
  <2>5. ExecutionProps.status = status
    BY DEF ExecutionProps
  <2>6. /\ execRun'[run] = ExecutionProps
        /\ \A r \in Runs : r # run => execRun'[r] = execRun[r]
    BY <2>1 DEF TypeOK
  <2> HIDE DEF Sum
  <2>7. ASSUME NEW r \in Runs, execRun'[r] # NoRun
        PROVE  Settles(r, execRun'[r].status, execRun'[r].submitted + execRun'[r].rejected
                                                + execRun'[r].skipped)
    BY <2>3, <2>4, <2>5, <2>6, <2>7 DEF CountedOnRecord
  <2>8. CountedOnRecord'
    BY <2>1, <2>7 DEF CountedOnRecord, Settles, Vetoed
  <2> QED
    BY <2>2, <2>8
<1> QED
  BY <1>3, <1>4, <1>5, <1>6, <1>7, <1>8, <1>9, <1>10
  DEF Next, Executor, Mishap, WriteFillFails, LinkFails

\* Unless a graph write fails, an ExecutionRun accounts for every approved
\* intent its review did not veto, after any crash, retry or broker failure.
THEOREM AccountHolds ==
  ASSUME "graph_fault" \notin Env
  PROVE  Spec => []AllAccounted
<1>1. Init => AccountInv
  BY TypeInit DEF Init, AccountInv, VetoOnce, RunIsOpen, Stages, CountedInHand, InHand,
     CountedOnRecord
<1>2. AccountInv => AllAccounted
  BY DEF AccountInv, CountedOnRecord, Settles, AllAccounted, Applied
<1> QED
  BY <1>1, <1>2, AccountStep, PTL DEF Spec

----------------------------------------------------------------------------
(* Every order has its Fill *)

\* A key gets an attempt whether or not it has a chain yet.
LEMMA AttemptNotEmpty ==
  ASSUME NEW c \in Seq(Fills), NEW f
  PROVE  WithAttempt(c, f) # <<>>
BY DEF WithAttempt

\* No refresh and no attempt empties a chain.
LEMMA ChainsGrow ==
  ASSUME TypeOK, [Next]_vars, NEW k \in Keys, fills[k] # <<>>
  PROVE  fills'[k] # <<>>
<1> USE DEF graph, proc
<1>1. fills[k] \in Seq(Fills)
  BY DEF TypeOK
<1>2. \A f : WithAttempt(fills[k], f) # <<>>
  BY <1>1, AttemptNotEmpty
<1>3. CASE UNCHANGED fills
  BY <1>3
<1>4. CASE Reconcile
  <2>1. CASE fills' = [j \in Keys |->
                         [m \in DOMAIN fills[j] |-> Refreshed(fills[j][m], order[j])]]
    <3>1. DOMAIN fills'[k] = DOMAIN fills[k]
      BY <2>1
    <3>2. Len(fills[k]) \in Nat \ {0} /\ DOMAIN fills[k] = 1..Len(fills[k])
      BY <1>1
    <3> QED
      BY <3>1, <3>2
  <2> QED
    BY <1>4, <2>1 DEF Reconcile
<1>5. CASE LiveGateRejects
  BY <1>2, <1>5 DEF LiveGateRejects
<1>6. CASE WriteFill
  BY <1>2, <1>6 DEF WriteFill, TypeOK
<1> QED
  BY <1>3, <1>4, <1>5, <1>6 DEF Next, Executor, Mishap, World, vars, Arrive, GraceExpires,
     Deliberate, ChangeStage, BrokerMoves, Begin, ReadVeto, PassGate, SkipCompletedExit,
     SubmitAnswered, SubmitRaised, WriteFillFails, SubmitDone, WriteExecutionRun,
     WriteExecutionRunRaises, Link, LinkFails, Crash

\* An intent once noted stays noted.
LEMMA NotedStep ==
  ASSUME TypeOK, VetoOnce, [Next]_vars, NEW r \in Runs, NEW n \in DOMAIN Approved[r],
         Noted(r, n)
  PROVE  Noted(r, n)'
<1>1. KeyAt(r, n) \in Keys
  BY KeyType DEF KeyAt
<1>2. veto[r] \subseteq veto'[r]
  BY VetoStep
<1> QED
  BY <1>1, <1>2, ChainsGrow DEF Noted, KeyAt

\* A step sends an order, if any, only under the key in hand.
LEMMA SendsCurrent ==
  ASSUME TypeOK, [Next]_vars, NEW k \in Keys, order[k] = "none", order'[k] # "none"
  PROVE  SubmitAnswered \/ SubmitRaised
<1> USE DEF graph, proc
<1>1. ASSUME NEW j \in Keys, BrokerMoves(j) PROVE order'[k] = "none"
  BY <1>1 DEF BrokerMoves, TypeOK
<1> QED
  BY <1>1 DEF Next, Executor, Mishap, World, vars, Arrive, GraceExpires,
     Deliberate, ChangeStage, Begin, ReadVeto, Reconcile, PassGate, LiveGateRejects,
     SkipCompletedExit, WriteFill, WriteFillFails, SubmitDone, WriteExecutionRun,
     WriteExecutionRunRaises, Link, LinkFails, Crash

\* The key sent is the one in hand; a buy is sent only for the run in hand,
\* while one of its buys is still to do.
LEMMA SentIsInHand ==
  ASSUME TypeOK, [Next]_vars, NEW k \in Keys, order[k] = "none", order'[k] # "none"
  PROVE  /\ SubmitAnswered \/ SubmitRaised
         /\ pc = "submit" /\ run \in Runs /\ Current \in todo /\ k = KeyAt(run, Current)
         /\ k.side = "buy" => k.scope = run /\ BuyAt(run, Current)
<1>1. SubmitAnswered \/ SubmitRaised
  BY SendsCurrent
<1>2. pc = "submit" /\ todo # {} /\ \A j \in Keys : j # CurrentKey => order'[j] = order[j]
  BY <1>1 DEF SubmitAnswered, SubmitRaised, TypeOK
<1>3. run \in Runs /\ Current \in todo /\ Current \in DOMAIN Approved[run]
  BY <1>2, CurrentType
<1>4. k = CurrentKey
  BY <1>2
<1> QED
  BY <1>1, <1>2, <1>3, <1>4, KeyType DEF CurrentKey, KeyAt, BuyAt

\* A run classified as blocking has sent no buy, and sends none while it waits
\* to read the veto.
LEMMA BlockedStep == RecordInv /\ [Next]_vars => BlockedUnsent'
<1> SUFFICES ASSUME RecordInv, [Next]_vars, (pc = "veto" /\ BlocksBuys(status))',
                    NEW n \in DOMAIN Approved[run'], BuyAt(run', n)
             PROVE  order'[KeyAt(run', n)] = "none"
  BY DEF BlockedUnsent, KeyAt, BuyAt
<1> DEFINE k == KeyAt(run', n)
<1> USE DEF RecordInv, ReviewInv, graph, proc
<1>1. run' \in Runs /\ k \in Keys /\ k.side = "buy" /\ k.scope = run'
  <2>1. run' \in Runs
    BY TypeStep DEF TypeOK
  <2> QED
    BY <2>1, KeyType DEF KeyAt, BuyAt
<1>2. ASSUME NEW r \in Runs, Begin(r) PROVE order[k] = "none"
  <2>1. run' = r /\ BlocksBuys(DeliberationStatus(r))
    BY <1>2 DEF Begin, BlocksBuys
  <2>2. r \notin reviewed /\ Guarded(r)
    BY <2>1 DEF BlocksBuys, DeliberationStatus, Guarded
  <2> QED
    BY <1>1, <2>1, <2>2 DEF BuyNeedsReview, Guarded
<1>3. CASE UNCHANGED <<pc, run, status>>
  <2>1. order[k] = "none"
    BY <1>3 DEF BlockedUnsent, BlocksBuys, KeyAt, BuyAt
  <2>2. pc # "submit"
    BY <1>3
  <2> HIDE DEF k
  <2>3. order'[k] = "none"
    BY <1>1, <2>1, <2>2, SentIsInHand
  <2> QED
    BY <2>3 DEF k
<1>4. CASE \E r \in Runs : Begin(r)
  BY <1>2, <1>4 DEF Begin
<1> QED
  BY <1>3, <1>4 DEF Next, Executor, Mishap, World, vars, Arrive, GraceExpires,
     Deliberate, ChangeStage, BrokerMoves, ReadVeto, Reconcile, PassGate, LiveGateRejects,
     SkipCompletedExit, SubmitAnswered, SubmitRaised, WriteFill, WriteFillFails, SubmitDone,
     WriteExecutionRun, WriteExecutionRunRaises, Link, LinkFails, Crash, LetGo

\* An executed run stays noted: no later step sends one of its buys.
LEMMA NotedOnRecordStep ==
  ASSUME RecordInv, [Next]_vars, NEW r \in linked, NEW n \in DOMAIN Approved[r]
  PROVE  Noted(r, n)' \/ (BuyAt(r, n) /\ order'[KeyAt(r, n)] = "none")
<1> USE DEF RecordInv, ReviewInv
<1>1. r \in Runs /\ KeyAt(r, n) \in Keys
  BY KeyType DEF TypeOK, KeyAt
<1>2. CASE Noted(r, n)
  BY <1>1, <1>2, NotedStep
<1>3. CASE BuyAt(r, n) /\ order[KeyAt(r, n)] = "none"
  <2>1. KeyAt(r, n).side = "buy" /\ KeyAt(r, n).scope = r
    BY <1>1, <1>3, KeyType DEF KeyAt, BuyAt
  <2>2. pc = "submit" => run # r
    BY DEF RunIsOpen
  <2>3. order'[KeyAt(r, n)] = "none"
    BY <1>1, <1>3, <2>1, <2>2, SentIsInHand
  <2> QED
    BY <1>3, <2>3
<1> QED
  BY <1>2, <1>3 DEF NotedOnRecord

\* An intent of the run in hand that is off the list stays noted or unsent.
LEMMA NotedKept ==
  ASSUME RecordInv, [Next]_vars, InHand, UNCHANGED run, todo' \subseteq todo,
         NEW n \in DOMAIN Approved[run] \ todo
  PROVE  \/ Noted(run, n)'
         \/ BuyAt(run, n) /\ order'[KeyAt(run, n)] = "none" /\ \A m \in todo' : ~BuyAt(run, m)
<1> USE DEF RecordInv, ReviewInv
<1> PICK r \in Runs : r = run
  BY DEF TypeOK, InHand
<1>1. CASE Noted(run, n)
  <2>1. Noted(r, n)'
    BY <1>1, NotedStep
  <2> QED
    BY <2>1 DEF Noted, KeyAt
<1>2. CASE BuyAt(run, n) /\ order[KeyAt(run, n)] = "none" /\ \A m \in todo : ~BuyAt(run, m)
  <2>1. KeyAt(r, n) \in Keys /\ KeyAt(r, n).side = "buy"
    BY <1>2, KeyType DEF KeyAt, BuyAt
  <2>2. order'[KeyAt(r, n)] = "none"
    BY <1>2, <2>1, SentIsInHand
  <2> QED
    BY <1>2, <2>2
<1> QED
  BY <1>1, <1>2 DEF NotedInHand

\* With every graph write answered, each step notes what it takes off the list.
LEMMA NotedInHandStep ==
  ASSUME "graph_fault" \notin Env, RecordInv, [Next]_vars
  PROVE  NotedInHand'
<1> USE DEF RecordInv, ReviewInv, graph, proc
<1>0. ASSUME InHand, UNCHANGED run, todo' \subseteq todo,
             \A n \in todo \ todo' : fills'[KeyAt(run, n)] # <<>>
      PROVE  NotedInHand'
  <2>1. ASSUME NEW n \in DOMAIN Approved[run] \ todo'
        PROVE  \/ Noted(run, n)'
               \/ /\ BuyAt(run, n) /\ order'[KeyAt(run, n)] = "none"
                  /\ \A m \in todo' : ~BuyAt(run, m)
    <3>1. CASE n \in todo
      BY <1>0, <3>1 DEF Noted, KeyAt
    <3>2. CASE n \notin todo
      BY <1>0, <3>2, NotedKept
    <3> QED
      BY <3>1, <3>2
  <2> QED
    BY <1>0, <2>1 DEF NotedInHand, BuyAt, KeyAt, Noted
<1>1. ASSUME ~InHand' PROVE NotedInHand'
  BY <1>1 DEF NotedInHand
<1>2. CASE World \/ UNCHANGED vars
  <2>1. UNCHANGED <<pc, run, todo>>
    BY <1>2 DEF World, vars, Arrive, GraceExpires, Deliberate, ChangeStage, BrokerMoves
  <2>2. CASE InHand
    BY <1>0, <2>1, <2>2
  <2>3. CASE ~InHand
    BY <1>1, <2>1, <2>3 DEF InHand
  <2> QED
    BY <2>2, <2>3
<1>3. CASE (\E r \in Runs : Begin(r)) \/ WriteExecutionRunRaises \/ Link \/ Crash
  <2>1. ~InHand'
    BY <1>3 DEF Begin, WriteExecutionRunRaises, Link, Crash, LetGo, InHand
  <2> QED
    BY <1>1, <2>1
<1>4. CASE \/ Reconcile \/ PassGate \/ SubmitAnswered \/ SubmitRaised \/ SubmitDone
           \/ WriteExecutionRun
  <2>1. InHand /\ UNCHANGED <<run, todo>>
    BY <1>4 DEF Reconcile, PassGate, SubmitAnswered, SubmitRaised, SubmitDone,
       WriteExecutionRun, InHand
  <2> QED
    BY <1>0, <2>1
<1>5. CASE ReadVeto
  <2>1. UNCHANGED <<run, order, veto, fills>> /\ run \in Runs /\ pc = "veto"
    BY <1>5 DEF ReadVeto, TypeOK
  <2>2. ASSUME NEW n \in DOMAIN Approved[run] \ todo'
        PROVE  \/ Noted(run, n)
               \/ /\ BuyAt(run, n) /\ order[KeyAt(run, n)] = "none"
                  /\ \A m \in todo' : ~BuyAt(run, m)
    <3>1. CASE n \notin Survivors(run)
      BY <3>1 DEF Survivors, Noted
    <3>2. CASE n \in Survivors(run)
      <4>1. BlocksBuys(status) /\ BuyAt(run, n)
        BY <1>5, <3>2 DEF ReadVeto, BuyAt
      <4>2. \A m \in todo' : ~BuyAt(run, m)
        BY <1>5, <4>1 DEF ReadVeto, BuyAt
      <4>3. order[KeyAt(run, n)] = "none"
        BY <2>1, <4>1 DEF BlockedUnsent
      <4> QED
        BY <4>1, <4>2, <4>3
    <3> QED
      BY <3>1, <3>2
  <2> QED
    BY <2>1, <2>2 DEF NotedInHand, Noted, KeyAt, BuyAt
<1>6. CASE LiveGateRejects
  <2>1. InHand /\ UNCHANGED run /\ todo' = {} /\ run \in Runs /\ todo \subseteq DOMAIN Approved[run]
    BY <1>6 DEF LiveGateRejects, InHand, TypeOK
  <2>2. ASSUME NEW n \in todo PROVE fills'[KeyAt(run, n)] # <<>>
    <3>1. KeyAt(run, n) \in Keys /\ fills[KeyAt(run, n)] \in Seq(Fills)
      BY <2>1, KeyType DEF KeyAt, TypeOK
    <3>2. fills'[KeyAt(run, n)] = WithAttempt(fills[KeyAt(run, n)], NewFill(run, NoAnswer))
      BY <1>6, <3>1 DEF LiveGateRejects, KeyAt
    <3> QED
      BY <3>1, <3>2, AttemptNotEmpty
  <2> QED
    BY <1>0, <2>1, <2>2
<1>7. CASE SkipCompletedExit
  <2>1. InHand /\ UNCHANGED <<run, fills>> /\ todo' = todo \ {Current}
    BY <1>7 DEF SkipCompletedExit, InHand
  <2>2. fills[KeyAt(run, Current)] # <<>>
    BY <1>7 DEF SkipCompletedExit, CompletedExit, IsCompletedExit, CurrentKey, KeyAt
  <2> QED
    BY <1>0, <2>1, <2>2
<1>8. CASE WriteFill
  <2>1. /\ InHand /\ UNCHANGED run /\ todo' = todo \ {Current} /\ todo # {}
        /\ fills' = [fills EXCEPT ![CurrentKey] = WithAttempt(@, NewFill(run, hand))]
    BY <1>8 DEF WriteFill, InHand, TypeOK
  <2>2. CurrentKey \in Keys /\ fills[CurrentKey] \in Seq(Fills) /\ CurrentKey = KeyAt(run, Current)
    BY <1>8, <2>1, CurrentType DEF WriteFill, TypeOK, CurrentKey, KeyAt
  <2>3. fills'[CurrentKey] # <<>>
    BY <2>1, <2>2, AttemptNotEmpty DEF TypeOK
  <2> QED
    BY <1>0, <2>1, <2>2, <2>3
<1> QED
  BY <1>2, <1>3, <1>4, <1>5, <1>6, <1>7, <1>8
  DEF Next, Executor, Mishap, WriteFillFails, LinkFails

\* Every step keeps the record invariant.
LEMMA RecordStep ==
  ASSUME "graph_fault" \notin Env
  PROVE  RecordInv /\ [Next]_vars => RecordInv'
<1> SUFFICES ASSUME RecordInv, [Next]_vars PROVE NotedOnRecord'
  BY ReviewStep, VetoStep, OpenStep, BlockedStep, NotedInHandStep DEF RecordInv, ReviewInv
<1> USE DEF graph, proc
<1>1. ASSUME NEW r \in linked', NEW n \in DOMAIN Approved[r]
      PROVE  Noted(r, n)' \/ (BuyAt(r, n) /\ order'[KeyAt(r, n)] = "none")
  <2>1. CASE r \in linked
    BY <2>1, NotedOnRecordStep
  <2>2. CASE r \notin linked
    <3>1. Link /\ r = run
      BY <2>2 DEF Next, Executor, Mishap, World, vars, Arrive, GraceExpires, Deliberate,
         ChangeStage, BrokerMoves, Begin, ReadVeto, Reconcile, PassGate, LiveGateRejects,
         SkipCompletedExit, SubmitAnswered, SubmitRaised, WriteFill, WriteFillFails,
         SubmitDone, WriteExecutionRun, WriteExecutionRunRaises, Link, LinkFails, Crash
    <3>2. InHand /\ todo = {} /\ UNCHANGED <<fills, order, veto>>
      BY <3>1 DEF Link, InHand, RecordInv, Stages
    <3>3. Noted(r, n) \/ (BuyAt(r, n) /\ order[KeyAt(r, n)] = "none")
      BY <3>1, <3>2 DEF RecordInv, NotedInHand
    <3> QED
      BY <3>2, <3>3 DEF Noted, KeyAt
  <2> QED
    BY <2>1, <2>2
<1> QED
  BY <1>1 DEF NotedOnRecord, KeyAt, BuyAt

\* Unless a graph write fails, an executed PMRun has a Fill for each of its
\* orders at the broker, vetoed tickers aside, after any crash or retry.
THEOREM RecordHolds ==
  ASSUME "graph_fault" \notin Env
  PROVE  Spec => []UnvetoedOrdersRecorded
<1>1. Init => RecordInv
  BY TypeInit DEF Init, RecordInv, ReviewInv, StatusIsBacked, TodoIsBacked, BuyNeedsReview,
     VetoOnce, RunIsOpen, Stages, BlockedUnsent, InHand, NotedInHand, NotedOnRecord
<1>2. RecordInv => UnvetoedOrdersRecorded
  BY DEF RecordInv, NotedOnRecord, Noted, KeyAt, KeyOf, UnvetoedOrdersRecorded
<1> QED
  BY <1>1, <1>2, RecordStep, PTL DEF Spec

----------------------------------------------------------------------------
(* A vetoed buy stays out *)

\* Once vetoed and unsent, a buy is neither sent nor put on the list again.
LEMMA StaysOutStep ==
  ASSUME NEW r \in Runs, NEW t \in Tickers
  PROVE  TypeOK /\ VetoOnce /\ StaysOut(r, t) /\ [Next]_vars => StaysOut(r, t)'
<1> SUFFICES ASSUME TypeOK, VetoOnce, StaysOut(r, t), [Next]_vars PROVE StaysOut(r, t)'
  OBVIOUS
<1> DEFINE k == [scope |-> r, ticker |-> t, side |-> "buy"]
<1> USE DEF StaysOut, graph, proc
<1>1. r \in reviewed' /\ t \in veto'[r]
  BY VetoStep
<1>2. k \in Keys /\ k.side = "buy" /\ k.scope = r /\ k.ticker = t
  BY DEF Keys, Sides
<1>3. order'[k] = "none"
  <2>1. SUFFICES ASSUME order'[k] # "none" PROVE FALSE
    OBVIOUS
  <2>2. order[k] = "none"
    OBVIOUS
  <2> HIDE DEF k
  <2>3. pc = "submit" /\ run = r /\ Current \in todo /\ k = KeyAt(r, Current) /\ BuyAt(r, Current)
    BY <1>2, <2>1, <2>2, SentIsInHand
  <2>4. Approved[r][Current].ticker = t
    BY <1>2, <2>3 DEF KeyAt, KeyOf
  <2> QED
    BY <2>3, <2>4 DEF InHand
<1>4. ASSUME InHand', run' = r, NEW n \in todo'
      PROVE  ~(BuyAt(r, n) /\ Approved[r][n].ticker = t)
  <2>1. CASE ReadVeto
    <3>1. run = r /\ n \in Survivors(r)
      BY <1>4, <2>1 DEF ReadVeto
    <3> QED
      BY <3>1 DEF Survivors
  <2>2. CASE InHand /\ run = r /\ todo' \subseteq todo
    BY <1>4, <2>2
  <2> QED
    BY <1>4, <2>1, <2>2 DEF InHand, Next, Executor, Mishap, World, vars, Arrive,
       GraceExpires, Deliberate, ChangeStage, BrokerMoves, Begin, Reconcile, PassGate,
       LiveGateRejects, SkipCompletedExit, SubmitAnswered, SubmitRaised, WriteFill,
       WriteFillFails, SubmitDone, WriteExecutionRun, WriteExecutionRunRaises, Link,
       LinkFails, Crash, LetGo
<1> QED
  BY <1>1, <1>3, <1>4 DEF BuyAt

\* A buy vetoed while the process is between runs, and not yet at the broker,
\* never gets there: drop_vetoed reads the graph again on every attempt.
THEOREM VetoHolds == Spec => VetoedBuyStaysOut
<1> DEFINE Inv == TypeOK /\ VetoOnce
<1>1. Init => Inv
  BY TypeInit DEF Init, VetoOnce
<1>2. Inv /\ [Next]_vars => Inv'
  BY TypeStep, VetoStep
<1>3. ASSUME NEW r \in Runs, NEW t \in Tickers
      PROVE  LET k == [scope |-> r, ticker |-> t, side |-> "buy"]
             IN  Spec => [](pc = "idle" /\ t \in veto[r] /\ order[k] = "none"
                              => [](order[k] = "none"))
  <2> DEFINE k == [scope |-> r, ticker |-> t, side |-> "buy"]
             Out == pc = "idle" /\ t \in veto[r] /\ order[k] = "none"
  <2>1. Inv /\ Out => StaysOut(r, t)
    BY DEF VetoOnce, StaysOut, InHand
  <2>2. Inv /\ StaysOut(r, t) /\ [Next]_vars => StaysOut(r, t)'
    BY StaysOutStep
  <2>3. StaysOut(r, t) => order[k] = "none"
    BY DEF StaysOut
  <2> QED
    BY <1>1, <1>2, <2>1, <2>2, <2>3, PTL DEF Spec
<1> QED
  BY <1>3 DEF VetoedBuyStaysOut

=============================================================================
