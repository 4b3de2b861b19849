------------------------------ MODULE WorkLoop ------------------------------
(***************************************************************************)
(* The graph-pull loop every agent container runs: kernel/work_loop.py     *)
(* with its per-item retry ledger (work_loop_state.py), the retry policy   *)
(* (work_loop_policy.py), the durable quarantine markers                   *)
(* (work_loop_quarantine.py) and the stop signal (stop.py).                *)
(*                                                                         *)
(* One process polls the append-only graph for pending items, tries each   *)
(* eligible item once per pass, and remembers failures in memory.  An item *)
(* that fails MaxAttempts times in one process life is quarantined by a    *)
(* durable graph marker.  The process may be told to stop (SIGTERM) or may *)
(* die at any point; the platform starts it again with an empty ledger.    *)
(*                                                                         *)
(* Time.  A pass reads the clock once, when it starts, and every deadline  *)
(* of that pass is computed from that reading.  The model keeps deadlines  *)
(* relative to it: wait[i] is next_retry_at minus the pass's now (0 when   *)
(* the deadline is not after now), and elapsed is the time since the pass  *)
(* started.  Only "next_retry_at > now" is ever tested, so both saturate   *)
(* without losing a behaviour and no clock bound is needed.                *)
(***************************************************************************)
EXTENDS Integers, FiniteSets, FiniteSetsExt

CONSTANTS
  Items,        \* work item keys (default_work_item_key of a pending node)
  Healthy,      \* items whose processing always advances them
  Poison,       \* items whose processing never advances them
  Poll,         \* poll_interval_seconds
  Base,         \* backoff_base_seconds
  Multiplier,   \* backoff_multiplier
  Ceiling,      \* backoff_ceiling_seconds
  MaxAttempts,  \* max_attempts_before_quarantine
  MaxLives,     \* bound: process lives that may end by a stop or a crash
  NoItem        \* no item in hand

\* _backoff_delay: base * multiplier ^ (attempts - 1), capped by the ceiling.
BackoffDelay(n) ==
  LET delay == Base * Multiplier ^ (n - 1)
  IN  IF delay < Ceiling THEN delay ELSE Ceiling

\* The policy's field constraints and its validator _ceiling_must_cover_base.
ASSUME PolicyAssumption ==
  /\ Poll \in Nat \ {0} /\ Base \in Nat \ {0} /\ Ceiling \in Nat
  /\ Ceiling >= Base
  /\ Multiplier \in Nat /\ Multiplier > 1
  /\ MaxAttempts \in Nat \ {0} /\ MaxLives \in Nat
  /\ \A n \in 1..MaxAttempts : Base * Multiplier ^ (n - 1) \in Nat \ {0}

ASSUME ItemAssumption ==
  /\ Healthy \subseteq Items /\ Poison \subseteq Items
  /\ Healthy \cap Poison = {}
  /\ NoItem \notin Items

VARIABLES
  \* the graph
  arrived,   \* items ever written
  pending,   \* items without their processed edge: what find_pending returns
  marked,    \* items with a WorkItemQuarantine node
  \* WorkLoopState, in memory
  attempts,  \* FailureRecord.attempts, 0 when there is no record
  wait,      \* FailureRecord.next_retry_at relative to the pass's now
  held,      \* _quarantined
  \* the pass and the loop around it
  pc,        \* "loop" (the while test), "pass", "item", "sleep" or "down"
  todo,      \* eligible items this pass has not started
  found,     \* items = list(find_pending()) of this pass
  completed, \* items whose process_one returned in this pass
  cur,       \* the item in hand
  soonest,   \* min(retry_delays) of this pass, 0 when the list is empty
  elapsed,   \* time since this pass read the clock
  nap,       \* time left of the idle sleep
  stop,      \* StopSignal.requested
  lives,     \* process lives so far
  \* history, read by the properties only
  starts,    \* process_one calls on the item in this life
  gap        \* from the start of the pass the item last failed in to the start of this pass

graphVars == <<arrived, pending, marked>>
ledgerVars == <<attempts, wait, held>>
passVars == <<todo, found, completed, cur, soonest>>
vars == <<arrived, pending, marked, attempts, wait, held, pc, todo, found,
          completed, cur, soonest, elapsed, nap, stop, lives, starts, gap>>

Least(a, b) == IF a < b THEN a ELSE b
Monus(a, b) == IF a > b THEN a - b ELSE 0

\* Mutant: the durable marker is not consulted.
IsQuarantinedInMemory(i) == i \in held

\* WorkLoopState.is_quarantined: the memory set, or the durable marker.
IsQuarantined(i) == i \in held \/ i \in marked

\* Mutants: deadlines ignored; an item with a record never eligible again.
EligibleNoDeadline(w) == {i \in pending : ~IsQuarantined(i)}
EligibleFirstTry(w) == {i \in pending : ~IsQuarantined(i) /\ attempts[i] = 0}

\* WorkLoopState.eligible_items over what find_pending returned, given the
\* deadlines relative to the new pass's now.
Eligible(w) == {i \in pending : ~IsQuarantined(i) /\ ~(attempts[i] > 0 /\ w[i] > 0)}

Init ==
  /\ arrived = {} /\ pending = {} /\ marked = {}
  /\ attempts = [i \in Items |-> 0]
  /\ wait = [i \in Items |-> 0]
  /\ held = {}
  /\ pc = "loop" /\ todo = {} /\ found = {} /\ completed = {} /\ cur = NoItem
  /\ soonest = 0 /\ elapsed = 0 /\ nap = 0
  /\ stop = FALSE /\ lives = 1
  /\ starts = [i \in Items |-> 0]
  /\ gap = [i \in Items |-> 0]

\* An upstream agent writes a node of the polled label.
Arrive(i) ==
  /\ i \notin arrived
  /\ arrived' = arrived \cup {i}
  /\ pending' = pending \cup {i}
  /\ UNCHANGED <<marked, ledgerVars, passVars, pc, elapsed, nap, stop, lives,
                 starts, gap>>

\* run_once up to the for loop: read the clock, find pending items, split them
\* into eligible and skipped.  The deadlines are re-based on the new reading.
StartPass ==
  /\ pc = "loop" /\ ~stop
  /\ wait' = [i \in Items |-> Monus(wait[i], elapsed)]
  /\ gap' = [i \in Items |-> Least(gap[i] + elapsed, Ceiling)]
  /\ elapsed' = 0
  /\ found' = pending
  /\ todo' = Eligible(wait')
  /\ completed' = {} /\ soonest' = 0
  /\ pc' = "pass"
  /\ UNCHANGED <<graphVars, attempts, held, cur, nap, stop, lives, starts>>

\* The head of the for loop: nothing is started once a stop is requested.
\* The store's list order is left open, so any eligible item may be next.
BeginItem(i) ==
  /\ pc = "pass" /\ ~stop
  /\ i \in todo
  /\ todo' = todo \ {i}
  /\ cur' = i
  /\ starts' = [starts EXCEPT ![i] = @ + 1]
  /\ pc' = "item"
  /\ UNCHANGED <<graphVars, ledgerVars, found, completed, soonest, elapsed, nap,
                 stop, lives, gap>>

\* Mutants: the cap one attempt late, and one attempt early.
CappedLate(F) == {i \in F : ~IsQuarantined(i) /\ attempts[i] + 1 > MaxAttempts}
CappedEarly(F) == {i \in F : ~IsQuarantined(i) /\ attempts[i] + 2 >= MaxAttempts}

\* WorkLoopState.record_failure: of the failures F, the ones that reach the
\* attempt cap and the ones that get a retry deadline.
Capped(F) == {i \in F : ~IsQuarantined(i) /\ attempts[i] + 1 >= MaxAttempts}
Delayed(F) == {i \in F : ~IsQuarantined(i) /\ attempts[i] + 1 < MaxAttempts}

\* record_failure on F and record_success on S: quarantine in memory and in the
\* graph at the cap, else a record due one backoff after the pass's now.
UpdateLedger(F, S) ==
  /\ attempts' = [i \in Items |-> IF i \in S \cup Capped(F) THEN 0
                                  ELSE IF i \in Delayed(F) THEN attempts[i] + 1
                                  ELSE attempts[i]]
  /\ wait' = [i \in Items |-> IF i \in S \cup Capped(F) THEN 0
                              ELSE IF i \in Delayed(F) THEN BackoffDelay(attempts[i] + 1)
                              ELSE wait[i]]
  /\ gap' = [i \in Items |-> IF i \in F THEN 0 ELSE gap[i]]
  /\ held' = held \cup Capped(F)
  /\ marked' = marked \cup Capped(F)

\* min(retry_delays + [the delays of F]); 0 stands for the empty list.
MinDelay(F) ==
  LET delays == {BackoffDelay(attempts[i] + 1) : i \in Delayed(F)}
                  \cup (IF soonest = 0 THEN {} ELSE {soonest})
  IN  IF delays = {} THEN 0 ELSE Min(delays)

\* process_one returns.  It may have written the processed edge or not (an item
\* it could not act on yet); run_once only learns which after the loop.
ItemReturns(advances) ==
  /\ pc = "item"
  /\ (cur \in Healthy) => advances
  /\ (cur \in Poison) => ~advances
  /\ pending' = IF advances THEN pending \ {cur} ELSE pending
  /\ completed' = completed \cup {cur}
  /\ cur' = NoItem /\ pc' = "pass"
  /\ UNCHANGED <<arrived, marked, ledgerVars, todo, found, soonest, elapsed, nap,
                 stop, lives, starts, gap>>

\* process_one raises, before or after its processed edge was written.
ItemRaises(advances) ==
  /\ pc = "item"
  /\ cur \notin Healthy
  /\ (cur \in Poison) => ~advances
  /\ pending' = IF advances THEN pending \ {cur} ELSE pending
  /\ UpdateLedger({cur}, {})
  /\ soonest' = MinDelay({cur})
  /\ cur' = NoItem /\ pc' = "pass"
  /\ UNCHANGED <<arrived, todo, found, completed, elapsed, nap, stop, lives, starts>>

\* The second find_pending tells which returned items really advanced.
NoProgress == completed \cap pending
Advanced == completed \ pending

\* WorkLoopState.next_ready_delay over this pass's items; 0 stands for None.
NextReadyDelay ==
  LET delays == {wait[i] : i \in {j \in found \ Advanced : attempts[j] > 0 /\ wait[j] > 0}}
  IN  IF delays = {} THEN 0 ELSE Min(delays)

\* _sleep_duration over next_retry_delay.
SleepDuration ==
  LET retry == MinDelay(NoProgress)
      delay == IF retry > 0 THEN retry ELSE NextReadyDelay
  IN  IF delay = 0 THEN Poll ELSE Least(Poll, delay)

\* Mutant: a stop leaves the for loop unfinished.
EndPassStuck ==
  /\ pc = "pass"
  /\ todo = {}
  /\ UpdateLedger(NoProgress, Advanced)
  /\ IF Advanced # {}
       THEN pc' = "loop" /\ nap' = 0
       ELSE pc' = "sleep" /\ nap' = SleepDuration
  /\ todo' = {} /\ found' = {} /\ completed' = {} /\ soonest' = 0
  /\ UNCHANGED <<arrived, pending, cur, elapsed, stop, lives, starts>>

\* The end of run_once and the loop body after it: count returned items that are
\* still pending as failures, clear the record of those that advanced, and sleep
\* unless something advanced.
EndPass ==
  /\ pc = "pass"
  /\ todo = {} \/ stop
  /\ UpdateLedger(NoProgress, Advanced)
  /\ IF Advanced # {}
       THEN pc' = "loop" /\ nap' = 0
       ELSE pc' = "sleep" /\ nap' = SleepDuration
  /\ todo' = {} /\ found' = {} /\ completed' = {} /\ soonest' = 0
  /\ UNCHANGED <<arrived, pending, cur, elapsed, stop, lives, starts>>

\* StopSignal.wait returns at its deadline, or early on a stop.
Wake ==
  /\ pc = "sleep"
  /\ nap = 0 \/ stop
  /\ pc' = "loop" /\ nap' = 0
  /\ UNCHANGED <<graphVars, ledgerVars, passVars, elapsed, stop, lives, starts, gap>>

\* The SIGTERM handler: StopSignal.request.
RequestStop ==
  /\ pc # "down" /\ ~stop /\ lives < MaxLives
  /\ stop' = TRUE
  /\ UNCHANGED <<graphVars, ledgerVars, passVars, pc, elapsed, nap, lives, starts, gap>>

\* What the memory of a process is once it is gone.
LoseMemory ==
  /\ attempts' = [i \in Items |-> 0]
  /\ wait' = [i \in Items |-> 0]
  /\ held' = {}
  /\ todo' = {} /\ found' = {} /\ completed' = {} /\ cur' = NoItem
  /\ soonest' = 0 /\ elapsed' = 0 /\ nap' = 0
  /\ starts' = [i \in Items |-> 0]
  /\ gap' = [i \in Items |-> 0]

\* The while test fails on a stop: end_loop runs the closing steps and the
\* process exits (with status 0 or 1; either way it is gone).
EndLoop ==
  /\ pc = "loop" /\ stop
  /\ pc' = "down"
  /\ LoseMemory
  /\ UNCHANGED <<graphVars, stop, lives>>

\* The process dies: killed, or an exception out of find_pending, the quarantine
\* sink or flush_faults.  The graph write of the item in hand may have landed.
Crash ==
  /\ pc # "down" /\ lives < MaxLives
  /\ pc' = "down"
  /\ \/ pending' = pending
     \/ pc = "item" /\ cur \notin Poison /\ pending' = pending \ {cur}
  /\ LoseMemory
  /\ UNCHANGED <<arrived, marked, stop, lives>>

\* The platform starts the container again.
Restart ==
  /\ pc = "down"
  /\ pc' = "loop" /\ stop' = FALSE /\ lives' = lives + 1
  /\ UNCHANGED <<graphVars, ledgerVars, passVars, elapsed, nap, starts, gap>>

\* One unit of time passes: during a pass, in process_one or in the sleep.
Tick ==
  /\ pc # "down"
  /\ elapsed' = Least(elapsed + 1, Ceiling)
  /\ nap' = Monus(nap, 1)
  /\ UNCHANGED <<graphVars, ledgerVars, passVars, pc, stop, lives, starts, gap>>

Next ==
  \/ \E i \in Items : Arrive(i)
  \/ StartPass
  \/ \E i \in Items : BeginItem(i)
  \/ \E advances \in BOOLEAN : ItemReturns(advances)
  \/ \E advances \in BOOLEAN : ItemRaises(advances)
  \/ EndPass \/ Wake \/ RequestStop \/ EndLoop \/ Crash \/ Restart \/ Tick

Spec == Init /\ [][Next]_vars

\* The process keeps executing its own steps, a call to process_one returns or
\* raises, a sleep ends, the clock moves, the platform restarts what exited.
Fairness ==
  /\ WF_vars(StartPass)
  /\ WF_vars(\E i \in Items : BeginItem(i))
  /\ WF_vars((\E a \in BOOLEAN : ItemReturns(a)) \/ (\E a \in BOOLEAN : ItemRaises(a)))
  /\ WF_vars(EndPass) /\ WF_vars(Wake) /\ WF_vars(EndLoop)
  /\ WF_vars(Restart) /\ WF_vars(Tick)

FairSpec == Spec /\ Fairness

-----------------------------------------------------------------------------
(* Properties *)

\* Type invariant: the loop's variables stay in their types.
TypeOK ==
  /\ arrived \subseteq Items /\ pending \subseteq Items /\ marked \subseteq Items
  /\ attempts \in [Items -> 0..MaxAttempts]
  /\ wait \in [Items -> 0..Ceiling]
  /\ held \subseteq Items
  /\ pc \in {"loop", "pass", "item", "sleep", "down"}
  /\ todo \subseteq Items /\ found \subseteq Items /\ completed \subseteq Items
  /\ cur \in Items \cup {NoItem}
  /\ (pc = "item") <=> (cur # NoItem)
  /\ soonest \in 0..Ceiling /\ elapsed \in 0..Ceiling /\ nap \in 0..Poll
  /\ stop \in BOOLEAN /\ lives \in Nat
  /\ starts \in [Items -> Nat]
  /\ gap \in [Items -> 0..Ceiling]

\* In one process life process_one is called at most MaxAttempts times on an
\* item, whatever mix of exceptions, silent no-progress returns, stops and
\* waiting it meets (max_attempts_before_quarantine).
AttemptBudget == \A i \in Items : starts[i] <= MaxAttempts

\* A retry is made no sooner than its backoff after the start of the pass whose
\* failure it repeats, for both kinds of failure (record_failure, eligible_items).
BackoffHonoured ==
  pc = "item" /\ attempts[cur] > 0 => gap[cur] >= BackoffDelay(attempts[cur])

\* A quarantine marker is written only for an item that used its whole attempt
\* budget in the life that writes it: nothing is given up early.
QuarantineEarned ==
  [][\A i \in marked' \ marked : starts[i] >= MaxAttempts]_vars

\* A durably quarantined item is never started again, by this process or by one
\* that comes after it with an empty memory.
QuarantineIsFinal ==
  [][\A i \in Items : starts'[i] > starts[i] => i \notin marked]_vars

\* Every item that arrives is, in the end, processed or visibly quarantined:
\* lost memory, stops and failing siblings only delay it.
EveryItemSettles ==
  \A i \in Items : (i \in pending) ~> (i \notin pending \/ i \in marked)

\* A stop request ends the process.
StopEnds == stop ~> (pc = "down")

=============================================================================
