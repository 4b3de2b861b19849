------------------------------ MODULE StageGate ------------------------------
(***************************************************************************)
(* The execution stage gate: agents/execution/stage_flow.promote_stage as  *)
(* the supervisor's dispatch_intent calls it, and the human approval it    *)
(* waits for (supervisor flag_for_human, resolve_flag_by_subject).         *)
(*                                                                         *)
(* Every surface process (CLI, dashboard) binds its own execution and      *)
(* supervisor agents over one shared graph, so several callers run         *)
(* promote_stage at once, each reading the stage before the others write.  *)
(* A Snapshot's approval rate is abstracted to good or bad.                *)
(***************************************************************************)
EXTENDS Integers

CONSTANTS
  Callers,       \* surface processes
  DefaultStage,  \* settings.stage, in force until a StageTransition exists
  MinRuns,       \* settings.min_promotion_runs
  MinRatePct,    \* settings.min_approval_rate, in percent
  MaxSnapshots,  \* bound: Snapshot nodes
  MaxFaults      \* bound: critical Fault nodes

Stages == {"paper", "broker_shadow", "live_manual", "live_autopilot"}

\* STAGE_ORDER.
Rank(s) ==
  CASE s = "paper" -> 1 [] s = "broker_shadow" -> 2
    [] s = "live_manual" -> 3 [] s = "live_autopilot" -> 4

ASSUME StageAssumption == DefaultStage \in Stages
ASSUME EvidenceAssumption == MinRuns \in Nat /\ MinRatePct \in 0..100
ASSUME BoundAssumption == MaxSnapshots \in Nat /\ MaxFaults \in Nat

VARIABLES
  stage,     \* to_stage of the latest StageTransition
  flags,     \* targets t with a Flag for subject stage_promote:t
  resolved,  \* targets whose Flag has its FlagResolution
  good, bad, \* Snapshot nodes, by whether their run was fully approved
  faults,    \* critical Fault nodes
  asked      \* per caller, the promote_stage call in hand

gateVars == <<stage, flags, resolved, good, bad, faults, asked>>

Calls == [pc : {"idle", "decide", "transition", "flag"}, seen : Stages,
          target : Stages, confirmed : BOOLEAN]
NoCall == [pc |-> "idle", seen |-> DefaultStage, target |-> DefaultStage,
           confirmed |-> FALSE]

GateInit ==
  /\ stage = DefaultStage
  /\ flags = {} /\ resolved = {}
  /\ good = 0 /\ bad = 0 /\ faults = 0
  /\ asked = [c \in Callers |-> NoCall]

----------------------------------------------------------------------------
(* The rules *)

IsValidDemotion(from, to) == Rank(to) < Rank(from)

\* Mutant: the last stage is promoted to like the others.
NextStage(from, to) == Rank(to) = Rank(from) + 1

IsValidPromotion(from, to) == to # "live_autopilot" /\ Rank(to) = Rank(from) + 1

\* collect_stage_evidence: enough runs, approved often enough.  Without a
\* Snapshot the average rate is zero.
RunsAndRate ==
  /\ good + bad >= MinRuns
  /\ good * 100 >= MinRatePct * (good + bad)
  /\ good + bad = 0 => MinRatePct = 0

\* check_promotion_allowed; a critical fault blocks for good.
PromotionAllowed == RunsAndRate /\ faults = 0

----------------------------------------------------------------------------
(* promote_stage *)

\* The supervisor routes a stage intent and promote_stage reads the stage.
Ask(c, target, confirmed) ==
  /\ asked[c].pc = "idle"
  /\ asked' = [asked EXCEPT ![c] = [pc |-> "decide", seen |-> stage,
                                    target |-> target, confirmed |-> confirmed]]
  /\ UNCHANGED <<stage, flags, resolved, good, bad, faults>>

\* Mutant: the operator's word is enough, resolution or not.
DecisionOnConfirm(call) ==
  CASE IsValidDemotion(call.seen, call.target) -> "transition"
    [] ~IsValidDemotion(call.seen, call.target)
         /\ ~IsValidPromotion(call.seen, call.target) -> "idle"
    [] IsValidPromotion(call.seen, call.target) /\ call.confirmed -> "transition"
    [] OTHER -> IF PromotionAllowed THEN "flag" ELSE "idle"

\* What a call decides: to write a transition, to raise the review flag, or
\* to refuse, which writes nothing.
Decision(call) ==
  CASE IsValidDemotion(call.seen, call.target) -> "transition"
    [] ~IsValidDemotion(call.seen, call.target)
         /\ ~IsValidPromotion(call.seen, call.target) -> "idle"
    [] IsValidPromotion(call.seen, call.target)
         /\ call.confirmed /\ call.target \in resolved -> "transition"
    [] OTHER -> IF PromotionAllowed THEN "flag" ELSE "idle"

DecideCall(c) ==
  /\ asked[c].pc = "decide"
  /\ asked' = [asked EXCEPT ![c].pc = Decision(asked[c])]
  /\ UNCHANGED <<stage, flags, resolved, good, bad, faults>>

\* write_stage_transition: the latest transition is the stage.
Transition(c) ==
  /\ asked[c].pc = "transition"
  /\ stage' = asked[c].target
  /\ asked' = [asked EXCEPT ![c] = NoCall]
  /\ UNCHANGED <<flags, resolved, good, bad, faults>>

\* flag_for_human; its answer is not looked at, so a write that failed
\* inside the supervisor leaves no flag and the same reply.
RequestConfirmation(c) ==
  /\ asked[c].pc = "flag"
  /\ flags' \in {flags, flags \cup {asked[c].target}}
  /\ asked' = [asked EXCEPT ![c] = NoCall]
  /\ UNCHANGED <<stage, resolved, good, bad, faults>>

\* The process ends before it wrote.
Abandon(c) ==
  /\ asked[c].pc # "idle"
  /\ asked' = [asked EXCEPT ![c] = NoCall]
  /\ UNCHANGED <<stage, flags, resolved, good, bad, faults>>

----------------------------------------------------------------------------
(* The rest of the system *)

\* A confirmed approve intent resolves the Flag of its subject.
Approve(t) ==
  /\ t \in flags \ resolved
  /\ resolved' = resolved \cup {t}
  /\ UNCHANGED <<stage, flags, good, bad, faults, asked>>

\* The reporter appends a Snapshot, or an agent's critical fault is recorded.
RecordSnapshot ==
  /\ good + bad < MaxSnapshots
  /\ \/ good' = good + 1 /\ bad' = bad
     \/ bad' = bad + 1 /\ good' = good
  /\ UNCHANGED <<stage, flags, resolved, faults, asked>>

CriticalFault ==
  /\ faults < MaxFaults
  /\ faults' = faults + 1
  /\ UNCHANGED <<stage, flags, resolved, good, bad, asked>>

GateNext ==
  \/ \E c \in Callers :
       \/ \E t \in Stages, confirmed \in BOOLEAN : Ask(c, t, confirmed)
       \/ DecideCall(c) \/ Transition(c) \/ RequestConfirmation(c) \/ Abandon(c)
  \/ \E t \in Stages : Approve(t)
  \/ RecordSnapshot \/ CriticalFault

GateSpec == GateInit /\ [][GateNext]_gateVars

----------------------------------------------------------------------------
(* Properties *)

\* Types of the stage, its flags and the calls in hand.
GateTypeOK ==
  /\ stage \in Stages
  /\ flags \subseteq Stages /\ resolved \subseteq Stages
  /\ good \in Nat /\ bad \in Nat /\ faults \in Nat
  /\ asked \in [Callers -> Calls]

\* However calls race, crash or go stale, every rung of the ladder up to the
\* stage in force was approved by a human, and a human was only ever asked
\* once min_promotion_runs snapshots existed (promote_stage).
StageEarned ==
  \A s \in Stages : Rank(DefaultStage) < Rank(s) /\ Rank(s) <= Rank(stage)
    => s \in resolved /\ good + bad >= MinRuns

\* No sequence of calls reaches live_autopilot unless the configuration
\* starts there (is_valid_promotion).
NoAutopilot == stage = "live_autopilot" => DefaultStage = "live_autopilot"

=============================================================================
