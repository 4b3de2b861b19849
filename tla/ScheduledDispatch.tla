-------------------------- MODULE ScheduledDispatch --------------------------
(***************************************************************************)
(* One trading session of the scheduled dispatcher.  Every cron fire runs  *)
(* orchestration/scheduled_dispatch_human.dispatch_with_human_answer to    *)
(* its end: it reads the active hold, polls Telegram for answers, honours  *)
(* the effective one, and otherwise asks fleet readiness whether to place  *)
(* the day's RunRequest or to hold it.  The operator answers by Telegram   *)
(* button or on the dashboard, whose handler runs in another process.      *)
(*                                                                         *)
(* Graph nodes are append-only: merging a different value raises and ends  *)
(* the fire.  The master's FleetPreflight is seen through the readiness it *)
(* yields, "unknown" when it is missing or stale.  The daily brief and the *)
(* container sensor, which decide nothing, are left out.                   *)
(***************************************************************************)
EXTENDS Integers, Sequences, FiniteSets, FiniteSetsExt

CONSTANTS
  Fires,        \* dispatcher processes that may run at the same time
  ActionStart,  \* the placing window, as clock values
  ActBy,
  MaxClock,     \* bound: the last clock value
  MaxPresses    \* bound: Telegram buttons pressed, and dashboard answers

ASSUME WindowAssumption ==
  /\ ActionStart \in Nat /\ ActBy \in Nat /\ MaxClock \in Nat /\ MaxPresses \in Nat

Answers == {"run_now", "skip_today"}
Readiness == {"ready", "degraded", "failing", "unknown"}
NoHold == 0

VARIABLES
  clock,     \* time, in units no two fires start in
  fleet,     \* what fleet_readiness would say
  \* the graph
  holds,     \* RunHold nodes in key order
  answers,   \* RunHoldAnswer nodes
  request,   \* the day's RunRequest: "none", or its run_posture
  told,      \* degraded_notified_at is set
  \* Telegram
  inbox,     \* callback updates not confirmed
  notices,   \* hold notices delivered
  presses,   \* buttons pressed so far; the id of the latest update
  \* processes
  fire,      \* per fire, where it is and what it has read
  lastStart, \* clock value of the latest fire
  dash       \* the dashboard's hold-answer handler

vars == <<clock, fleet, holds, answers, request, told, inbox, notices, presses,
          fire, lastStart, dash>>
graph == <<holds, answers, request, told>>
outside == <<clock, fleet, inbox, notices, presses, lastStart, dash>>

Off == [pc |-> "off", now |-> 0, hold |-> NoHold, known |-> FALSE,
        answer |-> "none", fleet |-> "unknown", count |-> 0]

Init ==
  /\ clock = 1 /\ fleet = "unknown"
  /\ holds = <<>> /\ answers = {} /\ request = "none" /\ told = FALSE
  /\ inbox = {} /\ notices = 0 /\ presses = 0
  /\ fire = [f \in Fires |-> Off] /\ lastStart = 0
  /\ dash = "idle"

----------------------------------------------------------------------------
(* Reading the graph *)

\* is_active_run_hold, and the first active hold in key order.
Active(h) == h.released = 0
ActiveHolds == {n \in DOMAIN holds : Active(holds[n])}
ActiveHold == IF ActiveHolds = {} THEN NoHold ELSE Min(ActiveHolds)

\* Mutant: the latest answer decides.
Latest(a, b) ==
  \/ a.at > b.at
  \/ a.at = b.at /\ a.source = "telegram" /\ b.source = "dashboard"
  \/ a.at = b.at /\ a.source = b.source /\ a.n > b.n

\* The earliest answered_at wins; the graph lists a tie in key order.
Precedes(a, b) ==
  \/ a.at < b.at
  \/ a.at = b.at /\ a.source = "dashboard" /\ b.source = "telegram"
  \/ a.at = b.at /\ a.source = b.source /\ a.n < b.n

EffectiveAnswer ==
  LET first == {a \in answers : \A b \in answers \ {a} : Precedes(a, b)}
  IN  IF first = {} THEN "none" ELSE (CHOOSE a \in first : TRUE).answer

IsActionTime(t) == ActionStart <= t /\ t <= ActBy

----------------------------------------------------------------------------
(* One fire *)

Goto(f, pc) == fire' = [fire EXCEPT ![f].pc = pc]
Ends(f) == fire' = [fire EXCEPT ![f] = Off]

Start(f) ==
  /\ fire[f].pc = "off" /\ lastStart < clock
  /\ fire' = [fire EXCEPT ![f] =
       [Off EXCEPT !.pc = IF ActiveHold = NoHold THEN "answer" ELSE "poll",
                   !.now = clock, !.hold = ActiveHold,
                   !.known = ActiveHold # NoHold /\ holds[ActiveHold].answered # "none"]]
  /\ lastStart' = clock
  /\ UNCHANGED <<graph, clock, fleet, inbox, notices, presses, dash>>

\* record_answer skips an update already recorded.
Unrecorded ==
  {u \in inbox : \A a \in answers : a.source = "dashboard" \/ a.n # u.n}

\* poll_answers: the new updates are recorded at the fire's own time, then
\* Telegram's cursor is moved past them; both requests may fail.
Poll(f) ==
  /\ fire[f].pc = "poll"
  /\ \/ /\ answers' = answers \cup
             {[source |-> "telegram", n |-> u.n, answer |-> u.answer,
               at |-> fire[f].now] : u \in Unrecorded}
        /\ \/ inbox' = inbox
           \/ /\ Unrecorded # {}
              /\ inbox' = {u \in inbox : \A v \in Unrecorded : v.n < u.n}
     \/ UNCHANGED <<answers, inbox>>
  /\ Goto(f, "answer")
  /\ UNCHANGED <<holds, request, told, clock, fleet, notices, presses, lastStart, dash>>

\* effective_answer and _mark_answer, which looks at the hold as it was read
\* when the fire began.
ReadAnswer(f) ==
  /\ fire[f].pc = "answer"
  /\ LET h == fire[f].hold
         marks == EffectiveAnswer # "none" /\ h # NoHold /\ ~fire[f].known
     IN  \/ /\ ~marks
            /\ fire' = [fire EXCEPT ![f].pc = "check", ![f].answer = EffectiveAnswer]
            /\ UNCHANGED holds
         \/ /\ marks /\ holds[h].answered \in {"none", EffectiveAnswer}
            /\ holds' = [holds EXCEPT ![h].answered = EffectiveAnswer]
            /\ fire' = [fire EXCEPT ![f].pc = "check", ![f].answer = EffectiveAnswer]
         \/ /\ marks /\ holds[h].answered \notin {"none", EffectiveAnswer}
            /\ Ends(f)
            /\ UNCHANGED holds
  /\ UNCHANGED <<answers, request, told, outside>>

\* already_placed, then the window, then the answer.
Check(f) ==
  /\ fire[f].pc = "check"
  /\ \/ /\ request # "none"
        /\ IF IsActionTime(fire[f].now) /\ request = "degraded"
           THEN Goto(f, "tell") ELSE Ends(f)
     \/ /\ request = "none"
        /\ CASE ~IsActionTime(fire[f].now) \/ fire[f].answer = "skip_today" -> Ends(f)
             [] IsActionTime(fire[f].now) /\ fire[f].answer = "run_now"
                  -> Goto(f, "override")
             [] IsActionTime(fire[f].now) /\ fire[f].answer = "none"
                  -> Goto(f, "readiness")
  /\ UNCHANGED <<graph, outside>>

\* place_override: the run keeps the normal posture whatever the fleet is.
Override(f) ==
  /\ fire[f].pc = "override"
  /\ request' = IF request = "none" THEN "normal" ELSE request
  /\ Ends(f)
  /\ UNCHANGED <<holds, answers, told, outside>>

\* fleet_readiness, and the holds hold_unready_run lists.
ReadReadiness(f) ==
  /\ fire[f].pc = "readiness"
  /\ fire' = [fire EXCEPT ![f].pc = "settle", ![f].fleet = fleet,
                          ![f].hold = ActiveHold, ![f].count = Len(holds)]
  /\ UNCHANGED <<graph, outside>>

Releases(f) == fire[f].fleet \in {"ready", "degraded"}

\* hold_unready_run on a fleet that may run: an active hold is released.
Release(f) ==
  /\ fire[f].pc = "settle" /\ Releases(f)
  /\ LET h == fire[f].hold
     IN  \/ h = NoHold /\ Goto(f, "place") /\ UNCHANGED holds
         \/ /\ h # NoHold /\ holds[h].released \in {0, fire[f].now}
            /\ holds' = [holds EXCEPT ![h].released = fire[f].now]
            /\ Goto(f, "place")
         \/ /\ h # NoHold /\ holds[h].released \notin {0, fire[f].now}
            /\ Ends(f) /\ UNCHANGED holds
  /\ UNCHANGED <<answers, request, told, outside>>

NewHold == [released |-> 0, answered |-> "none", notified |-> FALSE]

\* Mutant: a hold is written whether or not one is active.
HoldAgain(f) ==
  /\ fire[f].pc = "settle" /\ ~Releases(f)
  /\ holds' = Append(holds, NewHold)
  /\ fire' = [fire EXCEPT ![f].pc = "notice", ![f].hold = Len(holds) + 1]
  /\ UNCHANGED <<answers, request, told, outside>>

\* hold_unready_run on any other fleet: an active hold is kept, otherwise the
\* next key is written; another fire's hold under that key is a conflict.
Hold(f) ==
  /\ fire[f].pc = "settle" /\ ~Releases(f)
  /\ \/ fire[f].hold # NoHold /\ Goto(f, "notice") /\ UNCHANGED holds
     \/ /\ fire[f].hold = NoHold /\ Len(holds) = fire[f].count
        /\ holds' = Append(holds, NewHold)
        /\ fire' = [fire EXCEPT ![f].pc = "notice", ![f].hold = fire[f].count + 1]
     \/ /\ fire[f].hold = NoHold /\ Len(holds) # fire[f].count
        /\ Ends(f) /\ UNCHANGED holds
  /\ UNCHANGED <<answers, request, told, outside>>

\* place_run_request, then a second merge for the degraded posture.
Place(f) ==
  /\ fire[f].pc = "place"
  /\ request' = IF request = "none" THEN "normal" ELSE request
  /\ IF fire[f].fleet = "degraded" THEN Goto(f, "posture") ELSE Ends(f)
  /\ UNCHANGED <<holds, answers, told, outside>>

MarkDegraded(f) ==
  /\ fire[f].pc = "posture"
  /\ request' = "degraded"
  /\ Goto(f, "tell")
  /\ UNCHANGED <<holds, answers, told, outside>>

\* _notify_degraded_run.
TellDegraded(f) ==
  /\ fire[f].pc = "tell"
  /\ told' \in {told, TRUE}
  /\ Ends(f)
  /\ UNCHANGED <<holds, answers, request, outside>>

\* Mutant: a notice counts as sent before Telegram has answered.
NotifyMarkedFirst(f) ==
  /\ fire[f].pc = "notice"
  /\ IF holds[fire[f].hold].notified THEN Ends(f) /\ UNCHANGED <<holds, notices>>
     ELSE /\ holds' = [holds EXCEPT ![fire[f].hold].notified = TRUE]
          /\ notices' \in {notices, notices + 1}
          /\ Ends(f)
  /\ UNCHANGED <<answers, request, told, clock, fleet, inbox, presses, lastStart, dash>>

\* _notify_new_hold: a notice whose answer is lost was delivered all the same.
NotifyHold(f) ==
  /\ fire[f].pc = "notice"
  /\ \/ holds[fire[f].hold].notified /\ Ends(f) /\ UNCHANGED notices
     \/ ~holds[fire[f].hold].notified /\ Goto(f, "noted") /\ notices' = notices + 1
     \/ ~holds[fire[f].hold].notified /\ Ends(f) /\ notices' \in {notices, notices + 1}
  /\ UNCHANGED <<graph, clock, fleet, inbox, presses, lastStart, dash>>

MarkNotified(f) ==
  /\ fire[f].pc = "noted"
  /\ holds' = [holds EXCEPT ![fire[f].hold].notified = TRUE]
  /\ Ends(f)
  /\ UNCHANGED <<answers, request, told, outside>>

\* The job is killed, or a graph call raises.
Dies(f) ==
  /\ fire[f].pc # "off"
  /\ Ends(f)
  /\ UNCHANGED <<graph, outside>>

----------------------------------------------------------------------------
(* The operator, the dashboard, the master and time *)

\* A button of a delivered notice is pressed.
Press(answer) ==
  /\ notices > 0 /\ presses < MaxPresses
  /\ presses' = presses + 1
  /\ inbox' = inbox \cup {[n |-> presses + 1, answer |-> answer]}
  /\ UNCHANGED <<graph, clock, fleet, notices, fire, lastStart, dash>>

DashboardAnswers == {a \in answers : a.source = "dashboard"}

\* handle_hold_answer looks for an unanswered active hold, and then writes.
DashboardChecks ==
  /\ dash = "idle" /\ Cardinality(DashboardAnswers) < MaxPresses
  /\ \E n \in ActiveHolds : holds[n].answered = "none"
  /\ dash' = "checked"
  /\ UNCHANGED <<graph, clock, fleet, inbox, notices, presses, fire, lastStart>>

DashboardRecords(answer) ==
  /\ dash = "checked"
  /\ answers' = answers \cup
       {[source |-> "dashboard", n |-> Cardinality(DashboardAnswers) + 1,
         answer |-> answer, at |-> clock]}
  /\ dash' = "idle"
  /\ UNCHANGED <<holds, request, told, clock, fleet, inbox, notices, presses, fire,
                 lastStart>>

\* A preflight is written, or the latest one grows stale.
FleetChanges ==
  /\ fleet' \in Readiness \ {fleet}
  /\ UNCHANGED <<graph, clock, inbox, notices, presses, fire, lastStart, dash>>

Tick ==
  /\ clock < MaxClock
  /\ clock' = clock + 1
  /\ UNCHANGED <<graph, fleet, inbox, notices, presses, fire, lastStart, dash>>

FireStep(f) ==
  \/ Start(f) \/ Poll(f) \/ ReadAnswer(f) \/ Check(f) \/ Override(f)
  \/ ReadReadiness(f) \/ Release(f) \/ Hold(f) \/ Place(f) \/ MarkDegraded(f)
  \/ TellDegraded(f) \/ NotifyHold(f) \/ MarkNotified(f) \/ Dies(f)

Next ==
  \/ \E f \in Fires : FireStep(f)
  \/ \E answer \in Answers : Press(answer) \/ DashboardRecords(answer)
  \/ DashboardChecks \/ FleetChanges \/ Tick

Spec == Init /\ [][Next]_vars

----------------------------------------------------------------------------
(* Properties *)

\* At most one hold of the day is active, and it is the latest: a released
\* hold is never active again (DSP-OUT-03, DSP-STA-01).
OneActiveHold == ActiveHolds \subseteq {Len(holds)}

\* A hold the graph calls notified was delivered to the operator: no failure
\* between the send and its record silences a notice (_notify_new_hold).
NotifiedMeansDelivered ==
  Cardinality({n \in DOMAIN holds : holds[n].notified}) <= notices

Quiet == dash = "idle" /\ \A f \in Fires : fire[f].pc = "off"

\* DSP-ORD-02: once a skip is the effective answer, recorded before this
\* moment, and nothing is under way, no later answer by button or dashboard
\* and no recovery of the fleet starts the day's run.
SkipStands ==
  [](Quiet /\ request = "none" /\ EffectiveAnswer = "skip_today"
     /\ (\A a \in answers : a.at < clock)
     => [](request = "none"))

=============================================================================
