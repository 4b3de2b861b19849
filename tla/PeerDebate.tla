---------------------------- MODULE PeerDebate ----------------------------
(***************************************************************************)
(* The deliberator's review of one PMRun as a protocol: the manager's      *)
(* concurrent orders ask the two served peers for debate turns over        *)
(* Service Bus topics and share one reply subscription                     *)
(* (agents/deliberator/poll.py, review_batch.py, servicebus_peer_client.py,*)
(* servicebus_reply_inbox.py, store.py, model_chain.py; kernel/serve_loop, *)
(* bus_azure_receiver, claim_check).  What a turn says is left out: a      *)
(* reply is known by the request it answers and by being a turn or an      *)
(* error.  The message and its graph node are written node first, so every *)
(* announced node can be read: the two are one step here.                  *)
(***************************************************************************)
EXTENDS Naturals, Sequences, FiniteSets

CONSTANTS
    N,            \* approved orders, reviewed in the order 1..N of the PMRun
    MaxRounds,    \* settings.max_rounds
    Concurrency,  \* settings.debate_concurrency
    Candidates,   \* how many LLM candidates the manager was handed
    MaxAttempts,  \* policy.max_attempts_before_quarantine
    MaxFaults     \* bound: kills, lost calls and failed writes

ASSUME DebateAssumption ==
    /\ {N, MaxRounds, Concurrency, Candidates, MaxAttempts, MaxFaults} \subseteq Nat
    /\ N > 0 /\ MaxRounds > 0 /\ Concurrency > 0 /\ Candidates > 0 /\ MaxAttempts > 0

VARIABLES
    manager,   \* "idle", "review", "link": where review_pm_node is
    attempt,   \* how many times the PMRun has been taken up
    th,        \* per order: its thread in _review_one
    pending,   \* ServiceBusReplyInbox._pending
    stashed,   \* ServiceBusReplyInbox._stashed
    index,     \* ModelChain._index
    refused,   \* the candidates that refused a request of this process
    client,    \* ServiceBusPeerClient._orphaned_reply_count
    before,    \* orphaned_reply_count_before
    dead,      \* how many replies were dead-lettered in this attempt
    blind,     \* a wait of this attempt ended in another error than time-out
    requests,  \* per peer: ready events on its request subscription
    taken,     \* per peer: requests settled and not yet answered
    replies,   \* ready events on the manager's reply subscription
    lost,      \* requests and replies settled whose thread will never be answered
    record,    \* the DeliberationRun: {} or one
    linked,    \* the DELIBERATED_BY edge
    routed,    \* this process's settings name both peers' request topics
    failures,  \* WorkLoopState._failures: the PMRun's failed attempts
    quarantined,  \* the PMRun's WorkItemQuarantine marker
    faults     \* how many of MaxFaults have happened

inboxVars == <<pending, stashed>>
chainVars == <<index, refused>>
countVars == <<client, before, dead, blind>>
graphVars == <<record, linked>>
loopVars == <<routed, failures, quarantined>>
vars == <<manager, attempt, th, inboxVars, chainVars, countVars, requests,
          taken, replies, lost, graphVars, loopVars, faults>>

Orders == 1..N
Peers == {"proponent", "opponent"}
Turns == 2 * MaxRounds

(* The defender speaks first in every round, then the challenger.           *)
Recipient(k) == IF k % 2 = 1 THEN "proponent" ELSE "opponent"

(* Messages get a new uuid each time they are built, and a thread builds    *)
(* one message per attempt and turn.                                        *)
Ids == [attempt: Nat, order: Orders, turn: 1..Turns]
IdOf(o) == [attempt |-> attempt, order |-> o, turn |-> th[o].turn]
Events == [id: Ids, error: BOOLEAN]

(* turns: the replies so far; orphans: dead-lettered in the present wait;   *)
(* event: received and not yet dealt with.                                  *)
NewThread == [pc |-> "queued", turn |-> 1, turns |-> <<>>, orphans |-> 0,
              event |-> {}, candidate |-> 0, ruling |-> "none"]

(* fail_open_review: an uphold without turns, marked failed open.           *)
FailedOpen == [pc |-> "done", turn |-> 1, turns |-> <<>>, orphans |-> 0,
               event |-> {}, candidate |-> 0, ruling |-> "failed_open"]

Done == \A o \in Orders : th[o].pc = "done"
Fault == faults < MaxFaults /\ faults' = faults + 1

Threads ==
    [pc: {"queued", "call", "publish", "wait", "stash", "resolve", "judge", "judging",
          "done"},
     turn: 1..Turns, turns: Seq(Ids), orphans: Nat, event: SUBSET Events,
     candidate: 0..Candidates, ruling: {"none", "ruled", "failed_open"}]

\* The types; an orphan count may not be negative, and a peer has at most one
\* request in hand.
TypeOK ==
    /\ manager \in {"idle", "review", "link"}
    /\ attempt \in Nat
    /\ th \in [Orders -> Threads]
    /\ pending \subseteq Ids /\ stashed \subseteq Events
    /\ index \in 1..Candidates /\ refused \subseteq 1..Candidates
    /\ client \in Nat /\ before \in Nat /\ dead \in Nat /\ blind \in BOOLEAN
    /\ requests \in [Peers -> SUBSET Ids]
    /\ taken \in [Peers -> SUBSET Ids]
    /\ \A p \in Peers : \A x, y \in taken[p] : x = y
    /\ replies \subseteq Events /\ lost \subseteq Ids
    /\ linked \in BOOLEAN
    /\ routed \in BOOLEAN /\ failures \in Nat /\ quarantined \in BOOLEAN
    /\ faults \in 0..MaxFaults

Init ==
    /\ manager = "idle" /\ attempt = 0
    /\ th = [o \in Orders |-> NewThread]
    /\ pending = {} /\ stashed = {}
    /\ index = 1 /\ refused = {}
    /\ client = 0 /\ before = 0 /\ dead = 0 /\ blind = FALSE
    /\ requests = [p \in Peers |-> {}]
    /\ taken = [p \in Peers |-> {}]
    /\ replies = {} /\ lost = {}
    /\ record = {} /\ linked = FALSE
    /\ routed \in BOOLEAN /\ failures = 0 /\ quarantined = FALSE
    /\ faults = 0

-----------------------------------------------------------------------------
(* The manager: one PMRun, its orders in a thread pool *)

(* work_loop takes up a PMRun without a DELIBERATED_BY edge, unless it is   *)
(* quarantined.                                                             *)
Ready == manager = "idle" /\ ~linked /\ ~quarantined

(* record_failure: the pass raised, or left the PMRun pending.  At the cap  *)
(* the PMRun is quarantined for good.                                       *)
CountFailure ==
    IF failures + 1 >= MaxAttempts
    THEN failures' = 0 /\ quarantined' = TRUE
    ELSE failures' = failures + 1 /\ UNCHANGED quarantined

(* The preflight asks this process's settings for the connection of every   *)
(* peer's topic.  Without one the review returns before it has done         *)
(* anything, and the PMRun is still pending.                                *)
PreflightFails ==
    /\ Ready /\ ~routed
    /\ CountFailure
    /\ UNCHANGED <<manager, attempt, th, inboxVars, chainVars, countVars, requests,
                   taken, replies, lost, graphVars, routed, faults>>

(* The peers can be addressed.  The baseline of the orphan count is read    *)
(* before the batch: the client outlives the run.                           *)
StartReview ==
    /\ Ready /\ routed
    /\ manager' = "review" /\ attempt' = attempt + 1
    /\ th' = [o \in Orders |-> NewThread]
    /\ before' = client /\ dead' = 0 /\ blind' = FALSE
    /\ UNCHANGED <<inboxVars, chainVars, client, requests, taken,
                   replies, lost, graphVars, loopVars, faults>>

(* The pool's workers take the orders first in, first out.                  *)
StartOrder(o) ==
    /\ manager = "review" /\ th[o].pc = "queued"
    /\ \A other \in 1..(o - 1) : th[other].pc # "queued"
    /\ Cardinality({x \in Orders : th[x].pc \notin {"queued", "done"}}) < Concurrency
    /\ th' = [th EXCEPT ![o].pc = "call"]
    /\ UNCHANGED <<manager, attempt, inboxVars, chainVars, countVars, requests,
                   taken, replies, lost, graphVars, loopVars, faults>>

(* The thread leaves `expecting`, however it leaves: its id is pending no   *)
(* more and what was stashed for it is dropped.                             *)
LeaveInbox(o) ==
    /\ pending' = pending \ {IdOf(o)}
    /\ stashed' = {e \in stashed : e.id # IdOf(o)}

\* Mutant: the request is published without marking its id as in flight.
ExpectNothing(o) ==
    /\ th[o].pc = "call"
    /\ th' = [th EXCEPT ![o].pc = "publish"]
    /\ UNCHANGED <<manager, attempt, inboxVars, chainVars, countVars, requests,
                   taken, replies, lost, graphVars, loopVars, faults>>

(* The id is pending before the request is published.                       *)
Expect(o) ==
    /\ th[o].pc = "call"
    /\ pending' = pending \cup {IdOf(o)}
    /\ th' = [th EXCEPT ![o].pc = "publish"]
    /\ UNCHANGED <<manager, attempt, stashed, chainVars, countVars, requests,
                   taken, replies, lost, graphVars, loopVars, faults>>

(* claim_check_write: the message node, then its ready event on the topic.  *)
Announced(o) == [requests EXCEPT ![Recipient(th[o].turn)] = @ \cup {IdOf(o)}]

PublishRequest(o) ==
    /\ th[o].pc = "publish"
    /\ requests' = Announced(o)
    /\ th' = [th EXCEPT ![o].pc = "wait"]
    /\ UNCHANGED <<manager, attempt, inboxVars, chainVars, countVars, taken,
                   replies, lost, graphVars, loopVars, faults>>

(* The publish raises, before or after the message reached the topic: the   *)
(* order fails open.                                                        *)
PublishRaises(o) ==
    /\ th[o].pc = "publish" /\ Fault
    /\ requests' \in {requests, Announced(o)}
    /\ LeaveInbox(o)
    /\ th' = [th EXCEPT ![o] = FailedOpen]
    /\ UNCHANGED <<manager, attempt, chainVars, countVars, taken, replies, lost,
                   graphVars, loopVars>>

-----------------------------------------------------------------------------
(* ServiceBusReplyInbox.receive: one reply subscription, one receiver per  *)
(* waiting thread.  Between its looks at the stash a thread may receive    *)
(* and may pass its deadline, whatever is stashed for it by then.          *)

(* A thread's own reply: settled, and the wait is over.                     *)
Matched(o, e) ==
    /\ th' = [th EXCEPT ![o].pc = "resolve", ![o].event = {e}]
    /\ LeaveInbox(o)

PopStashed(o) ==
    /\ th[o].pc = "wait"
    /\ \E e \in stashed : e.id = IdOf(o) /\ Matched(o, e)
    /\ UNCHANGED <<manager, attempt, chainVars, countVars, requests, taken,
                   replies, lost, graphVars, loopVars, faults>>

\* Mutant: a reply is matched by the request id, the same in every attempt.
IsOwnByRequestId(o, e) == e.id.order = o /\ e.id.turn = th[o].turn

IsOwn(o, e) == e.id = IdOf(o)

ReceiveOwn(o) ==
    /\ th[o].pc = "wait"
    /\ \E e \in replies :
         /\ IsOwn(o, e)
         /\ replies' = replies \ {e}
         /\ Matched(o, e)
    /\ UNCHANGED <<manager, attempt, chainVars, countVars, requests, taken,
                   lost, graphVars, loopVars, faults>>

(* A sibling's reply is settled and, in a step of its own, stashed: its     *)
(* thread may have given up in between.                                     *)
ReceiveSibling(o) ==
    /\ th[o].pc = "wait"
    /\ \E e \in replies :
         /\ ~IsOwn(o, e) /\ e.id \in pending
         /\ replies' = replies \ {e}
         /\ th' = [th EXCEPT ![o].pc = "stash", ![o].event = {e}]
    /\ UNCHANGED <<manager, attempt, inboxVars, chainVars, countVars, requests,
                   taken, lost, graphVars, loopVars, faults>>

Stash(o) ==
    /\ th[o].pc = "stash"
    /\ stashed' = stashed \cup th[o].event
    /\ th' = [th EXCEPT ![o].pc = "wait", ![o].event = {}]
    /\ UNCHANGED <<manager, attempt, pending, chainVars, countVars, requests,
                   taken, replies, lost, graphVars, loopVars, faults>>

(* A reply nobody waits for is dead-lettered and counted by the thread that *)
(* received it.                                                             *)
DeadLetter(o) ==
    /\ th[o].pc = "wait"
    /\ \E e \in replies :
         /\ ~IsOwn(o, e) /\ e.id \notin pending
         /\ replies' = replies \ {e}
    /\ dead' = dead + 1
    /\ th' = [th EXCEPT ![o].orphans = @ + 1]
    /\ UNCHANGED <<manager, attempt, inboxVars, chainVars, client, before, blind,
                   requests, taken, lost, graphVars, loopVars, faults>>

\* Mutant: only a matched reply reports the orphans seen on the way.
TimeOutUncounted(o) ==
    /\ th[o].pc = "wait"
    /\ LeaveInbox(o)
    /\ th' = [th EXCEPT ![o] = FailedOpen]
    /\ UNCHANGED <<manager, attempt, chainVars, countVars, requests, taken,
                   replies, lost, graphVars, loopVars, faults>>

\* Mutant: the receive blocks until a message comes, and the deadline is
\* looked at after it.
TimeOutOnceWoken(o) ==
    /\ th[o].pc = "wait" /\ replies # {}
    /\ LeaveInbox(o)
    /\ client' = client + th[o].orphans
    /\ th' = [th EXCEPT ![o] = FailedOpen]
    /\ UNCHANGED <<manager, attempt, chainVars, before, dead, blind, requests, taken,
                   replies, lost, graphVars, loopVars, faults>>

(* The deadline: request_timeout_seconds after the wait began.  The orphans *)
(* are recorded and the order fails open.                                   *)
TimeOut(o) ==
    /\ th[o].pc = "wait"
    /\ LeaveInbox(o)
    /\ client' = client + th[o].orphans
    /\ th' = [th EXCEPT ![o] = FailedOpen]
    /\ UNCHANGED <<manager, attempt, chainVars, before, dead, blind, requests, taken,
                   replies, lost, graphVars, loopVars, faults>>

(* A settlement that took effect at the broker and then raised: the reply   *)
(* is off the subscription, and the line after the settlement, which would  *)
(* return it, stash it for a sibling or count it, is not reached.           *)
SettledAndRaised(o) ==
    \E e \in replies :
        /\ replies' = replies \ {e}
        /\ \/ /\ IsOwn(o, e) \/ e.id \in pending
              /\ lost' = lost \cup {e.id} /\ UNCHANGED dead
           \/ /\ ~IsOwn(o, e) /\ e.id \notin pending
              /\ dead' = dead + 1 /\ UNCHANGED lost

(* Any other error of the receiver: opening it, receiving, or settling what *)
(* was received, with or without effect.  Only the time-out carries the     *)
(* orphan count out of the wait.                                            *)
ReceiveRaises(o) ==
    /\ th[o].pc = "wait" /\ Fault
    /\ LeaveInbox(o)
    /\ blind' = TRUE
    /\ th' = [th EXCEPT ![o] = FailedOpen]
    /\ UNCHANGED <<replies, lost, dead>> \/ SettledAndRaised(o)
    /\ UNCHANGED <<manager, attempt, chainVars, client, before, requests, taken,
                   graphVars, loopVars>>

(* debate_turn after the match: the orphans are recorded, the envelope is   *)
(* read, an error fails the order open, a turn joins the transcript; after  *)
(* the last turn of the last round the judge is asked.                      *)
Resolve(o) ==
    /\ th[o].pc = "resolve"
    /\ client' = client + th[o].orphans
    /\ \E e \in th[o].event :
         LET next == [th[o] EXCEPT !.turns = Append(@, e.id), !.orphans = 0,
                                   !.event = {}]
         IN th' = [th EXCEPT ![o] =
              IF e.error THEN FailedOpen
              ELSE IF th[o].turn < Turns
                   THEN [next EXCEPT !.pc = "call", !.turn = @ + 1]
                   ELSE [next EXCEPT !.pc = "judge"]]
    /\ UNCHANGED <<manager, attempt, inboxVars, chainVars, before, dead, blind,
                   requests, taken, replies, lost, graphVars, loopVars, faults>>

-----------------------------------------------------------------------------
(* The verdict: LedgerLLM.complete over the process's ModelChain *)

(* The request goes to the candidate the process is on.                     *)
AskJudge(o) ==
    /\ th[o].pc = "judge"
    /\ th' = [th EXCEPT ![o].pc = "judging", ![o].candidate = index]
    /\ UNCHANGED <<manager, attempt, inboxVars, chainVars, countVars, requests,
                   taken, replies, lost, graphVars, loopVars, faults>>

(* A readable ruling; which one is not told apart here.                     *)
JudgeRules(o) ==
    /\ th[o].pc = "judging"
    /\ th' = [th EXCEPT ![o].pc = "done", ![o].ruling = "ruled",
                             ![o].candidate = 0]
    /\ UNCHANGED <<manager, attempt, inboxVars, chainVars, countVars, requests,
                   taken, replies, lost, graphVars, loopVars, faults>>

\* Mutant: every refusal moves the process one candidate on.
AfterEach(c) == index + 1

(* ModelChain.after: the process moves past the refused candidate, unless   *)
(* another thread has moved it already.                                     *)
After(c) == IF index > c THEN index ELSE c + 1

(* A vendor's error answer: the request goes to the candidate in use, or    *)
(* fails when the refusing one was the last.                                *)
JudgeRefused(o) ==
    LET c == th[o].candidate IN
    /\ th[o].pc = "judging"
    /\ refused' = refused \cup {c}
    /\ IF c = Candidates
       THEN th' = [th EXCEPT ![o] = FailedOpen] /\ UNCHANGED index
       ELSE th' = [th EXCEPT ![o].candidate = After(c)] /\ index' = After(c)
    /\ UNCHANGED <<manager, attempt, inboxVars, countVars, requests, taken,
                   replies, lost, graphVars, loopVars, faults>>

(* Building the context raises before the first turn, or the judge's call   *)
(* fails in another way than by a vendor's refusal (a time-out, a truncated *)
(* or unreadable completion): the order fails open.                         *)
ReviewRaises(o) ==
    /\ th[o].pc = "judging" \/ (th[o].pc = "call" /\ th[o].turn = 1)
    /\ th' = [th EXCEPT ![o] = FailedOpen]
    /\ UNCHANGED <<manager, attempt, inboxVars, chainVars, countVars, requests,
                   taken, replies, lost, graphVars, loopVars, faults>>

-----------------------------------------------------------------------------
(* write_deliberation_run *)

Result == [attempt |-> attempt, orphans |-> client - before,
           rulings |-> [o \in Orders |-> th[o].ruling],
           turns |-> [o \in Orders |-> th[o].turns]]

(* The node is keyed by the PM run and written only if it is not there.     *)
WriteRun ==
    /\ manager = "review" /\ Done
    /\ record' = IF record = {} THEN {Result} ELSE record
    /\ manager' = "link"
    /\ UNCHANGED <<attempt, th, inboxVars, chainVars, countVars, requests, taken,
                   replies, lost, linked, loopVars, faults>>

(* The PMRun is pending no more: record_success clears its failures.        *)
LinkRun ==
    /\ manager = "link"
    /\ linked' = TRUE /\ manager' = "idle" /\ failures' = 0
    /\ UNCHANGED <<attempt, th, inboxVars, chainVars, countVars, requests, taken,
                   replies, lost, record, routed, quarantined, faults>>

(* The graph raises at the node or at the edge, the edge written or not (a  *)
(* node that was written is WriteRun and then this step): a failed attempt, *)
(* after which work_loop takes the PMRun up again in the same process.      *)
WriteRaises ==
    /\ manager = "link" \/ (manager = "review" /\ Done)
    /\ Fault
    /\ manager' = "idle"
    /\ UNCHANGED linked \/ (manager = "link" /\ linked' = TRUE)
    /\ CountFailure
    /\ UNCHANGED <<attempt, th, inboxVars, chainVars, countVars, requests, taken,
                   replies, lost, record, routed>>

(* The manager's container is killed: its memory is gone, a message it had  *)
(* received and not settled returns to the subscription.  The next process  *)
(* may be given other settings.                                             *)
ManagerDies ==
    /\ Fault
    /\ manager' = "idle"
    /\ failures' = 0 /\ routed' \in BOOLEAN
    /\ th' = [o \in Orders |-> NewThread]
    /\ pending' = {} /\ stashed' = {}
    /\ index' = 1 /\ refused' = {}
    /\ client' = 0 /\ before' = 0
    /\ UNCHANGED <<attempt, dead, blind, requests, taken, replies, lost, graphVars,
                   quarantined>>

-----------------------------------------------------------------------------
(* The served peers *)

\* Mutant: the request is settled after its answer, not when it is taken.
TakeUnsettled(p) ==
    /\ taken[p] = {}
    /\ \E id \in requests[p] : taken' = [taken EXCEPT ![p] = {id}]
    /\ UNCHANGED <<manager, attempt, th, inboxVars, chainVars, countVars, requests,
                   replies, lost, graphVars, loopVars, faults>>

(* poll: a pass takes one request, reads its node and settles it.           *)
Take(p) ==
    /\ taken[p] = {}
    /\ \E id \in requests[p] :
         /\ requests' = [requests EXCEPT ![p] = @ \ {id}]
         /\ taken' = [taken EXCEPT ![p] = {id}]
    /\ UNCHANGED <<manager, attempt, th, inboxVars, chainVars, countVars,
                   replies, lost, graphVars, loopVars, faults>>

(* bus.request never raises: the handler's turn or an error message.        *)
Answer(p, error) ==
    \E id \in taken[p] :
      /\ taken' = [taken EXCEPT ![p] = {}]
      /\ \/ /\ replies' = replies \cup {[id |-> id, error |-> error]}
            /\ UNCHANGED <<lost, faults>>
         \/ Fault /\ lost' = lost \cup {id} /\ UNCHANGED replies

(* serve_once: dispatch, then publish the answer under the request's id; a  *)
(* publish that fails is recorded and not tried again.                      *)
Serve(p) ==
    /\ taken[p] # {}
    /\ \E error \in BOOLEAN : Answer(p, error)
    /\ UNCHANGED <<manager, attempt, th, inboxVars, chainVars, countVars, requests,
                   graphVars, loopVars>>

(* A kill, or a take that raises, loses what was settled.  A stop ends      *)
(* serve_loop between two passes, when nothing is taken: a stopped peer is  *)
(* one that takes nothing.                                                  *)
PeerDies(p) ==
    /\ taken[p] # {} /\ Fault
    /\ taken' = [taken EXCEPT ![p] = {}]
    /\ lost' = lost \cup taken[p]
    /\ UNCHANGED <<manager, attempt, th, inboxVars, chainVars, countVars, requests,
                   replies, graphVars, loopVars>>

-----------------------------------------------------------------------------
OrderStep(o) ==
    \/ StartOrder(o) \/ Expect(o) \/ PublishRequest(o)
    \/ PopStashed(o) \/ ReceiveOwn(o) \/ ReceiveSibling(o) \/ Stash(o)
    \/ DeadLetter(o) \/ TimeOut(o) \/ Resolve(o)
    \/ AskJudge(o) \/ JudgeRules(o) \/ JudgeRefused(o) \/ ReviewRaises(o)

ManagerStep ==
    \/ PreflightFails \/ StartReview \/ WriteRun \/ LinkRun
    \/ \E o \in Orders : OrderStep(o)

Next ==
    \/ ManagerStep
    \/ \E o \in Orders : PublishRaises(o) \/ ReceiveRaises(o)
    \/ WriteRaises \/ ManagerDies
    \/ \E p \in Peers : Take(p) \/ Serve(p) \/ PeerDies(p)

(* The manager's process goes on whenever it can: work_loop polls for ever, *)
(* the pool's threads run, and a wait has a deadline.  Nothing is assumed   *)
(* of the peers.                                                            *)
Spec == Init /\ [][Next]_vars /\ WF_vars(ManagerStep)

-----------------------------------------------------------------------------
(* Properties *)

\* DLIB-ORD-01, DLIB-NEV-06: in the DeliberationRun a ruling rests on every
\* turn of its debate, each the answer to the request this attempt sent for
\* that turn, whatever earlier attempts and given-up waits left on the reply
\* subscription; an order without them is a marked failed-open one.
RulingFromOwnDebate ==
    \A r \in record, o \in Orders :
        r.turns[o] = IF r.rulings[o] = "failed_open" THEN <<>>
                     ELSE [k \in 1..Turns |->
                             [attempt |-> r.attempt, order |-> o, turn |-> k]]

(* Where a request can be: still to be answered, or its reply under way to  *)
(* the thread that asked.                                                   *)
ToBeAnswered == UNION {requests[p] \cup taken[p] : p \in Peers}
UnderWay == {e.id : e \in replies \cup stashed \cup UNION {th[o].event : o \in Orders}}

\* While a thread waits, its request is still to be answered or its reply is
\* under way to it, unless it was lost; and every loss is paid for by a fault of
\* its own: a peer killed with the request in hand, an answer whose publish
\* failed, or a reply whose settlement took effect and raised.  No sibling
\* dead-letters a reply that is waited for, and what a sibling has settled on
\* its way to the stash is not dropped (servicebus_reply_inbox).
ReplyReachesItsWaiter ==
    /\ \A o \in Orders :
         th[o].pc = "wait" => IdOf(o) \in ToBeAnswered \cup UnderWay \cup lost
    /\ Cardinality(lost) <= faults

Recorded == UNION {{th[o].turns[k] : k \in DOMAIN th[o].turns} : o \in Orders}
Answered == UnderWay \cup lost \cup Recorded

\* DLIB-IDM-04: "One delivery is therefore served at most once": a request
\* whose answer exists, or was lost with its peer, is not delivered again.
ServedAtMostOnce == ToBeAnswered \cap Answered = {}

\* DLIB-OBS-04 and poll.py, "the count is a per-run delta ... and that holds
\* under fan-out too": the DeliberationRun counts the replies that were
\* dead-lettered in its own attempt, by any thread, when no wait of that
\* attempt ended in an error of the receiver, and never more.
OrphansCounted ==
    \A r \in record :
        r.attempt = attempt =>
            r.orphans <= dead /\ (~blind => r.orphans = dead)

\* DLIB-FAIL-05: however many concurrent requests one candidate refuses, the
\* process never leaves a candidate that has refused nothing.
NoCandidateSkipped == 1..(index - 1) \subseteq refused

\* The PMRun's review ends, with failed-open orders if need be, whatever
\* becomes of the peers and their replies, provided they can be addressed: a
\* process whose settings lack a peer's topic writes nothing and leaves the
\* PMRun pending (test_unreachable_peer_preflight_leaves_pmrun_unconsumed)
\* until the work loop has quarantined it.  Only that, or as many faults as
\* the cap allows attempts, ends it without its DELIBERATED_BY edge.
ReviewEnds ==
    <>(linked \/ (quarantined /\ (~routed \/ faults >= MaxAttempts)))
=============================================================================
