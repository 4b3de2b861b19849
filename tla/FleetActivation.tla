--------------------------- MODULE FleetActivation ---------------------------
(***************************************************************************)
(* How an agent container is activated: the agent sends an EHLO with one    *)
(* boot id and resends it while the transport fails (kernel/ehlo_retry.py); *)
(* the master answers on a thread per request (agents/master/http_server.py,*)
(* draining_server.py), keeps each answer for a bounded time and replays it *)
(* to a resend (activation_replay.py), tests the agent's credential against *)
(* a pass cache shared with the fleet preflight (credential_check.py,       *)
(* fleet_preflight.py) and records the instance and its grants in the graph *)
(* (agent.py, store.py).  The master may be stopped, may crash and starts   *)
(* again with nothing but the graph.                                        *)
(*                                                                          *)
(* Left out: the contents of grants and secrets, signatures, and the        *)
(* remediation flow, which the entrypoint does not wire (MST-FAIL-07).      *)
(* A boot id is a uuid of its container, so it always comes with the same   *)
(* agent type; all boots are of one type, which shares one instance counter.*)
(***************************************************************************)
EXTENDS Naturals, FiniteSets

CONSTANTS
    Boots,          \* boot ids: one per start of an agent container
    MaxAttempts,    \* EhloSettings.ehlo_max_attempts of each container
    Lifetime,       \* replay_lifetime_seconds, in ticks
    PassTTL,        \* credential_pass_cache_ttl_minutes, in ticks (not 0)
    MaxTime,        \* bound: the last tick
    MaxSessions,    \* bound: how often the master starts
    MaxMishaps      \* bound: graph errors and crashes of the master

ASSUME FleetAssumption ==
    /\ MaxAttempts \in [Boots -> Nat \ {0}]
    /\ {Lifetime, PassTTL, MaxTime, MaxSessions, MaxMishaps} \subseteq Nat
    /\ Lifetime > 0 /\ Lifetime <= PassTTL

Requests == UNION {{b} \X (1..MaxAttempts[b]) : b \in Boots}

VARIABLES
    now,        \* the clock all processes read
    agent,      \* per boot id: its retry loop
    req,        \* per request: where its connection or thread is
    held,       \* per request: the instance its thread works with, {} or one
    replay,     \* ActivationReplay._entries: per boot id
    passAt,     \* PassCache: the times of the costly pass, {} or one time
    master,     \* the master's main thread
    session,    \* number of the current boot session
    code,       \* how each session's process ended
    preflight,  \* is a fleet check in hand
    counter,    \* MasterAgent._instance_counter
    registry,   \* AgentInstance nodes
    granted,    \* ids of the AgentInstance nodes whose grants are all written
    escalated,  \* boot ids refused with an Escalation node
    given,      \* every 200 the master decided to answer
    mishaps     \* faults so far

vars == <<now, agent, req, held, replay, passAt, master, session, code,
          preflight, counter, registry, granted, escalated, given, mishaps>>

masterVars == <<master, session, code, preflight>>
graphVars == <<counter, registry, granted, escalated>>

Ids == [session: Nat, n: Nat]
NoEntry == [st |-> "none", id |-> {}, at |-> 0]
InFlightEntry == [NoEntry EXCEPT !.st = "flight"]

(* A request's thread is at one of these points: counted in but not yet     *)
(* looked up, waiting for the first of its boot id, or inside mint().       *)
Minting == {"test", "grant"}
ThreadPoints == {"accepted", "waiting", "reply200", "reply422"} \cup Minting

TypeOK ==
    /\ now \in 0..MaxTime
    /\ agent \in [Boots -> [st: {"ready", "sent", "active", "refused", "gaveup"},
                            attempt: Nat, id: SUBSET Ids]]
    /\ \A b \in Boots : agent[b].attempt <= MaxAttempts[b]
    /\ req \in [Requests -> {"none", "backlog", "gone"} \cup ThreadPoints]
    /\ held \in [Requests -> SUBSET Ids]
    /\ replay \in [Boots -> [st: {"none", "flight", "answered"}, id: SUBSET Ids,
                             at: 0..MaxTime]]
    /\ passAt \in SUBSET (0..MaxTime)
    /\ master \in {"down", "up", "draining", "drained", "leaving"}
    /\ session \in 0..MaxSessions
    /\ code \in [1..MaxSessions -> {"none", "clean", "left", "unrecorded"}]
    /\ preflight \in BOOLEAN
    /\ counter \in Nat
    /\ registry \subseteq [id: Ids, boot: Boots]
    /\ granted \subseteq Ids
    /\ escalated \subseteq Boots
    /\ given \subseteq [boot: Boots, id: SUBSET Ids, at: 0..MaxTime,
                        stored: 0..MaxTime]
    /\ mishaps \in 0..MaxMishaps

Init ==
    /\ now = 0
    /\ agent = [b \in Boots |-> [st |-> "ready", attempt |-> 0, id |-> {}]]
    /\ req = [r \in Requests |-> "none"]
    /\ held = [r \in Requests |-> {}]
    /\ replay = [b \in Boots |-> NoEntry]
    /\ passAt = {}
    /\ master = "down"
    /\ session = 0
    /\ code = [s \in 1..MaxSessions |-> "none"]
    /\ preflight = FALSE
    /\ counter = 0
    /\ registry = {} /\ granted = {} /\ escalated = {}
    /\ given = {}
    /\ mishaps = 0

(***************************************************************************)
(* The agent's retry loop.                                                  *)
(***************************************************************************)
(* send_with_retry, one attempt: the connection is queued while the master  *)
(* listens; otherwise it is refused, which the next step treats as any      *)
(* transient failure.                                                       *)
Send(b) ==
    LET k == agent[b].attempt + 1 IN
    /\ agent[b].st = "ready"
    /\ agent' = [agent EXCEPT ![b].st = "sent", ![b].attempt = k]
    /\ req' = [req EXCEPT ![<<b, k>>] = IF master = "up" THEN "backlog" ELSE "gone"]
    /\ UNCHANGED <<now, held, replay, passAt, masterVars, graphVars, given, mishaps>>

(* A transient failure (timeout, refusal, reset, 502/503/504): resend the   *)
(* same body, or exit once the attempt cap is reached or the next delay     *)
(* would pass the time budget.  The request may still be with the master.   *)
TransientFailure(b) ==
    /\ agent[b].st = "sent"
    /\ \E budgetSpent \in BOOLEAN :
         agent' = [agent EXCEPT ![b].st =
                     IF agent[b].attempt >= MaxAttempts[b] \/ budgetSpent
                     THEN "gaveup" ELSE "ready"]
    /\ UNCHANGED <<now, req, held, replay, passAt, masterVars, graphVars, given, mishaps>>

(* The answer reaches the agent only if it still waits for that attempt.    *)
Waits(r) == agent[r[1]].st = "sent" /\ agent[r[1]].attempt = r[2]

(***************************************************************************)
(* The master's main thread.                                                *)
(***************************************************************************)
Running == master # "down"

(* A container start: a new session node, an empty replay store, cache and  *)
(* counter; the graph is all that an earlier master leaves.  The preflight  *)
(* thread begins its first check at once; the next is at least five minutes *)
(* away, longer than the replay lifetime, and is not modelled.              *)
Start ==
    /\ master = "down" /\ session < MaxSessions
    /\ master' = "up" /\ session' = session + 1
    /\ counter' = 0 /\ preflight' = TRUE
    /\ UNCHANGED <<now, agent, req, held, replay, passAt, code, registry, granted,
                   escalated, given, mishaps>>

(* handle_request: a queued connection gets a thread, counted in before it  *)
(* starts.                                                                  *)
Accept(r) ==
    /\ req[r] = "backlog" /\ master = "up"
    /\ req' = [req EXCEPT ![r] = "accepted"]
    /\ UNCHANGED <<now, agent, held, replay, passAt, masterVars, graphVars, given,
                   mishaps>>

(* The stop signal ends the accept loop, between two requests, and closes   *)
(* the listening socket: what waits in the backlog is reset.                *)
StopSignal ==
    /\ master = "up" /\ master' = "draining"
    /\ req' = [r \in Requests |-> IF req[r] = "backlog" THEN "gone" ELSE req[r]]
    /\ UNCHANGED <<now, agent, held, replay, passAt, session, code, preflight,
                   graphVars, given, mishaps>>

\* Mutant: a request is counted in by its own thread.
InHandStarted == {r \in Requests : req[r] \in ThreadPoints \ {"accepted"}}

(* DrainingTCPServer._in_hand: counted before the thread starts, out when   *)
(* it has ended.                                                            *)
InHand == {r \in Requests : req[r] \in ThreadPoints}

\* Mutant: the fleet check in hand is not waited for.
DrainRequestsOnly ==
    /\ master = "draining"
    /\ master' = IF InHand = {} THEN "drained" ELSE "leaving"
    /\ UNCHANGED <<now, agent, req, held, replay, passAt, session, code, preflight,
                   graphVars, given, mishaps>>

(* drain and preflight.join: both end when nothing is left or when          *)
(* stop_drain_seconds have passed, whichever is first.                      *)
Drain ==
    /\ master = "draining"
    /\ master' = IF InHand = {} /\ ~preflight THEN "drained" ELSE "leaving"
    /\ UNCHANGED <<now, agent, req, held, replay, passAt, session, code,
                   preflight, graphVars, given, mishaps>>

(* The process is gone: its daemon threads, connections and memory go too.  *)
ProcessGone ==
    /\ master' = "down" /\ preflight' = FALSE
    /\ req' = [r \in Requests |-> IF req[r] = "none" THEN "none" ELSE "gone"]
    /\ held' = [r \in Requests |-> {}]
    /\ replay' = [b \in Boots |-> NoEntry]
    /\ passAt' = {}
    /\ UNCHANGED <<now, agent, session, graphVars, given>>

(* end_session, close the graph, exit: "clean" is exit 0; "left" exits 1    *)
(* with the session end written; a session write that fails, "unrecorded",  *)
(* exits 1 too and keeps no later step back.                                *)
ShutDown ==
    /\ master \in {"drained", "leaving"} /\ ProcessGone
    /\ \/ /\ code' = [code EXCEPT ![session] =
                        IF master = "drained" THEN "clean" ELSE "left"]
          /\ UNCHANGED mishaps
       \/ /\ mishaps < MaxMishaps /\ mishaps' = mishaps + 1
          /\ code' = [code EXCEPT ![session] = "unrecorded"]

Crash ==
    /\ Running /\ mishaps < MaxMishaps /\ mishaps' = mishaps + 1
    /\ ProcessGone
    /\ UNCHANGED code

(* PassCache.fresh *)
Fresh == \E t \in passAt : now - t < PassTTL

(* run_fleet_preflight tests the same credential through the same cache:    *)
(* a live pass is recorded there, a fresh one is reused.                    *)
PreflightEnd ==
    /\ preflight /\ preflight' = FALSE
    /\ passAt' \in IF Fresh THEN {passAt} ELSE {passAt, {now}}
    /\ UNCHANGED <<now, agent, req, held, replay, master, session, code, graphVars,
                   given, mishaps>>

(***************************************************************************)
(* A request's thread.                                                      *)
(***************************************************************************)
(* _purge_expired: only an answered entry expires.                          *)
Expired(e) == e.st = "answered" /\ now - e.at >= Lifetime
Purged == [b \in Boots |-> IF Expired(replay[b]) THEN NoEntry ELSE replay[b]]

\* Mutant: only answers are remembered, not what is in flight.
LookupAnswered(r) ==
    LET b == r[1]  e == Purged[b] IN
    /\ req[r] = "accepted"
    /\ \/ /\ e.st # "answered"
          /\ req' = [req EXCEPT ![r] = "test"]
          /\ replay' = [Purged EXCEPT ![b] = InFlightEntry]
          /\ UNCHANGED <<held, given>>
       \/ /\ e.st = "answered"
          /\ req' = [req EXCEPT ![r] = "reply200"]
          /\ held' = [held EXCEPT ![r] = e.id]
          /\ given' = given \cup {[boot |-> b, id |-> e.id, at |-> now, stored |-> e.at]}
          /\ replay' = Purged
    /\ UNCHANGED <<now, agent, passAt, masterVars, graphVars, mishaps>>

(* ActivationReplay.answer under its lock: the first request of a boot id   *)
(* mints, a later one gets the stored answer or waits for the first.        *)
Lookup(r) ==
    LET b == r[1]  e == Purged[b] IN
    /\ \/ req[r] = "accepted"
       \/ req[r] = "waiting" /\ replay[b].st # "flight"
    /\ \/ /\ e.st = "none"
          /\ req' = [req EXCEPT ![r] = "test"]
          /\ replay' = [Purged EXCEPT ![b] = InFlightEntry]
          /\ UNCHANGED <<held, given>>
       \/ /\ e.st = "answered"
          /\ req' = [req EXCEPT ![r] = "reply200"]
          /\ held' = [held EXCEPT ![r] = e.id]
          /\ given' = given \cup {[boot |-> b, id |-> e.id, at |-> now, stored |-> e.at]}
          /\ replay' = Purged
       \/ /\ e.st = "flight"
          /\ req' = [req EXCEPT ![r] = "waiting"]
          /\ replay' = Purged
          /\ UNCHANGED <<held, given>>
    /\ UNCHANGED <<now, agent, passAt, masterVars, graphVars, mishaps>>

\* Mutant: the in-flight entry outlives a failing mint.
FailMintKeepsEntry(r, how) ==
    /\ UNCHANGED replay
    /\ req' = [req EXCEPT ![r] = how]
    /\ held' = [held EXCEPT ![r] = {}]

(* A failing mint forgets the boot id and wakes its waiters.                *)
FailMint(r, how) ==
    /\ replay' = [replay EXCEPT ![r[1]] = NoEntry]
    /\ req' = [req EXCEPT ![r] = how]
    /\ held' = [held EXCEPT ![r] = {}]

(* next_instance_id under its lock, then the AgentInstance node.            *)
WriteInstance(r) ==
    LET id == [session |-> session, n |-> counter] IN
    /\ counter' = counter + 1
    /\ registry' = registry \cup {[id |-> id, boot |-> r[1]]}
    /\ held' = [held EXCEPT ![r] = {id}]

(* Outcomes.run for the costly credential test: a fresh pass is reused,     *)
(* otherwise a live probe passes, or cannot be reached, which blocks        *)
(* nothing.  The instance is written next.                                  *)
TestPasses(r) ==
    /\ req[r] = "test"
    /\ req' = [req EXCEPT ![r] = "grant"]
    /\ WriteInstance(r)
    /\ passAt' \in IF Fresh THEN {passAt} ELSE {passAt, {now}}
    /\ UNCHANGED <<now, agent, replay, masterVars, granted, escalated, given, mishaps>>

(* A refused required credential: the escalation is written and the         *)
(* activation refused, before any instance exists.                          *)
TestRefuses(r) ==
    /\ req[r] = "test" /\ ~Fresh
    /\ escalated' = escalated \cup {r[1]}
    /\ FailMint(r, "reply422")
    /\ UNCHANGED <<now, agent, passAt, masterVars, counter, registry, granted,
                   given, mishaps>>

(* A graph error inside activate, at the instance or after it, is no        *)
(* ValueError: the handler dies, the connection closes without an answer,   *)
(* and nothing is undone.                                                   *)
GraphError(r) ==
    /\ req[r] \in Minting
    /\ mishaps < MaxMishaps /\ mishaps' = mishaps + 1
    /\ FailMint(r, "gone")
    /\ UNCHANGED <<now, agent, passAt, masterVars, graphVars, given>>

(* The credential evidence and one CapabilityGrant after another; then, in  *)
(* memory only, the answer is signed and kept from now on.                  *)
GrantAndStore(r) ==
    /\ req[r] = "grant"
    /\ granted' = granted \cup held[r]
    /\ replay' = [replay EXCEPT ![r[1]] = [st |-> "answered", id |-> held[r], at |-> now]]
    /\ given' = given \cup {[boot |-> r[1], id |-> held[r], at |-> now, stored |-> now]}
    /\ req' = [req EXCEPT ![r] = "reply200"]
    /\ UNCHANGED <<now, agent, held, passAt, masterVars, counter, registry, escalated,
                   mishaps>>

(* The response is written and the thread ends, counted out.                *)
Reply(r) ==
    /\ req[r] \in {"reply200", "reply422"}
    /\ req' = [req EXCEPT ![r] = "gone"]
    /\ held' = [held EXCEPT ![r] = {}]
    /\ agent' = IF ~Waits(r) THEN agent
                ELSE IF req[r] = "reply200"
                     THEN [agent EXCEPT ![r[1]].st = "active", ![r[1]].id = held[r]]
                     ELSE [agent EXCEPT ![r[1]].st = "refused"]
    /\ UNCHANGED <<now, replay, passAt, masterVars, graphVars, given, mishaps>>

Tick ==
    /\ now < MaxTime /\ now' = now + 1
    /\ UNCHANGED <<agent, req, held, replay, passAt, masterVars, graphVars, given,
                   mishaps>>

ThreadStep(r) ==
    \/ Lookup(r) \/ TestPasses(r) \/ TestRefuses(r)
    \/ GrantAndStore(r) \/ Reply(r)

Next ==
    \/ \E b \in Boots : Send(b) \/ TransientFailure(b)
    \/ \E r \in Requests : Accept(r) \/ ThreadStep(r) \/ GraphError(r)
    \/ Start \/ StopSignal \/ Drain \/ ShutDown \/ Crash \/ PreflightEnd \/ Tick

Spec == Init /\ [][Next]_vars

(***************************************************************************)
(* Properties.                                                              *)
(***************************************************************************)
(* MST-IDM-03: within the replay lifetime of an answer, every answer the    *)
(* same session gives to that boot id carries the same instance id; the     *)
(* requests of one boot that race each other get one activation.            *)
AnswersAgree ==
    \A x, y \in given :
        (/\ x.boot = y.boot
         /\ {i.session : i \in x.id} = {i.session : i \in y.id}
         /\ x.stored <= y.at /\ y.at < x.stored + Lifetime)
        => x.id = y.id

(* MST-STA-02/03 as far as the code keeps them: in a session whose process  *)
(* exits 0, an AgentInstance that no answer ever named costs a fault of its *)
(* own; a stop alone leaves none behind.                                    *)
Unanswered(s) == {i \in registry : i.id.session = s /\ \A g \in given : i.id \notin g.id}
OrphansAreFaults ==
    \A s \in 1..MaxSessions :
        code[s] = "clean" => Cardinality(Unanswered(s)) <= mishaps

(* MST-ORD-04: a process that is about to exit 0 has no request in hand,    *)
(* not even one whose thread was taken but has not run yet, and no fleet    *)
(* check.                                                                   *)
CleanExitCutsNone ==
    [][\A s \in 1..MaxSessions : (code'[s] = "clean" /\ code[s] # "clean") =>
          ~preflight /\ \A r \in Requests : req[r] \in {"none", "gone"}]_vars

(* A boot id is in flight exactly while one thread mints for it: whatever   *)
(* becomes of the first request (answered, refused, failed, cut off), no    *)
(* duplicate waits for an activation that nobody performs.                  *)
Minters(b) == {r \in Requests : r[1] = b /\ req[r] \in Minting}
FlightHasOneMinter ==
    \A b \in Boots :
        /\ Cardinality(Minters(b)) <= 1
        /\ replay[b].st = "flight" <=> Minters(b) # {}

=============================================================================
