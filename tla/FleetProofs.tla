----------------------------- MODULE FleetProofs -----------------------------
(***************************************************************************)
(* Proofs about FleetActivation, for every set of boot ids, attempt caps,   *)
(* lifetimes and numbers of sessions and mishaps.                           *)
(***************************************************************************)
EXTENDS FleetActivation, Integers, FiniteSetTheorems, TLAPS

Loops == [st: {"ready", "sent", "active", "refused", "gaveup"}, attempt: Nat, id: SUBSET Ids]
Entries == [st: {"none", "flight", "answered"}, id: SUBSET Ids, at: 0..MaxTime]
Answers == [boot: Boots, id: SUBSET Ids, at: 0..MaxTime, stored: 0..MaxTime]

\* A request is of one boot id.
LEMMA RequestBoot ==
  ASSUME NEW r \in Requests
  PROVE  /\ r[1] \in Boots /\ r[2] \in 1..MaxAttempts[r[1]] /\ r = <<r[1], r[2]>>
BY DEF Requests

\* The entries that the master stores.
LEMMA EntryTypes ==
  ASSUME FleetAssumption
  PROVE  /\ NoEntry \in Entries /\ NoEntry.st = "none"
         /\ InFlightEntry \in Entries /\ InFlightEntry.st = "flight"
<1>1. NoEntry \in Entries /\ NoEntry.st = "none"
  BY DEF NoEntry, Entries, FleetAssumption
<1>2. InFlightEntry = [st |-> "flight", id |-> {}, at |-> 0]
  BY DEF InFlightEntry, NoEntry
<1>3. InFlightEntry \in Entries /\ InFlightEntry.st = "flight"
  BY <1>2 DEF Entries, FleetAssumption
<1> QED
  BY <1>1, <1>3

\* A purge forgets what is answered and expired, and nothing else.
LEMMA PurgedEntries ==
  ASSUME FleetAssumption, replay \in [Boots -> Entries]
  PROVE  /\ Purged \in [Boots -> Entries]
         /\ \A b \in Boots : /\ Expired(replay[b]) => Purged[b].st = "none"
                             /\ ~Expired(replay[b]) => Purged[b] = replay[b]
<1>1. NoEntry \in Entries /\ NoEntry.st = "none"
  BY EntryTypes
<1> HIDE DEF NoEntry
<1> QED
  BY <1>1 DEF Purged

\* One assignment to a field of an agent's loop.
LEMMA LoopSt ==
  ASSUME NEW t \in Loops, NEW x \in {"ready", "sent", "active", "refused", "gaveup"}
  PROVE  /\ [t EXCEPT !.st = x] \in Loops /\ [t EXCEPT !.st = x].st = x
         /\ [t EXCEPT !.st = x].attempt = t.attempt
BY DEF Loops

\* The same for the attempt counter.
LEMMA LoopAttempt ==
  ASSUME NEW t \in Loops, NEW x \in Nat
  PROVE  /\ [t EXCEPT !.attempt = x] \in Loops /\ [t EXCEPT !.attempt = x].attempt = x
         /\ [t EXCEPT !.attempt = x].st = t.st
BY DEF Loops

\* The same for the instance that the agent was told.
LEMMA LoopId ==
  ASSUME NEW t \in Loops, NEW x \in SUBSET Ids
  PROVE  /\ [t EXCEPT !.id = x] \in Loops /\ [t EXCEPT !.id = x].attempt = t.attempt
         /\ [t EXCEPT !.id = x].st = t.st
BY DEF Loops

\* The retry loop's counter: a loop that is ready has an attempt left.
Attempts ==
  /\ agent \in [Boots -> Loops]
  /\ \A b \in Boots : /\ agent[b].attempt <= MaxAttempts[b]
                      /\ agent[b].st = "ready" => agent[b].attempt < MaxAttempts[b]

\* An attempt is made only while one is left; nothing but send_with_retry counts.
LEMMA AttemptsStep ==
  ASSUME FleetAssumption, Attempts, held \in [Requests -> SUBSET Ids], [Next]_vars
  PROVE  Attempts'
<1>0. MaxAttempts \in [Boots -> Nat \ {0}] /\ agent \in [Boots -> Loops]
  BY DEF FleetAssumption, Attempts
<1>1. ASSUME NEW b \in Boots, Send(b)
      PROVE  Attempts'
  <2> DEFINE k == agent[b].attempt + 1
             t == [agent[b] EXCEPT !.st = "sent"]
  <2>1. k \in Nat /\ k <= MaxAttempts[b]
    BY <1>0, <1>1 DEF Send, Attempts, Loops
  <2>2. agent' = [agent EXCEPT ![b] = [t EXCEPT !.attempt = k]]
    BY <1>0, <1>1 DEF Send
  <2>3. t \in Loops /\ t.st = "sent"
    BY <1>0, LoopSt
  <2> HIDE DEF t, k
  <2>4. [t EXCEPT !.attempt = k] \in Loops /\ [t EXCEPT !.attempt = k].attempt = k
        /\ [t EXCEPT !.attempt = k].st = "sent"
    BY <2>1, <2>3, LoopAttempt
  <2> DEFINE u == [t EXCEPT !.attempt = k]
  <2> HIDE DEF u
  <2>5. u \in Loops /\ u.attempt = k /\ u.st = "sent" /\ agent' = [agent EXCEPT ![b] = u]
    BY <2>2, <2>4 DEF u
  <2> QED
    BY <1>0, <2>1, <2>5 DEF Attempts
<1>2. ASSUME NEW b \in Boots, TransientFailure(b)
      PROVE  Attempts'
  <2>1. PICK x \in {"gaveup", "ready"} :
          /\ agent' = [agent EXCEPT ![b].st = x]
          /\ x = "ready" => ~(agent[b].attempt >= MaxAttempts[b])
    BY <1>2 DEF TransientFailure
  <2> DEFINE t == [agent[b] EXCEPT !.st = x]
  <2>0. x \in {"ready", "sent", "active", "refused", "gaveup"} /\ agent[b] \in Loops
    BY <1>0, <2>1
  <2>2. t \in Loops /\ t.st = x /\ t.attempt = agent[b].attempt
    BY <2>0, LoopSt
  <2>5. agent' = [agent EXCEPT ![b] = t]
    BY <1>0, <2>1
  <2> HIDE DEF t
  <2>3. agent[b].attempt \in Nat /\ MaxAttempts[b] \in Nat
    BY <1>0 DEF Loops
  <2>4. /\ t.attempt <= MaxAttempts[b]
        /\ t.st = "ready" => t.attempt < MaxAttempts[b]
    BY <2>1, <2>2, <2>3 DEF Attempts
  <2> QED
    BY <1>0, <2>2, <2>4, <2>5 DEF Attempts
<1>3. ASSUME NEW r \in Requests, Reply(r)
      PROVE  Attempts'
  <2>0. r[1] \in Boots /\ held[r] \in SUBSET Ids
    BY RequestBoot
  <2>1. CASE agent' = agent
    BY <2>1 DEF Attempts
  <2>2. CASE agent' = [agent EXCEPT ![r[1]].st = "active", ![r[1]].id = held[r]]
    <3> DEFINE t == [agent[r[1]] EXCEPT !.st = "active"]
    <3>1. agent' = [agent EXCEPT ![r[1]] = [t EXCEPT !.id = held[r]]]
      BY <1>0, <2>0, <2>2
    <3>2. t \in Loops /\ t.st = "active" /\ t.attempt = agent[r[1]].attempt
      BY <1>0, <2>0, LoopSt
    <3> HIDE DEF t
    <3> DEFINE u == [t EXCEPT !.id = held[r]]
    <3>3. u \in Loops /\ u.st = "active" /\ u.attempt = agent[r[1]].attempt
      BY <2>0, <3>2, LoopId
    <3>4. agent' = [agent EXCEPT ![r[1]] = u]
      BY <3>1
    <3> HIDE DEF u
    <3> QED
      BY <1>0, <2>0, <3>3, <3>4 DEF Attempts
  <2>3. CASE agent' = [agent EXCEPT ![r[1]].st = "refused"]
    <3> DEFINE t == [agent[r[1]] EXCEPT !.st = "refused"]
    <3>1. agent' = [agent EXCEPT ![r[1]] = t]
      BY <1>0, <2>0, <2>3
    <3>2. t \in Loops /\ t.st = "refused" /\ t.attempt = agent[r[1]].attempt
      BY <1>0, <2>0, LoopSt
    <3> HIDE DEF t
    <3> QED
      BY <1>0, <2>0, <3>1, <3>2 DEF Attempts
  <2> QED
    BY <1>3, <2>1, <2>2, <2>3 DEF Reply
<1>4. CASE agent' = agent
  BY <1>4 DEF Attempts
<1>5. ASSUME NEW r \in Requests,
             \/ Accept(r) \/ GraphError(r) \/ Lookup(r) \/ TestPasses(r) \/ TestRefuses(r)
             \/ GrantAndStore(r)
      PROVE  agent' = agent
  BY <1>5 DEF Accept, GraphError, Lookup, TestPasses, TestRefuses, GrantAndStore
<1>6. ASSUME Start \/ StopSignal \/ Drain \/ ShutDown \/ Crash \/ PreflightEnd \/ Tick
      PROVE  agent' = agent
  BY <1>6 DEF Start, StopSignal, Drain, ShutDown, Crash, ProcessGone, PreflightEnd, Tick
<1>7. ASSUME UNCHANGED vars
      PROVE  agent' = agent
  BY <1>7 DEF vars
<1> QED
  BY <1>1, <1>2, <1>3, <1>4, <1>5, <1>6, <1>7 DEF Next, ThreadStep

-----------------------------------------------------------------------------
(* Type correctness *)

Places == {"none", "backlog", "gone"} \cup ThreadPoints

\* The types of what the master keeps; preflight, a Boolean, is apart.
Types ==
  /\ now \in 0..MaxTime
  /\ req \in [Requests -> Places]
  /\ held \in [Requests -> SUBSET Ids]
  /\ replay \in [Boots -> Entries]
  /\ passAt \in SUBSET (0..MaxTime)
  /\ master \in {"down", "up", "draining", "drained", "leaving"}
  /\ session \in 0..MaxSessions
  /\ code \in [1..MaxSessions -> {"none", "clean", "left", "unrecorded"}]
  /\ counter \in Nat
  /\ registry \subseteq [id: Ids, boot: Boots]
  /\ granted \subseteq Ids /\ escalated \subseteq Boots
  /\ given \subseteq Answers
  /\ mishaps \in 0..MaxMishaps

\* A lookup stores and answers what was stored, or an entry in flight.
LEMMA TypesLookup ==
  ASSUME FleetAssumption, Types, NEW r \in Requests, Lookup(r)
  PROVE  Types'
<1>0. r[1] \in Boots /\ Purged \in [Boots -> Entries] /\ InFlightEntry \in Entries
  BY RequestBoot, PurgedEntries, EntryTypes DEF Types
<1>1. UNCHANGED <<now, passAt, master, session, code, counter, registry, granted, escalated,
                  mishaps>>
  BY DEF Lookup, masterVars, graphVars
<1> HIDE DEF Purged, InFlightEntry
<1>2. req' \in [Requests -> Places]
  BY DEF Lookup, Types, Places, ThreadPoints, Minting
<1>3. replay' \in [Boots -> Entries]
  BY <1>0 DEF Lookup
<1>4. Purged[r[1]].id \in SUBSET Ids /\ Purged[r[1]].at \in 0..MaxTime
  BY <1>0 DEF Entries
<1>5. held' \in [Requests -> SUBSET Ids]
  BY <1>4 DEF Lookup, Types
<1>6. given' \subseteq Answers
  <2> DEFINE g == [boot |-> r[1], id |-> Purged[r[1]].id, at |-> now,
                   stored |-> Purged[r[1]].at]
  <2>1. g \in Answers
    BY <1>0, <1>4 DEF Answers, Types
  <2>2. given' = given \/ given' = given \cup {g}
    BY DEF Lookup
  <2> HIDE DEF g
  <2> QED
    BY <2>1, <2>2 DEF Types
<1> QED
  BY <1>1, <1>2, <1>3, <1>5, <1>6 DEF Types

\* A thread that tests, refuses, fails, grants or replies keeps the types.
LEMMA TypesMint ==
  ASSUME FleetAssumption, Types, NEW r \in Requests,
         TestPasses(r) \/ TestRefuses(r) \/ GraphError(r) \/ GrantAndStore(r)
  PROVE  Types'
<1>0. /\ r[1] \in Boots /\ NoEntry \in Entries /\ held[r] \in SUBSET Ids
      /\ now \in 0..MaxTime /\ mishaps \in 0..MaxMishaps /\ MaxMishaps \in Nat
      /\ session \in Nat /\ counter \in Nat
  BY RequestBoot, EntryTypes DEF Types, FleetAssumption
<1> HIDE DEF NoEntry
<1>1. CASE TestPasses(r)
  <2> DEFINE id == [session |-> session, n |-> counter]
             i == [id |-> id, boot |-> r[1]]
  <2>1. id \in Ids
    BY <1>0 DEF Ids
  <2>2. i \in [id: Ids, boot: Boots]
    BY <1>0, <2>1
  <2>3. /\ counter' = counter + 1 /\ registry' = registry \cup {i}
        /\ held' = [held EXCEPT ![r] = {id}]
    BY <1>1 DEF TestPasses, WriteInstance
  <2> HIDE DEF id, i
  <2>4. passAt' \in SUBSET (0..MaxTime)
    BY <1>0, <1>1 DEF TestPasses, Types
  <2>5. req' \in [Requests -> Places]
    BY <1>1 DEF TestPasses, Types, Places, ThreadPoints, Minting
  <2>6. held' \in [Requests -> SUBSET Ids] /\ registry' \subseteq [id: Ids, boot: Boots]
        /\ counter' \in Nat
    BY <1>0, <2>1, <2>2, <2>3 DEF Types
  <2>7. UNCHANGED <<now, replay, master, session, code, granted, escalated, given, mishaps>>
    BY <1>1 DEF TestPasses, masterVars
  <2> QED
    BY <2>4, <2>5, <2>6, <2>7 DEF Types
<1>2. CASE TestRefuses(r) \/ GraphError(r)
  <2>1. PICK how \in {"reply422", "gone"} : FailMint(r, how)
    BY <1>2 DEF TestRefuses, GraphError
  <2>2. req' \in [Requests -> Places]
    BY <2>1 DEF FailMint, Types, Places, ThreadPoints, Minting
  <2>3. held' \in [Requests -> SUBSET Ids] /\ replay' \in [Boots -> Entries]
    BY <1>0, <2>1 DEF FailMint, Types
  <2>4. UNCHANGED <<now, passAt, master, session, code, counter, registry, granted, given>>
    BY <1>2 DEF TestRefuses, GraphError, masterVars, graphVars
  <2>5. escalated' \subseteq Boots /\ mishaps' \in 0..MaxMishaps
    BY <1>0, <1>2 DEF TestRefuses, GraphError, Types, graphVars
  <2> QED
    BY <2>2, <2>3, <2>4, <2>5 DEF Types
<1>3. CASE GrantAndStore(r)
  <2> DEFINE e == [st |-> "answered", id |-> held[r], at |-> now]
             g == [boot |-> r[1], id |-> held[r], at |-> now, stored |-> now]
  <2>1. e \in Entries
    BY <1>0 DEF Entries
  <2>2. g \in Answers
    BY <1>0 DEF Answers
  <2>3. replay' = [replay EXCEPT ![r[1]] = e] /\ given' = given \cup {g}
    BY <1>3 DEF GrantAndStore
  <2> HIDE DEF e, g
  <2>4. replay' \in [Boots -> Entries] /\ given' \subseteq Answers
    BY <1>0, <2>1, <2>2, <2>3 DEF Types
  <2>5. req' \in [Requests -> Places] /\ granted' \subseteq Ids
    BY <1>0, <1>3 DEF GrantAndStore, Types, Places, ThreadPoints, Minting
  <2>6. UNCHANGED <<now, held, passAt, master, session, code, counter, registry, escalated,
                    mishaps>>
    BY <1>3 DEF GrantAndStore, masterVars
  <2> QED
    BY <2>4, <2>5, <2>6 DEF Types
<1> QED
  BY <1>1, <1>2, <1>3

\* The main thread's steps, the preflight's and the clock's keep the types.
LEMMA TypesMaster ==
  ASSUME FleetAssumption, Types,
         \/ Start \/ StopSignal \/ Drain \/ ShutDown \/ Crash \/ PreflightEnd \/ Tick
  PROVE  Types'
<1>0. /\ NoEntry \in Entries /\ now \in 0..MaxTime /\ MaxTime \in Nat
      /\ mishaps \in 0..MaxMishaps /\ MaxMishaps \in Nat /\ MaxSessions \in Nat
  BY EntryTypes DEF Types, FleetAssumption
<1> HIDE DEF NoEntry
<1>1. CASE Start
  BY <1>0, <1>1 DEF Start, Types
<1>2. CASE StopSignal
  <2>1. req' \in [Requests -> Places]
    BY <1>2 DEF StopSignal, Types, Places
  <2> QED
    BY <1>2, <2>1 DEF StopSignal, Types, graphVars
<1>3. CASE Drain
  BY <1>3 DEF Drain, Types, graphVars
<1>4. CASE ShutDown \/ Crash
  <2>1. ProcessGone
    BY <1>4 DEF ShutDown, Crash
  <2>2. /\ req' \in [Requests -> Places] /\ held' \in [Requests -> SUBSET Ids]
        /\ replay' \in [Boots -> Entries] /\ passAt' = {} /\ master' = "down"
    BY <1>0, <2>1 DEF ProcessGone, Types, Places
  <2>3. UNCHANGED <<now, session, counter, registry, granted, escalated, given>>
    BY <2>1 DEF ProcessGone, graphVars
  <2>4. mishaps' \in 0..MaxMishaps
    BY <1>0, <1>4 DEF ShutDown, Crash
  <2>5. code' \in [1..MaxSessions -> {"none", "clean", "left", "unrecorded"}]
    BY <1>4 DEF ShutDown, Crash, Types
  <2> QED
    BY <2>2, <2>3, <2>4, <2>5 DEF Types
<1>5. CASE PreflightEnd
  BY <1>0, <1>5 DEF PreflightEnd, Types, graphVars
<1>6. CASE Tick
  BY <1>0, <1>6 DEF Tick, Types, masterVars, graphVars
<1> QED
  BY <1>1, <1>2, <1>3, <1>4, <1>5, <1>6

\* Every step keeps the types of what the master keeps.
LEMMA TypesStep ==
  ASSUME FleetAssumption, Types, [Next]_vars
  PROVE  Types'
<1>1. ASSUME NEW b \in Boots, Send(b) \/ TransientFailure(b)
      PROVE  Types'
  <2>1. UNCHANGED <<now, held, replay, passAt, master, session, code, counter, registry,
                    granted, escalated, given, mishaps>>
    BY <1>1 DEF Send, TransientFailure, masterVars, graphVars
  <2>2. req' \in [Requests -> Places]
    BY <1>1 DEF Send, TransientFailure, Types, Places
  <2> QED
    BY <2>1, <2>2 DEF Types
<1>2. ASSUME NEW r \in Requests, Accept(r)
      PROVE  Types'
  BY <1>2 DEF Accept, Types, Places, ThreadPoints, masterVars, graphVars
<1>3. ASSUME NEW r \in Requests, Reply(r)
      PROVE  Types'
  <2>1. UNCHANGED <<now, replay, passAt, master, session, code, counter, registry,
                    granted, escalated, given, mishaps>>
    BY <1>3 DEF Reply, masterVars, graphVars
  <2>2. req' \in [Requests -> Places] /\ held' \in [Requests -> SUBSET Ids]
    BY <1>3 DEF Reply, Types, Places
  <2> QED
    BY <2>1, <2>2 DEF Types
<1>4. CASE UNCHANGED vars
  BY <1>4 DEF vars, Types, masterVars, graphVars
<1> QED
  BY <1>1, <1>2, <1>3, <1>4, TypesLookup, TypesMint, TypesMaster DEF Next, ThreadStep

-----------------------------------------------------------------------------
(* The inductive invariant *)

\* Threads and connections belong to a running master; one that is drained has
\* none, and one that is gone remembers nothing.
Quiet ==
  /\ \A r \in Requests : req[r] = "backlog" => master = "up"
  /\ \A r \in Requests : req[r] \in ThreadPoints => Running
  /\ master = "drained" => ~preflight /\ \A r \in Requests : req[r] \notin ThreadPoints
  /\ Running => session > 0
  /\ ~Running => \A b \in Boots : replay[b].st = "none"

\* One minter per boot id in flight, and none otherwise.
Flight ==
  /\ \A r, s \in Requests :
       (r[1] = s[1] /\ req[r] \in Minting /\ req[s] \in Minting) => r = s
  /\ \A b \in Boots :
       replay[b].st = "flight" <=> \E r \in Requests : r[1] = b /\ req[r] \in Minting

\* An answer names one instance, of this session or an earlier one, and was
\* given while what it repeats was alive.  A stored answer is one of this session
\* that was given when it was stored, and an answer of this session stays
\* stored for its lifetime.
OneOf(ids, s) == \E i \in Ids : ids = {i} /\ i.session = s

\* An answer of this session, still in its lifetime, in a running master.
Live(g) == Running /\ OneOf(g.id, session) /\ now < g.stored + Lifetime

Dated ==
  \A g \in given :
    /\ g.stored <= g.at /\ g.at <= now /\ g.at < g.stored + Lifetime
    /\ \E s \in 0..session : OneOf(g.id, s)
Named == \A r \in Requests : req[r] = "grant" => OneOf(held[r], session)
Stored ==
  \A b \in Boots :
    replay[b].st = "answered" =>
      /\ OneOf(replay[b].id, session)
      /\ \E g \in given : /\ g.boot = b /\ g.id = replay[b].id
                          /\ g.at = replay[b].at /\ g.stored = replay[b].at
Alive ==
  \A g \in given :
    Live(g) => /\ replay[g.boot].st = "answered"
               /\ replay[g.boot].id = g.id /\ replay[g.boot].at = g.stored

Remembered == Dated /\ Named /\ Stored /\ Alive

\* Instances have ids of their own.
Books ==
  /\ IsFiniteSet(registry)
  /\ \A i, j \in registry : i.id = j.id => i = j
  /\ \A i \in registry :
       i.id.session <= session /\ (i.id.session = session => i.id.n < counter)

\* The instances of the session that nobody was told of and nobody works on.
Loose == {i \in registry :
            /\ i.id.session = session
            /\ \A g \in given : i.id \notin g.id
            /\ \A r \in Requests : req[r] = "grant" => i.id \notin held[r]}

\* Each of them cost a fault; sessions that are over do not change.
Faults ==
  /\ Running => Cardinality(Loose) <= mishaps
  /\ \A s \in 1..MaxSessions :
       code[s] # "none" => s < session \/ (s = session /\ ~Running)

-----------------------------------------------------------------------------
(* Threads belong to a running master *)

\* A step of a request's thread.
OfThread(r) ==
  Lookup(r) \/ TestPasses(r) \/ TestRefuses(r) \/ GrantAndStore(r) \/ Reply(r) \/ GraphError(r)

\* A step of a thread moves its request only, and no step of the main thread.
LEMMA ThreadFrame ==
  ASSUME Types, NEW r \in Requests, OfThread(r)
  PROVE  /\ req[r] \in ThreadPoints
         /\ req'[r] \in ThreadPoints \cup {"gone"}
         /\ \A s \in Requests \ {r} : req'[s] = req[s] /\ held'[s] = held[s]
         /\ UNCHANGED <<now, master, session, code, preflight>>
<1>0. req \in [Requests -> Places] /\ held \in [Requests -> SUBSET Ids]
  BY DEF Types
<1>1. CASE Lookup(r)
  BY <1>0, <1>1 DEF Lookup, ThreadPoints, Minting, masterVars
<1>2. CASE TestPasses(r)
  BY <1>0, <1>2 DEF TestPasses, WriteInstance, ThreadPoints, Minting, masterVars
<1>3. CASE TestRefuses(r)
  BY <1>0, <1>3 DEF TestRefuses, FailMint, ThreadPoints, Minting, masterVars
<1>4. CASE GrantAndStore(r)
  BY <1>0, <1>4 DEF GrantAndStore, ThreadPoints, Minting, masterVars
<1>5. CASE Reply(r)
  BY <1>0, <1>5 DEF Reply, ThreadPoints, Minting, masterVars
<1>6. CASE GraphError(r)
  BY <1>0, <1>6 DEF GraphError, FailMint, ThreadPoints, Minting, masterVars
<1> QED
  BY <1>1, <1>2, <1>3, <1>4, <1>5, <1>6 DEF OfThread

\* Threads begin only in a master that listens, and end before it is drained or
\* with its process.
LEMMA QuietStep ==
  ASSUME FleetAssumption, Types, Quiet, [Next]_vars
  PROVE  Quiet'
<1>0. req \in [Requests -> Places] /\ session \in Nat
  BY DEF Types, FleetAssumption
<1>1. ASSUME NEW b \in Boots, Send(b)
      PROVE  Quiet'
  <2>1. /\ UNCHANGED <<replay, master, session, preflight>>
        /\ \A r \in Requests : \/ req'[r] = req[r]
                               \/ req'[r] = IF master = "up" THEN "backlog" ELSE "gone"
    BY <1>0, <1>1 DEF Send, masterVars
  <2> QED
    BY <2>1 DEF Quiet, Running, ThreadPoints, Minting
<1>2. ASSUME NEW b \in Boots, TransientFailure(b)
      PROVE  Quiet'
  BY <1>2 DEF TransientFailure, Quiet, Running, masterVars
<1>3. ASSUME NEW r \in Requests, Accept(r)
      PROVE  Quiet'
  <2>1. /\ UNCHANGED <<replay, master, session, preflight>> /\ master = "up"
        /\ \A s \in Requests : req'[s] = req[s] \/ req'[s] = "accepted"
    BY <1>0, <1>3 DEF Accept, masterVars
  <2> QED
    BY <2>1 DEF Quiet, Running
<1>4. ASSUME NEW r \in Requests, OfThread(r)
      PROVE  Quiet'
  <2>1. /\ req[r] \in ThreadPoints /\ req'[r] \in ThreadPoints \cup {"gone"}
        /\ \A s \in Requests \ {r} : req'[s] = req[s]
        /\ UNCHANGED <<master, session, preflight>>
    BY <1>4, ThreadFrame
  <2>2. Running /\ master # "drained" /\ req'[r] # "backlog"
    BY <2>1 DEF Quiet, ThreadPoints, Minting
  <2> QED
    BY <2>1, <2>2 DEF Quiet, Running
<1>5. CASE Start
  BY <1>0, <1>5 DEF Start, Quiet, Running
<1>6. CASE StopSignal
  BY <1>0, <1>6 DEF StopSignal, Quiet, Running, ThreadPoints, Minting
<1>7. CASE Drain
  BY <1>7 DEF Drain, Quiet, Running, InHand
<1>8. CASE ShutDown \/ Crash
  <2>1. ProcessGone
    BY <1>8 DEF ShutDown, Crash
  <2>2. NoEntry.st = "none"
    BY EntryTypes
  <2> HIDE DEF NoEntry
  <2> QED
    BY <2>1, <2>2 DEF ProcessGone, Quiet, Running, ThreadPoints, Minting
<1>9. CASE PreflightEnd
  BY <1>9 DEF PreflightEnd, Quiet, Running
<1>10. CASE Tick
  BY <1>10 DEF Tick, Quiet, Running, masterVars
<1>11. CASE UNCHANGED vars
  BY <1>11 DEF vars, Quiet, Running, masterVars
<1> QED
  BY <1>1, <1>2, <1>3, <1>4, <1>5, <1>6, <1>7, <1>8, <1>9, <1>10, <1>11
     DEF Next, ThreadStep, OfThread


\* An attempt that has not been made has no connection.
Unsent == \A r \in Requests : r[2] > agent[r[1]].attempt => req[r] = "none"

\* A request comes to be only when its attempt is made.
LEMMA UnsentStep ==
  ASSUME FleetAssumption, Types, Attempts, Unsent, [Next]_vars
  PROVE  Unsent'
<1>0. /\ req \in [Requests -> Places] /\ agent \in [Boots -> Loops]
      /\ \A b \in Boots : agent[b].attempt \in Nat
      /\ \A r \in Requests : r[1] \in Boots /\ r[2] \in Nat
  BY RequestBoot DEF Types, Attempts, Loops, FleetAssumption
\* The steps that make no attempt.
<1>s. ASSUME \A b \in Boots : agent'[b].attempt = agent[b].attempt,
             \A r \in Requests : req[r] = "none" => req'[r] = "none"
      PROVE  Unsent'
  BY <1>s, <1>0 DEF Unsent
<1>1. ASSUME NEW b \in Boots, Send(b)
      PROVE  Unsent'
  <2> DEFINE k == agent[b].attempt + 1
  <2>1. /\ \A r \in Requests : r # <<b, k>> => req'[r] = req[r]
        /\ agent'[b].attempt = k
        /\ \A c \in Boots \ {b} : agent'[c] = agent[c]
    BY <1>0, <1>1 DEF Send, Loops
  <2>2. k \in Nat /\ k > agent[b].attempt
    BY <1>0
  <2> HIDE DEF k
  <2>3. ASSUME NEW r \in Requests, r[2] > agent'[r[1]].attempt
        PROVE  req'[r] = "none"
    <3>1. CASE r[1] = b
      <4>1. r[2] > k /\ r # <<b, k>>
        BY <1>0, <2>1, <2>2, <2>3, <3>1
      <4> QED
        BY <1>0, <2>1, <2>2, <3>1, <4>1 DEF Unsent
    <3>2. CASE r[1] # b
      <4>1. r # <<b, k>> /\ agent'[r[1]] = agent[r[1]]
        BY <1>0, <2>1, <3>2
      <4> QED
        BY <2>1, <2>3, <4>1 DEF Unsent
    <3> QED
      BY <3>1, <3>2
  <2> QED
    BY <2>3 DEF Unsent
<1>2. ASSUME NEW b \in Boots, TransientFailure(b)
      PROVE  Unsent'
  <2>1. \A c \in Boots : agent'[c].attempt = agent[c].attempt
    BY <1>0, <1>2 DEF TransientFailure, Loops
  <2> QED
    BY <1>s, <1>2, <2>1 DEF TransientFailure
<1>3. ASSUME NEW r \in Requests, Accept(r)
      PROVE  Unsent'
  BY <1>0, <1>s, <1>3 DEF Accept
<1>4. ASSUME NEW r \in Requests, OfThread(r)
      PROVE  Unsent'
  <2>1. \A s \in Requests : req[s] = "none" => req'[s] = "none"
    BY <1>4, ThreadFrame DEF ThreadPoints, Minting
  <2>2. \A c \in Boots : agent'[c].attempt = agent[c].attempt
    <3>1. CASE Reply(r)
      <4>1. r[1] \in Boots
        BY <1>0
      <4> QED
        BY <1>0, <3>1, <4>1 DEF Reply, Loops
    <3>2. CASE ~Reply(r)
      BY <1>4, <3>2 DEF OfThread, GraphError, Lookup, TestPasses, TestRefuses, GrantAndStore
    <3> QED
      BY <3>1, <3>2
  <2> QED
    BY <1>s, <2>1, <2>2
<1>5. CASE Start \/ StopSignal \/ Drain \/ ShutDown \/ Crash \/ PreflightEnd \/ Tick
  <2>1. agent' = agent /\ \A s \in Requests : req[s] = "none" => req'[s] = "none"
    BY <1>0, <1>5
       DEF Start, StopSignal, Drain, ShutDown, Crash, ProcessGone, PreflightEnd, Tick
  <2> QED
    BY <1>s, <2>1
<1>6. CASE UNCHANGED vars
  BY <1>s, <1>6 DEF vars
<1> QED
  BY <1>1, <1>2, <1>3, <1>4, <1>5, <1>6 DEF Next, ThreadStep, OfThread

-----------------------------------------------------------------------------
(* One minter per boot id *)

\* What a thread's step does to the entries of the boot ids.
LEMMA FlightThread ==
  ASSUME FleetAssumption, Types, Flight, NEW r \in Requests, OfThread(r)
  PROVE  Flight'
<1>0. /\ req \in [Requests -> Places] /\ replay \in [Boots -> Entries]
      /\ r[1] \in Boots
      /\ \A s \in Requests \ {r} : req'[s] = req[s]
  BY ThreadFrame, RequestBoot DEF Types
<1>e. NoEntry.st = "none" /\ InFlightEntry.st = "flight"
  BY EntryTypes
<1>p. /\ Purged \in [Boots -> Entries]
      /\ \A b \in Boots : Purged[b].st = "flight" <=> replay[b].st = "flight"
  <2>1. \A b \in Boots : Expired(replay[b]) => replay[b].st # "flight"
    BY DEF Expired
  <2> QED
    BY <1>0, <2>1, PurgedEntries
<1> HIDE DEF NoEntry, InFlightEntry, Purged
<1>s. ASSUME req'[r] \in Minting <=> req[r] \in Minting,
             \A b \in Boots : replay'[b].st = "flight" <=> replay[b].st = "flight"
      PROVE  Flight'
  <2>1. \A s \in Requests : req'[s] \in Minting <=> req[s] \in Minting
    BY <1>0, <1>s
  <2> QED
    BY <1>s, <2>1 DEF Flight
<1>1. CASE Lookup(r)
  <2>0. req[r] \notin Minting
    BY <1>1 DEF Lookup, Minting
  <2>1. CASE /\ Purged[r[1]].st = "none"
             /\ req' = [req EXCEPT ![r] = "test"]
             /\ replay' = [Purged EXCEPT ![r[1]] = InFlightEntry]
    <3>1. replay[r[1]].st # "flight"
      BY <1>0, <1>p, <2>1
    <3>2. \A s \in Requests : s[1] = r[1] => req[s] \notin Minting
      BY <1>0, <3>1 DEF Flight
    <3>3. /\ req'[r] \in Minting /\ replay'[r[1]].st = "flight"
          /\ \A b \in Boots \ {r[1]} : replay'[b].st = "flight" <=> replay[b].st = "flight"
      BY <1>0, <1>e, <1>p, <2>1 DEF Minting
    <3> QED
      BY <1>0, <3>2, <3>3 DEF Flight
  <2>2. CASE req'[r] \in {"reply200", "waiting"} /\ replay' = Purged
    BY <1>0, <1>p, <1>s, <2>0, <2>2 DEF Minting
  <2> QED
    BY <1>0, <1>1, <2>1, <2>2 DEF Lookup
<1>2. CASE TestPasses(r)
  BY <1>0, <1>s, <1>2 DEF TestPasses, Minting
<1>3. CASE TestRefuses(r) \/ GraphError(r) \/ GrantAndStore(r)
  <2>1. req[r] \in Minting /\ req'[r] \notin Minting
    BY <1>0, <1>3 DEF TestRefuses, GraphError, GrantAndStore, FailMint, Minting
  <2>2. /\ replay'[r[1]].st # "flight"
        /\ \A b \in Boots \ {r[1]} : replay'[b] = replay[b]
    BY <1>0, <1>3, <1>e DEF TestRefuses, GraphError, GrantAndStore, FailMint
  <2>3. \A s \in Requests : s[1] = r[1] => req'[s] \notin Minting
    BY <1>0, <2>1 DEF Flight
  <2> QED
    BY <1>0, <2>1, <2>2, <2>3 DEF Flight
<1>4. CASE Reply(r)
  BY <1>0, <1>s, <1>4 DEF Reply, Minting
<1> QED
  BY <1>1, <1>2, <1>3, <1>4 DEF OfThread

\* The steps outside the threads move no minter, and a process takes its minters
\* and its replay store with it.
LEMMA FlightStep ==
  ASSUME FleetAssumption, Types, Attempts, Unsent, Flight, [Next]_vars
  PROVE  Flight'
<1>0. req \in [Requests -> Places] /\ replay \in [Boots -> Entries]
  BY DEF Types
<1>s. ASSUME \A r \in Requests : req'[r] \in Minting <=> req[r] \in Minting,
             replay' = replay
      PROVE  Flight'
  BY <1>s DEF Flight
<1>1. ASSUME NEW b \in Boots, Send(b)
      PROVE  Flight'
  <2> DEFINE k == agent[b].attempt + 1
             x == IF master = "up" THEN "backlog" ELSE "gone"
  <2>1. replay' = replay /\ req' = [req EXCEPT ![<<b, k>>] = x]
    BY <1>1 DEF Send
  <2>2. <<b, k>> \in Requests => req[<<b, k>>] = "none"
    <3>1. <<b, k>>[1] = b /\ <<b, k>>[2] = k /\ k > agent[b].attempt
      BY DEF Attempts, Loops
    <3> QED
      BY <3>1 DEF Unsent
  <2>3. x \in {"backlog", "gone"}
    OBVIOUS
  <2> HIDE DEF k, x
  <2>4. \A r \in Requests : req'[r] \in Minting <=> req[r] \in Minting
    BY <1>0, <2>1, <2>2, <2>3 DEF Minting
  <2> QED
    BY <1>s, <2>1, <2>4
<1>2. ASSUME NEW b \in Boots, TransientFailure(b)
      PROVE  Flight'
  BY <1>s, <1>2 DEF TransientFailure
<1>3. ASSUME NEW r \in Requests, Accept(r)
      PROVE  Flight'
  BY <1>0, <1>s, <1>3 DEF Accept, Minting
<1>5. CASE Start \/ Drain \/ PreflightEnd \/ Tick
  BY <1>s, <1>5 DEF Start, Drain, PreflightEnd, Tick
<1>6. CASE StopSignal
  BY <1>s, <1>6 DEF StopSignal, Minting
<1>7. CASE ShutDown \/ Crash
  <2>1. ProcessGone
    BY <1>7 DEF ShutDown, Crash
  <2>2. NoEntry.st = "none"
    BY EntryTypes
  <2> HIDE DEF NoEntry
  <2>3. /\ \A r \in Requests : req'[r] \notin Minting
        /\ \A b \in Boots : replay'[b].st = "none"
    BY <2>1, <2>2 DEF ProcessGone, Minting
  <2> QED
    BY <2>3 DEF Flight
<1>8. CASE UNCHANGED vars
  BY <1>s, <1>8 DEF vars
<1> QED
  BY <1>1, <1>2, <1>3, <1>5, <1>6, <1>7, <1>8, FlightThread DEF Next, ThreadStep, OfThread

-----------------------------------------------------------------------------
(* Answers and the replay store *)

\* A set that names one instance names it of one session.
LEMMA OneSession ==
  ASSUME NEW ids, NEW s, NEW t, OneOf(ids, s)
  PROVE  /\ OneOf(ids, t) => s = t
         /\ {i.session : i \in ids} = {s}
BY DEF OneOf

\* A thread looks the boot id up: it repeats a stored answer that is alive, or
\* finds none alive and mints.
LEMMA RememberedLookup ==
  ASSUME FleetAssumption, Types, Quiet, Remembered, AnswersAgree,
         NEW r \in Requests, Lookup(r)
  PROVE  Remembered' /\ AnswersAgree'
<1> DEFINE b == r[1]
<1>0. /\ b \in Boots /\ replay \in [Boots -> Entries] /\ given \subseteq Answers
      /\ req \in [Requests -> Places] /\ now \in Nat /\ Lifetime \in Nat
      /\ Running
  BY RequestBoot, ThreadFrame DEF Types, FleetAssumption, OfThread, Quiet
<1>1. Dated /\ Named /\ Stored /\ Alive
  BY DEF Remembered
<1>2. /\ UNCHANGED <<now, master, session>>
      /\ \A s \in Requests \ {r} : req'[s] = req[s] /\ held'[s] = held[s]
      /\ req'[r] # "grant"
  <2>1. req'[r] # "grant"
    BY <1>0 DEF Lookup
  <2> QED
    BY <2>1, ThreadFrame DEF OfThread
<1>3. Named'
  BY <1>1, <1>2 DEF Named
<1>p. \A c \in Boots : /\ Expired(replay[c]) => Purged[c].st = "none"
                       /\ ~Expired(replay[c]) => Purged[c] = replay[c]
  BY <1>0, PurgedEntries
<1>t. /\ \A c \in Boots : replay[c].at \in Nat
      /\ \A g \in given : g.boot \in Boots /\ g.at \in Nat /\ g.stored \in Nat
  BY <1>0 DEF Entries, Answers, Types, FleetAssumption
\* What is alive is not purged.
<1>4. ASSUME NEW g \in given, Live(g)
      PROVE  /\ Purged[g.boot].st = "answered"
             /\ Purged[g.boot].id = g.id /\ Purged[g.boot].at = g.stored
  <2>1. /\ replay[g.boot].st = "answered"
        /\ replay[g.boot].id = g.id /\ replay[g.boot].at = g.stored
    BY <1>1, <1>4 DEF Alive
  <2>2. ~Expired(replay[g.boot])
    BY <1>0, <1>t, <1>4, <2>1 DEF Live, Expired
  <2> QED
    BY <1>p, <1>t, <2>1, <2>2
<1>5. ASSUME NEW c \in Boots, Purged[c].st = "answered"
      PROVE  /\ Purged[c] = replay[c] /\ replay[c].st = "answered"
             /\ now < replay[c].at + Lifetime
  <2>1. ~Expired(replay[c])
    BY <1>p, <1>5
  <2> QED
    BY <1>0, <1>p, <1>t, <1>5, <2>1 DEF Expired
<1> HIDE DEF Purged
<1>6. CASE given' = given /\ replay' = Purged
  <2>1. Dated' /\ AnswersAgree'
    BY <1>1, <1>2, <1>6 DEF Dated, AnswersAgree
  <2>2. Stored'
    BY <1>1, <1>2, <1>5, <1>6 DEF Stored
  <2>3. Alive'
    BY <1>2, <1>4, <1>6 DEF Alive, Live, Running
  <2> QED
    BY <1>3, <2>1, <2>2, <2>3 DEF Remembered
<1>7. CASE /\ given' = given /\ Purged[b].st = "none"
           /\ replay' = [Purged EXCEPT ![b] = InFlightEntry]
  <2>e. InFlightEntry.st = "flight"
    BY EntryTypes
  <2> HIDE DEF InFlightEntry
  <2>0. /\ replay'[b].st = "flight"
        /\ \A c \in Boots \ {b} : replay'[c] = Purged[c]
    <3>1. Purged \in [Boots -> Entries]
      BY <1>0, PurgedEntries
    <3> QED
      BY <1>0, <1>7, <2>e, <3>1
  <2>1. Dated' /\ AnswersAgree'
    BY <1>1, <1>2, <1>7 DEF Dated, AnswersAgree
  <2>2. Stored'
    BY <1>1, <1>2, <1>5, <1>7, <2>0 DEF Stored
  <2>3. Alive'
    <3>1. \A g \in given : Live(g) => g.boot # b
      BY <1>4, <1>7
    <3> QED
      BY <1>2, <1>4, <1>7, <1>t, <2>0, <3>1 DEF Alive, Live, Running
  <2> QED
    BY <1>3, <2>1, <2>2, <2>3 DEF Remembered
<1>8. CASE /\ Purged[b].st = "answered" /\ replay' = Purged
           /\ given' = given \cup {[boot |-> b, id |-> Purged[b].id, at |-> now,
                                    stored |-> Purged[b].at]}
  <2>0. /\ Purged[b] = replay[b] /\ replay[b].st = "answered"
        /\ now < replay[b].at + Lifetime
    BY <1>0, <1>5, <1>8
  <2>1. PICK n : /\ n.boot = b /\ n.id = replay[b].id /\ n.at = now /\ n.stored = replay[b].at
                 /\ given' = given \cup {n}
    <3> DEFINE m == [boot |-> b, id |-> replay[b].id, at |-> now, stored |-> replay[b].at]
    <3>1. /\ m.boot = b /\ m.id = replay[b].id /\ m.at = now /\ m.stored = replay[b].at
          /\ given' = given \cup {m}
      BY <1>8, <2>0
    <3> HIDE DEF m
    <3> QED
      BY <3>1
  <2>2. PICK o \in given : /\ o.boot = b /\ o.id = n.id
                           /\ o.at = n.stored /\ o.stored = n.stored
    BY <1>0, <1>1, <2>0, <2>1 DEF Stored
  <2>3. OneOf(n.id, session) /\ session \in 0..session
    BY <1>0, <1>1, <2>0, <2>1 DEF Stored, Types
  <2>4. n.stored <= n.at /\ n.at <= now /\ n.at < n.stored + Lifetime
    BY <1>0, <1>1, <2>0, <2>1, <2>2 DEF Dated
  <2>5. Dated'
    BY <1>1, <1>2, <2>1, <2>3, <2>4 DEF Dated
  <2>6. Stored'
    BY <1>1, <1>2, <1>5, <1>8, <2>1 DEF Stored
  <2>7. Alive'
    <3>1. ASSUME NEW g \in given', Live(g)'
          PROVE  /\ replay'[g.boot].st = "answered"
                 /\ replay'[g.boot].id = g.id /\ replay'[g.boot].at = g.stored
      <4>1. CASE g = n
        BY <1>0, <1>8, <2>0, <2>1, <4>1
      <4>2. CASE g \in given
        <5>1. Live(g)
          BY <1>2, <3>1 DEF Live, Running
        <5> QED
          BY <1>4, <1>8, <4>2, <5>1
      <4> QED
        BY <2>1, <4>1, <4>2
    <3> QED
      BY <3>1 DEF Alive
  <2>8. AnswersAgree'
    <3>1. ASSUME NEW x \in given, x.boot = n.boot,
                 {i.session : i \in x.id} = {i.session : i \in n.id},
                 x.stored <= n.at, n.at < x.stored + Lifetime
          PROVE  x.id = n.id
      <4>1. PICK s \in 0..session : OneOf(x.id, s)
        BY <1>1 DEF Dated
      <4>2. OneOf(x.id, session)
        <5>1. {i.session : i \in x.id} = {s} /\ {i.session : i \in n.id} = {session}
          BY <2>3, <4>1, OneSession
        <5> QED
          BY <3>1, <4>1, <5>1
      <4>3. Live(x)
        BY <1>0, <2>1, <3>1, <4>2 DEF Live
      <4> QED
        BY <1>1, <2>1, <3>1, <4>3 DEF Alive
    <3>2. ASSUME NEW y \in given, n.boot = y.boot,
                 {i.session : i \in n.id} = {i.session : i \in y.id},
                 n.stored <= y.at, y.at < n.stored + Lifetime
          PROVE  n.id = y.id
      BY <2>1, <2>2, <3>2 DEF AnswersAgree
    <3> QED
      BY <2>1, <3>1, <3>2 DEF AnswersAgree
  <2> QED
    BY <1>3, <2>5, <2>6, <2>7, <2>8 DEF Remembered
<1> QED
  BY <1>6, <1>7, <1>8 DEF Lookup

\* The answers of the session, and the store, after an activation.
LEMMA RememberedGrant ==
  ASSUME FleetAssumption, Types, Quiet, Flight, Remembered, AnswersAgree,
         NEW r \in Requests, GrantAndStore(r)
  PROVE  Remembered' /\ AnswersAgree'
<1> DEFINE b == r[1]
<1>0. /\ b \in Boots /\ replay \in [Boots -> Entries] /\ given \subseteq Answers
      /\ req \in [Requests -> Places] /\ now \in Nat /\ Lifetime \in Nat /\ Lifetime > 0
      /\ Running /\ req[r] = "grant"
  <2>1. req[r] = "grant"
    BY DEF GrantAndStore
  <2>2. Running
    BY <2>1 DEF Quiet, ThreadPoints, Minting
  <2> QED
    BY <2>1, <2>2, RequestBoot DEF Types, FleetAssumption
<1>1. Dated /\ Named /\ Stored /\ Alive
  BY DEF Remembered
<1>2. /\ UNCHANGED <<now, master, session, held>>
      /\ \A s \in Requests \ {r} : req'[s] = req[s]
      /\ req'[r] = "reply200"
  BY <1>0 DEF GrantAndStore, masterVars
<1>3. Named'
  BY <1>1, <1>2 DEF Named
<1>4. PICK n : /\ n.boot = b /\ n.id = held[r] /\ n.at = now /\ n.stored = now
               /\ given' = given \cup {n}
  <2> DEFINE m == [boot |-> b, id |-> held[r], at |-> now, stored |-> now]
  <2>1. /\ m.boot = b /\ m.id = held[r] /\ m.at = now /\ m.stored = now
        /\ given' = given \cup {m}
    BY DEF GrantAndStore
  <2> HIDE DEF m
  <2> QED
    BY <2>1
<1>5. /\ replay'[b].st = "answered" /\ replay'[b].id = held[r] /\ replay'[b].at = now
      /\ \A c \in Boots \ {b} : replay'[c] = replay[c]
  BY <1>0 DEF GrantAndStore
<1>6. OneOf(held[r], session) /\ session \in 0..session
  BY <1>0, <1>1 DEF Named, Types
\* Nothing of this boot id is alive: it is in flight.
<1>7. ASSUME NEW g \in given, g.boot = b
      PROVE  ~Live(g)
  <2>1. replay[b].st = "flight"
    BY <1>0 DEF Flight, Minting
  <2> QED
    BY <1>1, <1>7, <2>1 DEF Alive
<1>8. Dated'
  BY <1>0, <1>1, <1>2, <1>4, <1>6 DEF Dated
<1>9. Stored'
  BY <1>1, <1>2, <1>4, <1>5, <1>6 DEF Stored
<1>t. \A g \in given : g.boot \in Boots /\ g.at \in Nat /\ g.stored \in Nat
  BY <1>0 DEF Answers
<1>10. Alive'
  <2>1. ASSUME NEW g \in given', Live(g)'
        PROVE  /\ replay'[g.boot].st = "answered"
               /\ replay'[g.boot].id = g.id /\ replay'[g.boot].at = g.stored
    <3>1. CASE g = n
      BY <1>4, <1>5, <3>1
    <3>2. CASE g \in given
      <4>1. Live(g)
        BY <1>2, <2>1 DEF Live, Running
      <4>2. g.boot # b
        BY <1>7, <3>2, <4>1
      <4> QED
        BY <1>1, <1>5, <1>t, <3>2, <4>1, <4>2 DEF Alive
    <3> QED
      BY <1>4, <3>1, <3>2
  <2> QED
    BY <2>1 DEF Alive
<1>11. AnswersAgree'
  \* No earlier answer of the boot and session is in its lifetime now.
  <2>0. ASSUME NEW g \in given, g.boot = b,
               {i.session : i \in g.id} = {i.session : i \in n.id}
        PROVE  ~(now < g.stored + Lifetime)
    <3>1. PICK s \in 0..session : OneOf(g.id, s)
      BY <1>1 DEF Dated
    <3>2. OneOf(g.id, session)
      <4>1. {i.session : i \in g.id} = {s} /\ {i.session : i \in n.id} = {session}
        BY <1>4, <1>6, <3>1, OneSession
      <4> QED
        BY <2>0, <3>1, <4>1
    <3> QED
      BY <1>0, <1>7, <2>0, <3>2 DEF Live
  <2>1. ASSUME NEW x \in given, x.boot = n.boot,
               {i.session : i \in x.id} = {i.session : i \in n.id},
               x.stored <= n.at, n.at < x.stored + Lifetime
        PROVE  x.id = n.id
    BY <1>4, <2>0, <2>1
  <2>2. ASSUME NEW y \in given, n.boot = y.boot,
               {i.session : i \in n.id} = {i.session : i \in y.id},
               n.stored <= y.at, y.at < n.stored + Lifetime
        PROVE  n.id = y.id
    <3>1. y.at = now
      BY <1>0, <1>1, <1>4, <1>t, <2>2 DEF Dated
    <3>2. now < y.stored + Lifetime
      BY <1>1, <3>1 DEF Dated
    <3>3. {i.session : i \in y.id} = {i.session : i \in n.id}
      BY <2>2
    <3> QED
      BY <1>4, <2>0, <2>2, <3>2, <3>3
  <2> QED
    BY <1>4, <2>1, <2>2 DEF AnswersAgree
<1> QED
  BY <1>3, <1>8, <1>9, <1>10, <1>11 DEF Remembered

\* A thread that mints, refuses, fails or replies, without a new answer.
LEMMA RememberedThread ==
  ASSUME FleetAssumption, Types, Quiet, Flight, Remembered, AnswersAgree,
         NEW r \in Requests, TestPasses(r) \/ TestRefuses(r) \/ GraphError(r) \/ Reply(r)
  PROVE  Remembered' /\ AnswersAgree'
<1>0. /\ r[1] \in Boots /\ replay \in [Boots -> Entries]
      /\ req \in [Requests -> Places] /\ held \in [Requests -> SUBSET Ids]
      /\ session \in Nat /\ counter \in Nat
  BY RequestBoot DEF Types, FleetAssumption
<1>1. Dated /\ Named /\ Stored /\ Alive
  BY DEF Remembered
<1>2. /\ UNCHANGED <<now, master, session>> /\ given' = given
      /\ \A s \in Requests \ {r} : req'[s] = req[s] /\ held'[s] = held[s]
  <2>1. given' = given
    BY DEF TestPasses, TestRefuses, GraphError, Reply
  <2> QED
    BY <2>1, ThreadFrame DEF OfThread
<1>3. Dated' /\ AnswersAgree'
  BY <1>1, <1>2 DEF Dated, AnswersAgree
<1>4. Named'
  <2>1. req'[r] = "grant" => OneOf(held'[r], session)
    <3>1. CASE TestPasses(r)
      <4> DEFINE id == [session |-> session, n |-> counter]
      <4>1. held'[r] = {id} /\ id \in Ids /\ id.session = session
        BY <1>0, <3>1 DEF TestPasses, WriteInstance, Ids
      <4> HIDE DEF id
      <4> QED
        BY <4>1 DEF OneOf
    <3>2. CASE TestRefuses(r) \/ GraphError(r) \/ Reply(r)
      BY <1>0, <3>2 DEF TestRefuses, GraphError, Reply, FailMint
    <3> QED
      BY <3>1, <3>2
  <2> QED
    BY <1>1, <1>2, <2>1 DEF Named
<1>5. CASE TestPasses(r) \/ Reply(r)
  <2>1. replay' = replay
    BY <1>5 DEF TestPasses, Reply
  <2>2. Stored' /\ Alive'
    BY <1>1, <1>2, <2>1 DEF Stored, Alive, Live, Running
  <2> QED
    BY <1>3, <1>4, <2>2 DEF Remembered
<1>6. CASE TestRefuses(r) \/ GraphError(r)
  <2>e. NoEntry.st = "none"
    BY EntryTypes
  <2> HIDE DEF NoEntry
  <2>1. /\ replay'[r[1]].st = "none" /\ \A c \in Boots \ {r[1]} : replay'[c] = replay[c]
        /\ req[r] \in Minting
    BY <1>0, <1>6, <2>e DEF TestRefuses, GraphError, FailMint, Minting
  <2>2. replay[r[1]].st = "flight"
    BY <1>0, <2>1 DEF Flight
  <2>3. Stored'
    BY <1>1, <1>2, <2>1 DEF Stored
  <2>4. Alive'
    <3>1. \A g \in given : g.boot \in Boots
      BY DEF Types, Answers
    <3>2. \A g \in given : Live(g) => g.boot # r[1]
      BY <1>1, <2>2 DEF Alive
    <3>3. \A g \in given : Live(g)' <=> Live(g)
      BY <1>2 DEF Live, Running
    <3> QED
      BY <1>1, <1>2, <2>1, <3>1, <3>2, <3>3 DEF Alive
  <2> QED
    BY <1>3, <1>4, <2>3, <2>4 DEF Remembered
<1> QED
  BY <1>5, <1>6

\* The other steps answer nothing: they let answers age, forget them with the
\* process, or begin a session that has given none.
LEMMA RememberedOther ==
  ASSUME FleetAssumption, Types, Attempts, Unsent, Quiet, Remembered, AnswersAgree,
         \/ \E b \in Boots : Send(b) \/ TransientFailure(b)
         \/ \E r \in Requests : Accept(r)
         \/ Start \/ StopSignal \/ Drain \/ ShutDown \/ Crash \/ PreflightEnd \/ Tick
         \/ UNCHANGED vars
  PROVE  Remembered' /\ AnswersAgree'
<1>0. /\ req \in [Requests -> Places] /\ replay \in [Boots -> Entries]
      /\ now \in Nat /\ session \in Nat /\ Lifetime \in Nat
      /\ \A g \in given : g.boot \in Boots /\ g.at \in Nat /\ g.stored \in Nat
  BY DEF Types, FleetAssumption, Answers
<1>1. Dated /\ Named /\ Stored /\ Alive
  BY DEF Remembered
<1>g. given' = given
  BY DEF Send, TransientFailure, Accept, Start, StopSignal, Drain, ShutDown, Crash,
     ProcessGone, PreflightEnd, Tick, vars
<1>a. AnswersAgree'
  BY <1>g DEF AnswersAgree
\* The steps that leave clock, session and store alone, and grant nothing.
<1>s. ASSUME UNCHANGED <<now, session, replay, held>>, master' # "down" => master # "down",
             \A r \in Requests : req'[r] = "grant" => req[r] = "grant"
      PROVE  Remembered'
  <2>1. Dated' /\ Named' /\ Stored'
    BY <1>1, <1>g, <1>s DEF Dated, Named, Stored
  <2>2. Alive'
    BY <1>1, <1>g, <1>s DEF Alive, Live, Running
  <2> QED
    BY <2>1, <2>2 DEF Remembered
<1>2. ASSUME NEW b \in Boots, Send(b) \/ TransientFailure(b)
      PROVE  Remembered'
  <2>1. \A r \in Requests : req'[r] = "grant" => req[r] = "grant"
    BY <1>0, <1>2 DEF Send, TransientFailure
  <2> QED
    BY <1>2, <1>s, <2>1 DEF Send, TransientFailure, masterVars, Running
<1>3. ASSUME NEW r \in Requests, Accept(r)
      PROVE  Remembered'
  BY <1>0, <1>3, <1>s DEF Accept, masterVars, Running
<1>4. CASE StopSignal \/ Drain \/ PreflightEnd
  <2>1. \A r \in Requests : req'[r] = "grant" => req[r] = "grant"
    BY <1>4 DEF StopSignal, Drain, PreflightEnd
  <2>2. UNCHANGED <<now, session, replay, held>> /\ (master' # "down" => master # "down")
    BY <1>4 DEF StopSignal, Drain, PreflightEnd
  <2> QED
    BY <1>a, <1>s, <2>1, <2>2
<1>5. CASE UNCHANGED vars
  BY <1>a, <1>5, <1>s DEF vars, masterVars, Running
<1>6. CASE ShutDown \/ Crash
  <2>1. ProcessGone
    BY <1>6 DEF ShutDown, Crash
  <2>2. NoEntry.st = "none"
    BY EntryTypes
  <2> HIDE DEF NoEntry
  <2>3. /\ UNCHANGED <<now, session>> /\ master' = "down"
        /\ \A r \in Requests : req'[r] # "grant"
        /\ \A b \in Boots : replay'[b].st = "none"
    BY <2>1, <2>2 DEF ProcessGone
  <2>4. Dated' /\ Named' /\ Stored' /\ Alive'
    BY <1>1, <1>g, <2>3 DEF Dated, Named, Stored, Alive, Live, Running
  <2> QED
    BY <1>a, <2>4 DEF Remembered
<1>7. CASE Tick
  <2>1. /\ now' = now + 1 /\ UNCHANGED <<session, master, req, held, replay>>
    BY <1>7 DEF Tick, masterVars
  <2>2. Named' /\ Stored'
    BY <1>1, <1>g, <2>1 DEF Named, Stored
  <2>3. Dated'
    BY <1>0, <1>1, <1>g, <2>1 DEF Dated
  <2>4. Alive'
    <3>1. \A g \in given : Live(g)' => Live(g)
      BY <1>0, <2>1 DEF Live, Running
    <3> QED
      BY <1>1, <1>g, <2>1, <3>1 DEF Alive
  <2> QED
    BY <1>a, <2>2, <2>3, <2>4 DEF Remembered
<1>8. CASE Start
  <2>1. /\ session' = session + 1 /\ UNCHANGED <<now, req, held, replay>> /\ ~Running
    BY <1>8 DEF Start, Running
  <2>2. /\ \A r \in Requests : req[r] # "grant"
        /\ \A b \in Boots : replay[b].st = "none"
    BY <2>1 DEF Quiet, ThreadPoints, Minting
  <2>3. Named' /\ Stored'
    BY <2>1, <2>2 DEF Named, Stored
  <2>4. 0..session \subseteq 0..(session + 1)
    BY <1>0
  <2>5. Dated'
    BY <1>1, <1>g, <2>1, <2>4 DEF Dated
  <2>6. Alive'
    <3>1. ASSUME NEW g \in given
          PROVE  ~OneOf(g.id, session + 1)
      <4>1. PICK s \in 0..session : OneOf(g.id, s)
        BY <1>1 DEF Dated
      <4>2. s # session + 1
        BY <1>0
      <4> QED
        BY <4>1, <4>2, OneSession
    <3> QED
      BY <1>g, <2>1, <3>1 DEF Alive, Live
  <2> QED
    BY <1>a, <2>3, <2>5, <2>6 DEF Remembered
<1> QED
  BY <1>a, <1>2, <1>3, <1>4, <1>5, <1>6, <1>7, <1>8

-----------------------------------------------------------------------------
(* Instances and the faults they cost *)

\* Only a mint writes an instance, and a start begins to count anew.
LEMMA RegistryFrame ==
  ASSUME [Next]_vars
  PROVE  \/ \E r \in Requests : TestPasses(r)
         \/ Start
         \/ UNCHANGED <<session, counter, registry>>
<1>1. ASSUME NEW b \in Boots, Send(b) \/ TransientFailure(b)
      PROVE  UNCHANGED <<session, counter, registry>>
  BY <1>1 DEF Send, TransientFailure, masterVars, graphVars
<1>2. ASSUME NEW r \in Requests,
             \/ Accept(r) \/ GraphError(r) \/ Lookup(r) \/ TestRefuses(r)
             \/ GrantAndStore(r) \/ Reply(r)
      PROVE  UNCHANGED <<session, counter, registry>>
  BY <1>2 DEF Accept, GraphError, Lookup, TestRefuses, GrantAndStore, Reply, masterVars,
     graphVars
<1>3. ASSUME StopSignal \/ Drain \/ ShutDown \/ Crash \/ PreflightEnd \/ Tick
      PROVE  UNCHANGED <<session, counter, registry>>
  BY <1>3 DEF StopSignal, Drain, ShutDown, Crash, ProcessGone, PreflightEnd, Tick,
     masterVars, graphVars
<1>4. ASSUME UNCHANGED vars
      PROVE  UNCHANGED <<session, counter, registry>>
  BY <1>4 DEF vars
<1> QED
  BY <1>1, <1>2, <1>3, <1>4 DEF Next, ThreadStep

\* next_instance_id names no instance twice.
LEMMA BooksStep ==
  ASSUME FleetAssumption, Types, Books, [Next]_vars
  PROVE  Books'
<1>0. /\ session \in Nat /\ counter \in Nat
      /\ \A i \in registry : i.id \in Ids /\ i.id.session \in Nat /\ i.id.n \in Nat
  BY DEF Types, FleetAssumption, Ids
<1>1. ASSUME NEW r \in Requests, TestPasses(r)
      PROVE  Books'
  <2> DEFINE d == [session |-> session, n |-> counter]
             x == [id |-> d, boot |-> r[1]]
  <2>1. /\ registry' = registry \cup {x} /\ counter' = counter + 1 /\ session' = session
        /\ x.id = d /\ d.session = session /\ d.n = counter
    BY <1>1 DEF TestPasses, WriteInstance, masterVars
  <2> HIDE DEF d, x
  <2>2. IsFiniteSet(registry')
    BY <2>1, FS_AddElement, Zenon DEF Books
  <2>3. \A i \in registry : i.id # d
    BY <1>0, <2>1 DEF Books
  <2>4. \A i, j \in registry' : i.id = j.id => i = j
    BY <2>1, <2>3 DEF Books
  <2>5. \A i \in registry' :
          i.id.session <= session' /\ (i.id.session = session' => i.id.n < counter')
    <3>1. \A i \in registry :
            i.id.session <= session /\ (i.id.session = session => i.id.n < counter + 1)
      BY <1>0 DEF Books
    <3>2. session <= session /\ counter < counter + 1
      BY <1>0
    <3> QED
      BY <2>1, <3>1, <3>2
  <2> QED
    BY <2>2, <2>4, <2>5 DEF Books
<1>2. CASE Start
  <2>1. session' = session + 1 /\ registry' = registry
    BY <1>2 DEF Start
  <2>2. \A i \in registry : i.id.session <= session + 1 /\ i.id.session # session + 1
    BY <1>0 DEF Books
  <2> QED
    BY <2>1, <2>2 DEF Books
<1>3. CASE UNCHANGED <<session, counter, registry>>
  BY <1>3 DEF Books
<1> QED
  BY <1>1, <1>2, <1>3, RegistryFrame

\* An instance that is loose was loose before, unless a graph error cut off the
\* thread that worked with it.
LEMMA LooseFrame ==
  ASSUME FleetAssumption, Types, Attempts, Unsent, [Next]_vars, ~Start,
         master' # "down"
  PROVE  \/ Loose' \subseteq Loose
         \/ \E r \in Requests : GraphError(r)
<1>0. /\ req \in [Requests -> Places] /\ held \in [Requests -> SUBSET Ids]
  BY DEF Types
\* What makes an instance of the session stay told or held.
<1>s. ASSUME session' = session, registry' = registry, given \subseteq given',
             \A s \in Requests : req[s] = "grant" => req'[s] = "grant" /\ held'[s] = held[s]
      PROVE  Loose' \subseteq Loose
  BY <1>s DEF Loose
<1>1. ASSUME NEW b \in Boots, Send(b)
      PROVE  Loose' \subseteq Loose
  <2> DEFINE k == agent[b].attempt + 1
  <2>1. /\ session' = session /\ registry' = registry /\ given' = given /\ held' = held
        /\ req' = [req EXCEPT ![<<b, k>>] = IF master = "up" THEN "backlog" ELSE "gone"]
    BY <1>1 DEF Send, masterVars, graphVars
  <2>2. agent[b].attempt \in Nat
    BY DEF Attempts, Loops
  <2>3. k > agent[b].attempt
    BY <2>2
  <2> HIDE DEF k
  <2>4. \A s \in Requests : s = <<b, k>> => req[s] # "grant"
    BY <2>3 DEF Unsent
  <2>5. \A s \in Requests : req[s] = "grant" => req'[s] = "grant"
    BY <1>0, <2>1, <2>4
  <2> QED
    BY <1>s, <2>1, <2>5
<1>2. ASSUME NEW b \in Boots, TransientFailure(b)
      PROVE  Loose' \subseteq Loose
  BY <1>2, <1>s DEF TransientFailure, masterVars, graphVars
<1>3. ASSUME NEW r \in Requests, Accept(r)
      PROVE  Loose' \subseteq Loose
  <2>1. /\ session' = session /\ registry' = registry /\ given' = given /\ held' = held
        /\ \A s \in Requests : req[s] = "grant" => req'[s] = "grant"
    BY <1>0, <1>3 DEF Accept, masterVars, graphVars
  <2> QED
    BY <1>s, <2>1
<1>4. ASSUME NEW r \in Requests, Lookup(r) \/ TestRefuses(r) \/ Reply(r)
      PROVE  Loose' \subseteq Loose
  <2>1. req[r] # "grant"
    BY <1>4 DEF Lookup, TestRefuses, Reply
  <2>2. \A s \in Requests \ {r} : req'[s] = req[s] /\ held'[s] = held[s]
    BY <1>4, ThreadFrame DEF OfThread
  <2>3. session' = session /\ registry' = registry /\ given \subseteq given'
    BY <1>4 DEF Lookup, TestRefuses, Reply, masterVars, graphVars
  <2> QED
    BY <1>s, <2>1, <2>2, <2>3
<1>5. ASSUME NEW r \in Requests, TestPasses(r)
      PROVE  Loose' \subseteq Loose
  <2> DEFINE d == [session |-> session, n |-> counter]
             x == [id |-> d, boot |-> r[1]]
  <2>1. /\ registry' = registry \cup {x} /\ session' = session /\ given' = given
        /\ x.id = d /\ held'[r] = {d} /\ req[r] = "test" /\ req'[r] = "grant"
    BY <1>0, <1>5 DEF TestPasses, WriteInstance, masterVars
  <2>2. \A s \in Requests \ {r} : req'[s] = req[s] /\ held'[s] = held[s]
    BY <1>5, ThreadFrame DEF OfThread
  <2> HIDE DEF d, x
  <2>3. x \notin Loose'
    BY <2>1 DEF Loose
  <2>4. ASSUME NEW i \in Loose'
        PROVE  i \in Loose
    <3>1. i \in registry'
      BY DEF Loose
    <3>2. i \in registry
      BY <2>1, <2>3, <3>1
    <3>3. \A s \in Requests : req[s] = "grant" => s # r
      BY <2>1
    <3>4. \A s \in Requests : req[s] = "grant" => i.id \notin held[s]
      BY <2>2, <2>4, <3>3 DEF Loose
    <3>5. i.id.session = session /\ \A g \in given : i.id \notin g.id
      BY <2>1, <2>4 DEF Loose
    <3> QED
      BY <3>2, <3>4, <3>5 DEF Loose
  <2> QED
    BY <2>4
<1>6. ASSUME NEW r \in Requests, GrantAndStore(r)
      PROVE  Loose' \subseteq Loose
  <2> DEFINE a == [boot |-> r[1], id |-> held[r], at |-> now, stored |-> now]
  <2>1. /\ registry' = registry /\ session' = session /\ given' = given \cup {a}
        /\ a.id = held[r]
    BY <1>6 DEF GrantAndStore, masterVars
  <2>2. \A s \in Requests \ {r} : req'[s] = req[s] /\ held'[s] = held[s]
    BY <1>6, ThreadFrame DEF OfThread
  <2> HIDE DEF a
  <2>3. ASSUME NEW i \in Loose'
        PROVE  i \in Loose
    <3>1. /\ i \in registry /\ i.id.session = session
          /\ i.id \notin held[r] /\ \A g \in given : i.id \notin g.id
      BY <2>1, <2>3 DEF Loose
    <3>2. \A s \in Requests : req[s] = "grant" => i.id \notin held[s]
      BY <2>2, <2>3, <3>1 DEF Loose
    <3> QED
      BY <3>1, <3>2 DEF Loose
  <2> QED
    BY <2>3
<1>7. CASE StopSignal \/ Drain \/ PreflightEnd \/ Tick
  <2>1. /\ session' = session /\ registry' = registry /\ given' = given /\ held' = held
        /\ \A s \in Requests : req[s] = "grant" => req'[s] = "grant"
    BY <1>0, <1>7 DEF StopSignal, Drain, PreflightEnd, Tick, masterVars, graphVars
  <2> QED
    BY <1>s, <2>1
<1>8. ASSUME ShutDown \/ Crash
      PROVE  FALSE
  BY <1>8 DEF ShutDown, Crash, ProcessGone
<1>9. CASE UNCHANGED vars
  BY <1>9, <1>s DEF vars
<1> QED
  BY <1>1, <1>2, <1>3, <1>4, <1>5, <1>6, <1>7, <1>8, <1>9 DEF Next, ThreadStep

\* What was answered stays answered.
LEMMA GivenGrows ==
  ASSUME [Next]_vars
  PROVE  given \subseteq given'
<1>1. ASSUME NEW b \in Boots, Send(b) \/ TransientFailure(b)
      PROVE  given' = given
  BY <1>1 DEF Send, TransientFailure
<1>2. ASSUME NEW r \in Requests,
             \/ Accept(r) \/ TestPasses(r) \/ TestRefuses(r) \/ Reply(r) \/ GraphError(r)
      PROVE  given' = given
  BY <1>2 DEF Accept, TestPasses, TestRefuses, Reply, GraphError
<1>3. ASSUME NEW r \in Requests, Lookup(r) \/ GrantAndStore(r)
      PROVE  given \subseteq given'
  BY <1>3 DEF Lookup, GrantAndStore
<1>4. ASSUME \/ Start \/ StopSignal \/ Drain \/ ShutDown \/ Crash \/ PreflightEnd \/ Tick
             \/ UNCHANGED vars
      PROVE  given' = given
  BY <1>4 DEF Start, StopSignal, Drain, ShutDown, Crash, ProcessGone, PreflightEnd, Tick,
     vars
<1> QED
  BY <1>1, <1>2, <1>3, <1>4 DEF Next, ThreadStep

\* A set that gains nothing, or one element, gains at most as much in number.
LEMMA SubsetCard ==
  ASSUME NEW S, NEW T, IsFiniteSet(S), T \subseteq S
  PROVE  /\ Cardinality(T) \in Nat /\ Cardinality(S) \in Nat
         /\ Cardinality(T) <= Cardinality(S)
<1>1. IsFiniteSet(T) /\ Cardinality(T) <= Cardinality(S)
  BY FS_Subset, Zenon
<1> QED
  BY <1>1, FS_CardinalityType, Zenon

\* One element more adds one at most.
LEMMA AddedCard ==
  ASSUME NEW S, NEW T, NEW x, IsFiniteSet(S), T \subseteq S \cup {x}
  PROVE  /\ Cardinality(T) \in Nat /\ Cardinality(S) \in Nat
         /\ Cardinality(T) <= Cardinality(S) + 1
<1>1. IsFiniteSet(S \cup {x})
  BY FS_AddElement, Zenon
<1>2. /\ Cardinality(T) \in Nat /\ Cardinality(S \cup {x}) \in Nat
      /\ Cardinality(T) <= Cardinality(S \cup {x})
  BY <1>1, SubsetCard, Zenon
<1>3. Cardinality(S) \in Nat
  BY FS_CardinalityType, Zenon
<1>4. \/ Cardinality(S \cup {x}) = Cardinality(S)
      \/ Cardinality(S \cup {x}) = Cardinality(S) + 1
  BY FS_AddElement, Zenon
<1> QED
  BY <1>2, <1>3, <1>4

\* A graph error costs a fault and cuts one thread off, which worked with one
\* instance at most.
LEMMA GraphErrorCosts ==
  ASSUME FleetAssumption, Types, Remembered, Books, Faults, Running,
         NEW r \in Requests, GraphError(r)
  PROVE  Cardinality(Loose') <= mishaps'
<1>0. req \in [Requests -> Places] /\ mishaps \in Nat
  BY DEF Types, FleetAssumption
<1>1. /\ session' = session /\ registry' = registry /\ given' = given
      /\ mishaps' = mishaps + 1
  BY DEF GraphError, masterVars, graphVars
<1>2. \A s \in Requests \ {r} : req'[s] = req[s] /\ held'[s] = held[s]
  BY ThreadFrame DEF OfThread
<1>3. PICK h : req[r] = "grant" => held[r] = {h}
  BY DEF Remembered, Named, OneOf
<1>4. PICK x : \A i \in registry : i.id = h => i = x
  BY DEF Books
<1>5. Loose' \subseteq Loose \cup {x}
  <2>1. ASSUME NEW i \in Loose', i # x
        PROVE  i \in Loose
    <3>1. i \in registry /\ i.id.session = session /\ \A g \in given : i.id \notin g.id
      BY <1>1, <2>1 DEF Loose
    <3>2. req[r] = "grant" => i.id \notin held[r]
      BY <1>3, <1>4, <2>1, <3>1
    <3>3. \A s \in Requests : req[s] = "grant" => i.id \notin held[s]
      BY <1>2, <2>1, <3>2 DEF Loose
    <3> QED
      BY <3>1, <3>3 DEF Loose
  <2> QED
    BY <2>1
<1>6. IsFiniteSet(Loose)
  BY FS_Subset, Zenon DEF Books, Loose
<1>7. /\ Cardinality(Loose') \in Nat /\ Cardinality(Loose) \in Nat
      /\ Cardinality(Loose') <= Cardinality(Loose) + 1
  BY <1>5, <1>6, AddedCard, Zenon
<1>8. Cardinality(Loose) <= mishaps
  BY DEF Faults
<1> QED
  BY <1>0, <1>1, <1>7, <1>8

\* No step takes a fault back.
LEMMA MishapsGrow ==
  ASSUME FleetAssumption, Types, [Next]_vars
  PROVE  mishaps \in Nat /\ mishaps' \in Nat /\ mishaps <= mishaps'
<1>0. mishaps \in Nat
  BY DEF Types, FleetAssumption
<1>1. ASSUME NEW b \in Boots, Send(b) \/ TransientFailure(b)
      PROVE  mishaps' = mishaps
  BY <1>1 DEF Send, TransientFailure
<1>2. ASSUME NEW r \in Requests,
             \/ Accept(r) \/ Lookup(r) \/ TestPasses(r) \/ TestRefuses(r)
             \/ GrantAndStore(r) \/ Reply(r)
      PROVE  mishaps' = mishaps
  BY <1>2 DEF Accept, Lookup, TestPasses, TestRefuses, GrantAndStore, Reply
<1>3. ASSUME NEW r \in Requests, GraphError(r)
      PROVE  mishaps' = mishaps + 1
  BY <1>3 DEF GraphError
<1>4. ASSUME Start \/ StopSignal \/ Drain \/ PreflightEnd \/ Tick \/ UNCHANGED vars
      PROVE  mishaps' = mishaps
  BY <1>4 DEF Start, StopSignal, Drain, PreflightEnd, Tick, vars
<1>5. ASSUME ShutDown \/ Crash
      PROVE  mishaps' = mishaps \/ mishaps' = mishaps + 1
  BY <1>5 DEF ShutDown, Crash
<1>6. mishaps' = mishaps \/ mishaps' = mishaps + 1
  BY <1>1, <1>2, <1>3, <1>4, <1>5 DEF Next, ThreadStep
<1> QED
  BY <1>0, <1>6

\* Only a shutdown writes how the session ended, and only a start begins one.
LEMMA CodeFrame ==
  ASSUME [Next]_vars
  PROVE  \/ UNCHANGED <<code, session>> /\ (master = "down" => master' = "down")
         \/ ShutDown \/ Start
<1>1. ASSUME NEW b \in Boots, Send(b) \/ TransientFailure(b)
      PROVE  UNCHANGED <<code, session, master>>
  BY <1>1 DEF Send, TransientFailure, masterVars
<1>2. ASSUME NEW r \in Requests,
             \/ Accept(r) \/ Lookup(r) \/ TestPasses(r) \/ TestRefuses(r)
             \/ GrantAndStore(r) \/ Reply(r) \/ GraphError(r)
      PROVE  UNCHANGED <<code, session, master>>
  BY <1>2 DEF Accept, Lookup, TestPasses, TestRefuses, GrantAndStore, Reply, GraphError,
     masterVars
<1>3. ASSUME StopSignal \/ Drain \/ Crash
      PROVE  UNCHANGED <<code, session>> /\ master # "down"
  BY <1>3 DEF StopSignal, Drain, Crash, ProcessGone, Running
<1>4. ASSUME PreflightEnd \/ Tick \/ UNCHANGED vars
      PROVE  UNCHANGED <<code, session, master>>
  BY <1>4 DEF PreflightEnd, Tick, vars, masterVars
<1> QED
  BY <1>1, <1>2, <1>3, <1>4 DEF Next, ThreadStep

\* An instance becomes loose only at the price of a fault.
LEMMA FaultsStep ==
  ASSUME FleetAssumption, Types, Attempts, Unsent, Quiet, Remembered, Books, Faults,
         [Next]_vars
  PROVE  Faults'
<1>0. session \in Nat /\ mishaps \in Nat /\ MaxSessions \in Nat
      /\ code \in [1..MaxSessions -> {"none", "clean", "left", "unrecorded"}]
      /\ \A i \in registry : i.id.session \in Nat
  BY DEF Types, FleetAssumption, Ids
<1>1. ASSUME Running'
      PROVE  Cardinality(Loose') <= mishaps'
  <2>1. CASE Start
    <3>1. session' = session + 1 /\ registry' = registry
      BY <2>1 DEF Start
    <3>2. \A i \in registry : i.id.session # session + 1
      BY <1>0 DEF Books
    <3>3. Loose' = {}
      BY <3>1, <3>2 DEF Loose
    <3>4. Cardinality(Loose') = 0
      BY <3>3, FS_EmptySet, Zenon
    <3> QED
      BY <3>4, MishapsGrow
  <2>2. CASE ~Start
    <3>1. Running
      <4>1. master' # "down"
        BY <1>1 DEF Running
      <4>2. ASSUME ShutDown
            PROVE  FALSE
        BY <4>1, <4>2 DEF ShutDown, ProcessGone
      <4> QED
        BY <2>2, <4>1, <4>2, CodeFrame DEF Running
    <3>2. CASE \E r \in Requests : GraphError(r)
      BY <3>1, <3>2, GraphErrorCosts
    <3>3. CASE Loose' \subseteq Loose
      <4>1. IsFiniteSet(Loose)
        BY FS_Subset, Zenon DEF Books, Loose
      <4>2. /\ Cardinality(Loose') \in Nat /\ Cardinality(Loose) \in Nat
            /\ Cardinality(Loose') <= Cardinality(Loose)
        BY <3>3, <4>1, SubsetCard, Zenon
      <4>3. Cardinality(Loose) <= mishaps
        BY <3>1 DEF Faults
      <4> QED
        BY <4>2, <4>3, MishapsGrow
    <3>4. master' # "down"
      BY <1>1 DEF Running
    <3> QED
      BY <2>2, <3>2, <3>3, <3>4, LooseFrame
  <2> QED
    BY <2>1, <2>2
<1>2. \A s \in 1..MaxSessions :
         code'[s] # "none" => s < session' \/ (s = session' /\ master' = "down")
  <2>0. \A s \in 1..MaxSessions :
          code[s] # "none" => s < session \/ (s = session /\ master = "down")
    BY DEF Faults, Running
  <2>1. CASE UNCHANGED <<code, session>> /\ (master = "down" => master' = "down")
    BY <2>0, <2>1
  <2>2. CASE ShutDown
    <3>1. master' = "down" /\ session' = session
      BY <2>2 DEF ShutDown, ProcessGone
    <3>2. \A s \in (1..MaxSessions) \ {session} : code'[s] = code[s]
      BY <1>0, <2>2 DEF ShutDown
    <3> QED
      BY <2>0, <3>1, <3>2
  <2>3. CASE Start
    <3>1. session' = session + 1 /\ code' = code
      BY <2>3 DEF Start
    <3>2. \A s \in 1..MaxSessions : (s < session \/ s = session) => s < session + 1
      BY <1>0
    <3> QED
      BY <2>0, <3>1, <3>2
  <2> QED
    BY <2>1, <2>2, <2>3, CodeFrame
<1> QED
  BY <1>1, <1>2 DEF Faults, Running

\* A session that is over: its unanswered instances do not become more; one
\* that ends drained leaves those that its faults have cost.
LEMMA OrphansStep ==
  ASSUME FleetAssumption, Types, Attempts, Quiet, Books, Faults, OrphansAreFaults,
         [Next]_vars
  PROVE  OrphansAreFaults'
<1> SUFFICES ASSUME NEW s \in 1..MaxSessions, code'[s] = "clean"
             PROVE  Cardinality(Unanswered(s)') <= mishaps'
  BY DEF OrphansAreFaults, Unanswered
<1>0. /\ session \in Nat /\ s \in Nat /\ req \in [Requests -> Places]
      /\ code \in [1..MaxSessions -> {"none", "clean", "left", "unrecorded"}]
  BY DEF Types, FleetAssumption
<1>f. IsFiniteSet(Unanswered(s))
  BY FS_Subset, Zenon DEF Books, Unanswered
<1>g. given \subseteq given'
  BY GivenGrows
<1>1. Unanswered(s)' \subseteq Unanswered(s)
  <2>1. ASSUME NEW r \in Requests, TestPasses(r)
        PROVE  s # session
    <3>1. Running /\ code' = code
      BY <2>1 DEF TestPasses, Quiet, ThreadPoints, Minting, masterVars
    <3> QED
      BY <1>0, <3>1 DEF Faults
  <2>2. ASSUME NEW r \in Requests, TestPasses(r)
        PROVE  Unanswered(s)' \subseteq Unanswered(s)
    <3> DEFINE d == [session |-> session, n |-> counter]
               x == [id |-> d, boot |-> r[1]]
    <3>1. registry' = registry \cup {x} /\ x.id = d /\ d.session = session
      BY <2>2 DEF TestPasses, WriteInstance
    <3> HIDE DEF d, x
    <3> QED
      BY <1>g, <2>1, <2>2, <3>1 DEF Unanswered
  <2>3. ASSUME Start \/ UNCHANGED <<session, counter, registry>>
        PROVE  Unanswered(s)' \subseteq Unanswered(s)
    <3>1. registry' = registry
      BY <2>3 DEF Start
    <3> QED
      BY <1>g, <3>1 DEF Unanswered
  <2> QED
    BY <2>2, <2>3, RegistryFrame
<1>2. /\ Cardinality(Unanswered(s)') \in Nat /\ Cardinality(Unanswered(s)) \in Nat
      /\ Cardinality(Unanswered(s)') <= Cardinality(Unanswered(s))
  BY <1>1, <1>f, SubsetCard, Zenon
<1>3. Cardinality(Unanswered(s)) <= mishaps
  <2>1. CASE code[s] = "clean"
    BY <2>1 DEF OrphansAreFaults
  <2>2. CASE code[s] # "clean"
    <3>1. ShutDown
      <4>1. code' # code
        BY <2>2
      <4>2. ~Start
        BY <4>1 DEF Start
      <4> QED
        BY <4>1, <4>2, CodeFrame
    <3>2. s = session /\ master = "drained"
      BY <1>0, <2>2, <3>1 DEF ShutDown
    <3>3. \A r \in Requests : req[r] # "grant"
      BY <3>2 DEF Quiet, ThreadPoints, Minting
    <3>4. Unanswered(s) = Loose
      BY <3>2, <3>3 DEF Unanswered, Loose
    <3>5. Running
      BY <3>2 DEF Running
    <3> QED
      BY <3>4, <3>5 DEF Faults
  <2> QED
    BY <2>1, <2>2
<1> QED
  BY <1>2, <1>3, MishapsGrow

-----------------------------------------------------------------------------
(* The theorems *)

\* All of it together, and what it has to do with the order of the steps: a
\* minter is alone (Flight) only because an attempt not made yet has no request
\* (Unsent), an answer is the only one alive (Remembered) only because a minter is
\* alone, and a drained master leaves no instance unanswered but those of its
\* faults (Faults) only because it has no thread left (Quiet).
Inductive ==
  /\ Types /\ preflight \in BOOLEAN /\ Attempts /\ Quiet /\ Unsent /\ Flight
  /\ Remembered /\ AnswersAgree /\ Books /\ Faults /\ OrphansAreFaults

\* The inductive invariant holds before the master's first start.
LEMMA InitInductive ==
  ASSUME FleetAssumption, Init
  PROVE  Inductive
<1>0. NoEntry \in Entries /\ NoEntry.st = "none"
  BY EntryTypes
<1> HIDE DEF NoEntry
<1>1. Types
  BY <1>0 DEF Types, Init, FleetAssumption, Places
<1>2. preflight \in BOOLEAN
  BY Zenon DEF Init
<1>3. Attempts
  <2>1. [st |-> "ready", attempt |-> 0, id |-> {}] \in Loops
    BY DEF Loops
  <2>2. MaxAttempts \in [Boots -> Nat \ {0}]
    BY DEF FleetAssumption
  <2> QED
    BY <2>1, <2>2 DEF Attempts, Init
<1>4. \A r \in Requests : req[r] = "none"
  BY DEF Init
<1>5. \A b \in Boots : replay[b].st = "none"
  BY <1>0 DEF Init
<1>6. Quiet /\ Unsent /\ Flight
  BY <1>4, <1>5 DEF Quiet, Unsent, Flight, Init, ThreadPoints, Minting, Running
<1>7. Remembered /\ AnswersAgree
  BY <1>4, <1>5 DEF Remembered, Dated, Named, Stored, Alive, AnswersAgree, Init
<1>8. Books
  BY FS_EmptySet DEF Books, Init
<1>9. Faults
  BY DEF Faults, Init, Running
<1>10. OrphansAreFaults
  BY DEF OrphansAreFaults, Init
<1> QED
  BY <1>1, <1>2, <1>3, <1>6, <1>7, <1>8, <1>9, <1>10 DEF Inductive

\* Each step keeps it.
LEMMA StepInductive ==
  ASSUME FleetAssumption, Inductive, [Next]_vars
  PROVE  Inductive'
<1>0. /\ Types /\ preflight \in BOOLEAN /\ Attempts /\ Quiet /\ Unsent /\ Flight
      /\ Remembered /\ AnswersAgree /\ Books /\ Faults /\ OrphansAreFaults
  BY DEF Inductive
<1>1. Types'
  BY <1>0, TypesStep
<1>2. preflight' \in BOOLEAN
  <2>1. ASSUME NEW b \in Boots, Send(b) \/ TransientFailure(b)
        PROVE  preflight' = preflight
    BY <2>1, Zenon DEF Send, TransientFailure, masterVars
  <2>2. ASSUME NEW r \in Requests, Accept(r) \/ OfThread(r)
        PROVE  preflight' = preflight
    BY <1>0, <2>2, ThreadFrame, Zenon DEF Accept, masterVars
  <2>3. ASSUME Start \/ StopSignal \/ Drain
        PROVE  preflight' = TRUE \/ preflight' = preflight
    BY <2>3, Zenon DEF Start, StopSignal, Drain
  <2>4. ASSUME ShutDown \/ Crash \/ PreflightEnd
        PROVE  preflight' = FALSE
    BY <2>4, Zenon DEF ShutDown, Crash, PreflightEnd, ProcessGone
  <2>5. ASSUME Tick \/ UNCHANGED vars
        PROVE  preflight' = preflight
    BY <2>5, Zenon DEF Tick, vars, masterVars
  <2>6. preflight' = TRUE \/ preflight' = FALSE \/ preflight' = preflight
    BY <2>1, <2>2, <2>3, <2>4, <2>5, Zenon DEF Next, ThreadStep, OfThread
  <2> QED
    BY <1>0, <2>6, Zenon
<1>3. Attempts'
  BY <1>0, AttemptsStep DEF Types
<1>4. Quiet' /\ Unsent' /\ Flight'
  BY <1>0, QuietStep, UnsentStep, FlightStep
<1>5. Remembered' /\ AnswersAgree'
  <2>1. ASSUME NEW r \in Requests, ThreadStep(r) \/ GraphError(r)
        PROVE  Remembered' /\ AnswersAgree'
    BY <1>0, <2>1, RememberedLookup, RememberedGrant, RememberedThread DEF ThreadStep
  <2> QED
    BY <1>0, <2>1, RememberedOther DEF Next
<1>6. Books' /\ Faults' /\ OrphansAreFaults'
  BY <1>0, BooksStep, FaultsStep, OrphansStep
<1> QED
  BY <1>1, <1>2, <1>3, <1>4, <1>5, <1>6 DEF Inductive

\* Every state of the fleet satisfies the inductive invariant.
THEOREM FleetInvariant == Spec => []Inductive
<1>1. Init => Inductive
  BY FleetAssumption, InitInductive
<1>2. Inductive /\ [Next]_vars => Inductive'
  BY FleetAssumption, StepInductive
<1> QED
  BY <1>1, <1>2, PTL DEF Spec

\* Every variable keeps its type, and no agent exceeds its attempts.
THEOREM FleetTypes == Spec => []TypeOK
<1>1. ASSUME Inductive PROVE TypeOK
  <2>1. Types /\ preflight \in BOOLEAN /\ Attempts
    BY <1>1 DEF Inductive
  <2> QED
    BY <2>1, Zenon DEF Types, Attempts, TypeOK, Loops, Entries, Answers, Places
<1> QED
  BY <1>1, FleetInvariant, PTL

\* MST-IDM-03: within a lifetime, a session answers a boot id with one instance.
THEOREM FleetAnswers == Spec => []AnswersAgree
<1>1. Inductive => AnswersAgree
  BY DEF Inductive
<1> QED
  BY <1>1, FleetInvariant, PTL

\* MST-STA-02/03: in a session that exits 0, each unanswered instance cost a fault.
THEOREM FleetOrphans == Spec => []OrphansAreFaults
<1>1. Inductive => OrphansAreFaults
  BY DEF Inductive
<1> QED
  BY <1>1, FleetInvariant, PTL

\* A boot id is in flight exactly while one thread mints for it.
THEOREM FleetOneMinter == Spec => []FlightHasOneMinter
<1>1. ASSUME Inductive PROVE FlightHasOneMinter
  <2>1. Flight
    BY <1>1 DEF Inductive
  <2>2. ASSUME NEW b \in Boots
        PROVE  Cardinality(Minters(b)) <= 1
    <3>1. CASE Minters(b) = {}
      <4>1. Cardinality(Minters(b)) = 0
        BY <3>1, FS_EmptySet, Zenon
      <4> QED
        BY <4>1
    <3>2. CASE Minters(b) # {}
      <4>1. PICK r \in Minters(b) : TRUE
        BY <3>2
      <4>2. Minters(b) = {r}
        BY <2>1, <4>1 DEF Minters, Flight
      <4>3. Cardinality(Minters(b)) = 1
        BY <4>2, FS_Singleton, Zenon
      <4> QED
        BY <4>3
    <3> QED
      BY <3>1, <3>2
  <2>3. ASSUME NEW b \in Boots
        PROVE  replay[b].st = "flight" <=> Minters(b) # {}
    BY <2>1 DEF Flight, Minters
  <2> QED
    BY <2>2, <2>3 DEF FlightHasOneMinter
<1> QED
  BY <1>1, FleetInvariant, PTL

\* MST-ORD-04: a process that exits 0 cuts off no request and no fleet check.
THEOREM FleetCleanExit == Spec => CleanExitCutsNone
<1> DEFINE Cut ==
      \A s \in 1..MaxSessions : (code'[s] = "clean" /\ code[s] # "clean") =>
         ~preflight /\ \A r \in Requests : req[r] \in {"none", "gone"}
<1>1. ASSUME Inductive, [Next]_vars
      PROVE  [Cut]_vars
  <2> SUFFICES ASSUME NEW s \in 1..MaxSessions, code'[s] = "clean", code[s] # "clean"
               PROVE  ~preflight /\ \A r \in Requests : req[r] \in {"none", "gone"}
    OBVIOUS
  <2>0. Quiet /\ req \in [Requests -> Places]
        /\ code \in [1..MaxSessions -> {"none", "clean", "left", "unrecorded"}]
    BY <1>1 DEF Inductive, Types
  <2>1. ShutDown
    <3>1. code' # code
      OBVIOUS
    <3>2. ~Start
      BY <3>1 DEF Start
    <3> QED
      BY <1>1, <3>1, <3>2, CodeFrame
  <2>2. master = "drained"
    BY <2>0, <2>1 DEF ShutDown
  <2>3. ~preflight
    BY <2>0, <2>2, Zenon DEF Quiet
  <2>4. ASSUME NEW r \in Requests
        PROVE  req[r] \in {"none", "gone"}
    BY <2>0, <2>2 DEF Quiet, Places
  <2> QED
    BY <2>3, <2>4
<1> QED
  BY <1>1, FleetInvariant, PTL DEF Spec, CleanExitCutsNone

=============================================================================
