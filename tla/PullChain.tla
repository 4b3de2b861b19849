------------------------------ MODULE PullChain ------------------------------
(***************************************************************************)
(* The pipeline of a run as the fleet really executes it.  Every agent     *)
(* polls the shared append-only graph for nodes of the label above it that *)
(* have no processed edge of its own (kernel/graph_pending.py), computes   *)
(* its output, writes the output in several separate writes and adds the   *)
(* processed edge last:                                                    *)
(*                                                                         *)
(*   RunRequest > MarketData > ScanRun > AnalystRun > PMRun >              *)
(*   ExecutionRun > MonitorRun > Snapshot                                  *)
(*                                                                         *)
(* A poll finds a node by its label, whether or not the node itself hangs  *)
(* on its run yet.  So an output can be used before it is complete or      *)
(* linked, and one whose writer was killed before the edge is used by the  *)
(* agents below it while the agent above computes it again.                *)
(*                                                                         *)
(* orchestration/resume.py adds a child run whose first outputs are clones *)
(* of a source run's, one node and one edge at a time, under the polls.    *)
(*                                                                         *)
(* Abstractions.  A node stands for its key, the number of writes done,    *)
(* the nodes it was computed from (DERIVED_FROM, source_scan_run_id,       *)
(* source_analyst_run_id, source_pm_run_id, source_run_id) and whether its *)
(* data was complete, that is, whether it can lead to orders.  A uuid is   *)
(* an unused number.  The retry count of the work loop is left out         *)
(* (module WorkLoop): an attempt that raises leaves nothing in the graph,  *)
(* and an item that keeps raising is quarantined.  A live writer is        *)
(* assumed to reach its next write within the five attempts, one to five   *)
(* minutes apart, of an agent that polls what it is writing.  The review   *)
(* grace of a PMRun only delays a Begin.                                   *)
(***************************************************************************)
EXTENDS Integers, Sequences, FiniteSets, FiniteSetsExt

CONSTANTS
  Runs,         \* run ids the dispatcher places
  Earlier,      \* runs that were reported before: what a resume starts from
  Children,     \* run ids for resumed runs
  ResumeFrom,   \* the stages a run may be resumed from, 0 is position_sync
  MaxRequests,  \* bound: RunRequests placed or resumed
  MaxCrashes,   \* bound: processes killed at work
  NoNode        \* no node in hand

ASSUME BoundAssumption ==
  /\ ResumeFrom \subseteq 0..7
  /\ MaxRequests \in Nat /\ MaxCrashes \in Nat
  /\ Runs \cap Earlier = {} /\ (Runs \cup Earlier) \cap Children = {}
  /\ IsFiniteSet(Earlier)

\* A run or a child has a name of its own, a uuid is a number, and an ExecutionRun
\* or Snapshot has its PMRun's node for a key: the keys that nodes can have.
Names == Runs \cup Earlier \cup Children \cup Nat
Places == ((0..7) \X Names) \cup ({5, 7} \X ({4} \X Names))

\* A child's id is neither a number nor a node, and NoNode is none of them.
ASSUME IdAssumption ==
  /\ \A c \in Children : c \notin Nat /\ c \notin {4} \X Names
  /\ NoNode \notin Places /\ NoNode \notin Children

Agents == 1..7

\* The separate writes of an output before its processed edge: MarketData and
\* then RegimeContext; ScanRun, its DERIVED_FROM edge, its candidate_set;
\* AnalystRun and PMRun, each without and then with its payload.
Writes == <<2, 3, 2, 2, 1, 1, 1>>

VARIABLES
  graph,        \* node -> [writes, trail, sound]
  edges,        \* processed edges, each a pair of nodes
  refreshed,    \* runs whose RunRequest has a REFRESHES snapshot
  synced,       \* runs whose RunRequest has a POSITION_SYNCED_BY marker
  work,         \* agent -> what it has in hand
  quarantined,  \* <<agent, node>> with a WorkItemQuarantine marker
  sent,         \* PMRuns whose orders were sent to the broker
  resumed,      \* child run -> its source_run_id and resume_from
  resume,       \* the resume_run in progress
  crashes       \* processes killed so far

vars == <<graph, edges, refreshed, synced, work, quarantined, sent,
          resumed, resume, crashes>>

-----------------------------------------------------------------------------
(* Nodes: <<stage, key>> *)

Request(r) == <<0, r>>
Stage(v) == v[1]
Requests == {v \in DOMAIN graph : Stage(v) = 0}
IsChild(u) == u[2] \in Children

\* What v was computed from, the RunRequest first and v itself last.
Trail(v) == graph[v].trail
Origin(v) == Trail(v)[Stage(v)]
RunOf(v) == Trail(v)[1][2]
MarketOf(v) == Trail(v)[2]
PMOf(v) == Trail(v)[5]

Linked(v) == <<Origin(v), v>> \in edges

Idle == [up |-> NoNode, out |-> NoNode]
NoResume == [child |-> NoNode, at |-> 0, clone |-> NoNode]

Node(n, trail, sound) == [writes |-> n, trail |-> trail, sound |-> sound]

\* merge_node of a new key.
Put(f, x, y) == [z \in DOMAIN f \cup {x} |-> IF z = x THEN y ELSE f[z]]

\* The outputs of a run that nothing went wrong with.
PastTrail(r) ==
  <<Request(r), <<1, r>>, <<2, r>>, <<3, r>>, <<4, r>>, <<5, <<4, r>>>>, <<6, r>>,
    <<7, <<4, r>>>>>>
Past == Earlier \X (0..7)

Init ==
  /\ graph = [v \in {PastTrail(x[1])[x[2] + 1] : x \in Past} |->
                LET x == CHOOSE y \in Past : PastTrail(y[1])[y[2] + 1] = v
                IN  Node(IF x[2] = 0 THEN 1 ELSE Writes[x[2]],
                         SubSeq(PastTrail(x[1]), 1, x[2] + 1), TRUE)]
  /\ edges = {<<PastTrail(x[1])[x[2]], PastTrail(x[1])[x[2] + 1]>> :
                x \in {y \in Past : y[2] > 0}}
  /\ refreshed = Earlier /\ synced = Earlier
  /\ work = [k \in Agents |-> Idle]
  /\ quarantined = {}
  /\ sent = {<<4, r>> : r \in Earlier}
  /\ resumed = <<>> /\ resume = NoResume
  /\ crashes = 0

Room == Cardinality(Requests) < Cardinality(Earlier) + MaxRequests

\* place_run_request: the dispatcher writes the run's trigger.
Place(r) ==
  /\ Room /\ Request(r) \notin DOMAIN graph
  /\ graph' = Put(graph, Request(r), Node(1, <<Request(r)>>, TRUE))
  /\ UNCHANGED <<edges, refreshed, synced, work, quarantined, sent, resumed, resume, crashes>>

-----------------------------------------------------------------------------
(* The head of a run: execution's broker snapshot and the monitor's marker *)

\* sync_run_request, whose inside is module RunStart.
SyncRunRequest(u) ==
  /\ work[5] = Idle
  /\ u[2] \notin refreshed
  /\ refreshed' = refreshed \cup {u[2]}
  /\ UNCHANGED <<graph, edges, synced, work, quarantined, sent, resumed, resume, crashes>>

\* sync_positions_snapshot: a marker without its edges is completed by a retry.
SyncPositions(u) ==
  /\ work[6] = Idle
  /\ u[2] \in refreshed \ synced
  /\ synced' = synced \cup {u[2]}
  /\ UNCHANGED <<graph, edges, refreshed, work, quarantined, sent, resumed, resume, crashes>>

-----------------------------------------------------------------------------
(* The agents *)

\* Mutant: the PM takes an AnalystRun again until its PMRun is executed.
PendingTillExecuted(k, u) ==
  /\ Stage(u) = k - 1
  /\ \A e \in edges : e[1] = u => k = 4 /\ \A d \in edges : d[1] # e[2]

\* Mutant: a monitor that skips what does not hang on a run.
PendingOnLine(k, u) ==
  /\ Stage(u) = k - 1
  /\ \A e \in edges : e[1] # u
  /\ k = 6 => Linked(PMOf(u))

\* pending_nodes: by label and missing edge alone.
Pending(k, u) ==
  /\ Stage(u) = k - 1
  /\ \A e \in edges : e[1] # u

\* position_book_sync_attempted, of the run that the ScanRun's lineage names.
BookSynced(u) == graph[u].writes >= 2 /\ RunOf(u) \in synced

Due(k, u) ==
  /\ work[k] = Idle
  /\ <<k, u>> \notin quarantined
  /\ Pending(k, u)
  /\ k = 3 => BookSynced(u)

\* The key of the output: a uuid, or derived from the run or the PMRun.
Fresh(k) ==
  <<k, CHOOSE n \in 1..(Cardinality(DOMAIN graph) + 1) : <<k, n>> \notin DOMAIN graph>>
Output(k, u) ==
  CASE k = 1 -> <<1, u[2]>>
    [] k = 5 -> <<5, u>>
    [] k = 7 -> <<7, PMOf(u)>>
    [] OTHER -> Fresh(k)

\* A resumed RunRequest declares no history: the provider refuses it.
NoHistory(u) == IsChild(u)

\* The run's MarketData is there: its snapshot names a new uuid at every fetch,
\* and the graph overwrites no property.
KeyTaken(u) == <<1, u[2]>> \in DOMAIN graph

\* Mutant: a missing payload is read as an empty one.
PayloadOptional(u) == FALSE

\* The candidate_set, recommendation_set or order_intent_set is not there yet.
NoPayload(u) == graph[u].writes < Writes[Stage(u)]

\* The assertion that an ExecutionRun is always linked from its PMRun.
NoPMRun(u) == ~Linked(u)

Raises(k, u) ==
  \/ k = 1 /\ (NoHistory(u) \/ KeyTaken(u))
  \/ k \in {3, 4, 5} /\ NoPayload(u)
  \/ k = 6 /\ NoPMRun(u)

\* An ExecutionRun or Snapshot that exists may be merged again or may differ.
MayDiffer(k, u) == k \in {5, 7} /\ Output(k, u) \in DOMAIN graph

\* The first write of the output, a merge when the key exists.
Write(k, u, sound) ==
  LET v == Output(k, u)
  IN  /\ graph' = IF v \in DOMAIN graph THEN graph
                  ELSE Put(graph, v, Node(1, Append(Trail(u), v), sound))
      /\ work' = [work EXCEPT ![k] = [up |-> u, out |-> v]]

\* An agent takes a pending node, computes from what the graph holds, and
\* writes: nobody can tell the read from the first write.
Take(k, u, sound) ==
  /\ Due(k, u) /\ ~Raises(k, u)
  /\ Write(k, u, sound)
  /\ UNCHANGED <<edges, refreshed, synced, quarantined, sent, resumed, resume, crashes>>

\* The provider fetches the universe and writes MarketData.
Ingest(u) == Take(1, u, TRUE)

\* The scanner writes its ScanRun.
Scan(u) == Take(2, u, graph[u].sound)

\* The analyst finds no RegimeContext: "provider data unavailable".
Scored(u) == graph[u].sound /\ graph[MarketOf(u)].writes = 2
Analyze(u) == Take(3, u, Scored(u))

\* The PM finds no MarketData over the ANALYZED_BY edge, or no RegimeContext,
\* or has nothing to decide: it rejects all.
Priced(u) == graph[u].sound /\ Linked(u) /\ graph[MarketOf(u)].writes = 2
Evaluate(u) == Take(4, u, Priced(u))

\* Execution sends the orders of a PMRun (run_submit, module OrderExecution),
Submit(u) ==
  /\ Due(5, u) /\ ~Raises(5, u)
  /\ sent' = IF graph[u].sound THEN sent \cup {u} ELSE sent
  /\ work' = [work EXCEPT ![5] = [up |-> u, out |-> NoNode]]
  /\ UNCHANGED <<graph, edges, refreshed, synced, quarantined, resumed, resume, crashes>>

\* and then writes the ExecutionRun.
RecordRun ==
  /\ work[5].up # NoNode /\ work[5].out = NoNode
  /\ Write(5, work[5].up, graph[work[5].up].sound)
  /\ UNCHANGED <<edges, refreshed, synced, quarantined, sent, resumed, resume, crashes>>

\* The monitor observes the positions and writes its MonitorRun.
Monitor(u) == Take(6, u, graph[u].sound)

\* The reporter builds the Snapshot of the MonitorRun's PMRun.
Report(u) == Take(7, u, graph[u].sound)

\* The next write of an output.
WriteMore(k) ==
  LET v == work[k].out
  IN  /\ v # NoNode /\ graph[v].writes < Writes[k]
      /\ graph' = [graph EXCEPT ![v].writes = @ + 1]
      /\ UNCHANGED <<edges, refreshed, synced, work, quarantined, sent, resumed, resume, crashes>>

WriteRegime == WriteMore(1)            \* get_regime and the RegimeContext
WriteCandidateSet == WriteMore(2)      \* the lineage, then the candidate_set
WriteRecommendationSet == WriteMore(3)
WriteOrderIntentSet == WriteMore(4)

\* The processed edge, last.
Link(k) ==
  LET v == work[k].out
  IN  /\ v # NoNode /\ graph[v].writes = Writes[k]
      /\ edges' = edges \cup {<<work[k].up, v>>}
      /\ work' = [work EXCEPT ![k] = Idle]
      /\ UNCHANGED <<graph, refreshed, synced, quarantined, sent, resumed, resume, crashes>>

\* Someone is still writing u, or the edge that would take it off the poll.
AtWork(u) ==
  \/ \E k \in Agents : work[k].out = u
  \/ resume.clone = u
  \/ resume.child # NoNode /\ u = Request(resume.child)

\* Mutant: an item is given up without its marker.
GiveUpSilently(k, u) ==
  /\ Due(k, u) /\ (Raises(k, u) \/ MayDiffer(k, u)) /\ ~AtWork(u)
  /\ UNCHANGED vars

\* Every attempt raised, and the work loop marks the item.
Quarantine(k, u) ==
  /\ Due(k, u) /\ (Raises(k, u) \/ MayDiffer(k, u)) /\ ~AtWork(u)
  /\ quarantined' = quarantined \cup {<<k, u>>}
  /\ UNCHANGED <<graph, edges, refreshed, synced, work, sent, resumed, resume, crashes>>

\* The container is killed: what it had in hand is in memory only.
Crash(k) ==
  /\ crashes < MaxCrashes
  /\ work[k] # Idle
  /\ work' = [work EXCEPT ![k] = Idle]
  /\ crashes' = crashes + 1
  /\ UNCHANGED <<graph, edges, refreshed, synced, quarantined, sent, resumed, resume>>

-----------------------------------------------------------------------------
(* walk_chain and resume_run *)

\* walk_chain: the nodes that hang on run r by an unbroken line of edges.
Line(r) ==
  {e[2] : e \in {d \in edges : /\ RunOf(d[1]) = r
                               /\ \A j \in 2..d[2][1] : Linked(Trail(d[1])[j])}}
Depth(r) == Max({0} \cup {Stage(v) : v \in Line(r)})

Source == resumed[resume.child].source
From == resumed[resume.child].from

\* The refusals of resume_run, and then the child RunRequest and its RESUMES
\* edge.  The child of a source and a stage that exists is returned as it is.
ResumeRun(c, r, s) ==
  /\ Room /\ resume = NoResume
  /\ c \notin DOMAIN resumed
  /\ \A d \in DOMAIN resumed : resumed[d] # [source |-> r, from |-> s]
  /\ Request(r) \in DOMAIN graph
  /\ s > 0 => r \in synced
  /\ Depth(r) >= s - 1
  /\ graph' = Put(graph, Request(c), Node(1, <<Request(c)>>, TRUE))
  /\ resumed' = Put(resumed, c, [source |-> r, from |-> s])
  /\ resume' = [child |-> c, at |-> 0, clone |-> NoNode]
  /\ UNCHANGED <<edges, refreshed, synced, work, quarantined, sent, crashes>>

\* The first artifact: the source's PositionSync marker.
ClonePositionSync ==
  /\ resume.child # NoNode /\ resume.at = 0
  /\ synced' = IF From > 0 THEN synced \cup {resume.child} ELSE synced
  /\ resume' = [resume EXCEPT !.at = 1]
  /\ UNCHANGED <<graph, edges, refreshed, work, quarantined, sent, resumed, crashes>>

\* _link_upstream: the clone's node.  A ScanRun clone has no lineage and a
\* MarketData clone no RegimeContext yet; the others carry everything.
CloneNode ==
  LET k == resume.at
      v == <<k, resume.child>>
      s == CHOOSE n \in Line(Source) : Stage(n) = k
      trail == [j \in 1..(k + 1) |-> <<j - 1, resume.child>>]
  IN  /\ resume.child # NoNode /\ resume.clone = NoNode
      /\ k \in 1..(From - 1)
      /\ graph' = Put(graph, v,
                      Node(IF k <= 2 THEN 1 ELSE Writes[k], trail, graph[s].sound))
      /\ resume' = [resume EXCEPT !.clone = v]
      /\ UNCHANGED <<edges, refreshed, synced, work, quarantined, sent, resumed, crashes>>

\* Its edges: from its parent, LINKED_FROM, DERIVED_FROM and the side branch.
CloneLink ==
  LET v == resume.clone
  IN  /\ v # NoNode
      /\ edges' = edges \cup {<<Origin(v), v>>}
      /\ graph' = IF Stage(v) = 2 THEN [graph EXCEPT ![v].writes = Writes[2]] ELSE graph
      /\ resume' = [resume EXCEPT !.at = @ + 1, !.clone = NoNode]
      /\ UNCHANGED <<refreshed, synced, work, quarantined, sent, resumed, crashes>>

\* _link_regime, last of all, and the answer.
LinkRegime ==
  LET v == <<1, resume.child>>
  IN  /\ resume.child # NoNode /\ resume.at > 0 /\ resume.at >= From
      /\ resume.clone = NoNode
      /\ graph' = IF From > 1 THEN [graph EXCEPT ![v].writes = 2] ELSE graph
      /\ resume' = NoResume
      /\ UNCHANGED <<edges, refreshed, synced, work, quarantined, sent, resumed, crashes>>

ResumeStep == ClonePositionSync \/ CloneNode \/ CloneLink \/ LinkRegime

\* The process that runs resume_run is killed: a repeated call finds the child
\* and links nothing more.
ResumeCrash ==
  /\ crashes < MaxCrashes
  /\ resume # NoResume
  /\ resume' = NoResume
  /\ crashes' = crashes + 1
  /\ UNCHANGED <<graph, edges, refreshed, synced, work, quarantined, sent, resumed>>

-----------------------------------------------------------------------------
GiveUp(k) == \E u \in DOMAIN graph : Quarantine(k, u)
Poll ==
  \E u \in DOMAIN graph :
    \/ Ingest(u) \/ Scan(u) \/ Analyze(u) \/ Evaluate(u)
    \/ Submit(u) \/ Monitor(u) \/ Report(u)
WriteOn ==
  \/ WriteRegime \/ WriteCandidateSet \/ WriteRecommendationSet
  \/ WriteOrderIntentSet \/ RecordRun
HeadSync == \E u \in Requests : SyncRunRequest(u) \/ SyncPositions(u)
Fleet ==
  \/ HeadSync \/ Poll \/ WriteOn
  \/ \E k \in Agents : Link(k) \/ GiveUp(k)

Next ==
  \/ \E r \in Runs : Place(r)
  \/ Fleet
  \/ \E k \in Agents : Crash(k)
  \/ \E c \in Children, r \in Runs \cup Earlier, s \in ResumeFrom : ResumeRun(c, r, s)
  \/ ResumeStep
  \/ ResumeCrash

Spec == Init /\ [][Next]_vars

\* The fleet as a whole goes on: a container polls for as long as its app is
\* up and is started again when it dies, tries every pending item in every pass
\* and marks one that keeps raising, and resume_run runs to its end unless its
\* process is killed.  No agent needs to be faster than another.
FairSpec == Spec /\ WF_vars(Fleet \/ ResumeStep)

-----------------------------------------------------------------------------
(* Properties *)

Nodes == DOMAIN graph

TypeOK ==
  /\ \A v \in Nodes :
       /\ Stage(v) \in 0..7
       /\ graph[v].writes \in 1..3 /\ graph[v].sound \in BOOLEAN
       /\ Len(Trail(v)) = Stage(v) + 1 /\ Trail(v)[Stage(v) + 1] = v
       /\ \A j \in 1..Stage(v) : Trail(v)[j] \in Nodes /\ Stage(Trail(v)[j]) = j - 1
  /\ \A e \in edges : {e[1], e[2]} \subseteq Nodes /\ Stage(e[2]) = Stage(e[1]) + 1
  /\ refreshed \cup synced \subseteq {u[2] : u \in Requests}
  /\ \A k \in Agents : {work[k].up, work[k].out} \subseteq Nodes \cup {NoNode}
  /\ \A q \in quarantined : q[1] \in Agents /\ q[2] \in Nodes
  /\ sent \subseteq {v \in Nodes : Stage(v) = 4}
  /\ {Request(c) : c \in DOMAIN resumed} \subseteq Nodes
  /\ crashes \in 0..MaxCrashes

\* The decisions of run r whose orders went to the broker.
Decisions(r) == {p \in sent : RunOf(p) = r}

\* From the AnalystRun on, what an agent computed it computed from a complete
\* output of the stage above, however early the poll that found it, and a clone
\* hangs on a complete clone.
ComputedFromWhole ==
  \A v \in Nodes :
    Stage(v) \in 3..7 => graph[Origin(v)].writes = Writes[Stage(v) - 1]

\* The line of run r holds an item that an agent has given up.
Stuck(r) ==
  \E q \in quarantined : q[2] = Request(r) \/ q[2] \in Line(r)

\* Every run, resumed or not, whatever was killed, is reported in the end or
\* holds an item that its quarantine marker shows.
RunEnds ==
  <>[] \A u \in Requests : Depth(u[2]) = 7 \/ Stuck(u[2])

\* Every decision whose orders were sent is in some Snapshot in the end, also
\* one that hangs on no run because its writer was killed, or a marker shows
\* the item below it that was given up.
OrdersReported ==
  <>[] \A p \in sent :
         \/ <<7, p>> \in Nodes
         \/ \E q \in quarantined : q[2] = p \/ (Stage(q[2]) \in {5, 6} /\ PMOf(q[2]) = p)

Abstract == INSTANCE Pipeline WITH
  LastStage <- 7,
  reached <- [r \in Runs |-> Depth(r)],
  orders <- [r \in Runs |-> Cardinality(Decisions(r))],
  mishaps <- crashes

\* The chain of agents implements Pipeline: a run never loses a stage it has
\* reached, and sends no decision that the count of kills does not allow.
ImplementsPipeline == Abstract!AbsSpec

\* What the confirmation of a resume tells the operator: only the stages up to
\* execution "can submit new orders at the broker".
LateResumeSubmitsNothing ==
  \A p \in sent : p[2] \in Children => resumed[p[2]].from <= 5
=============================================================================
