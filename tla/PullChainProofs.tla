--------------------------- MODULE PullChainProofs ---------------------------
(***************************************************************************)
(* Proofs about module PullChain, for any number of runs, requests, kills  *)
(* and resumes.                                                            *)
(*                                                                         *)
(* The inductive invariant has two parts.  Structure says what the graph,  *)
(* the agents' hands and a resume in progress look like: a node's trail is *)
(* the trail of what it was computed from and the node itself, edges stay  *)
(* in their run, and a node of a placed run that an agent has in hand is   *)
(* still without its edge, so that no second agent of the kind and no      *)
(* second edge is there.  Killed counts: an output up to the PMRun that    *)
(* neither hangs on its run nor is in its writer's hands was left behind   *)
(* by a kill.                                                              *)
(*                                                                         *)
(* From the two, the bound on orders that a run of TLC checks with one     *)
(* kill: a stage has at most one output for every node of the stage above  *)
(* and one for every output left behind, hence a run has at most one       *)
(* decision and one more for every kill.                                   *)
(***************************************************************************)
EXTENDS PullChain, FiniteSetTheorems, FunctionTheorems, TLAPS

(* The invariant *)

\* What a node holds.
Records == [writes : 1..3, trail : Seq(Places), sound : BOOLEAN]

\* A child's id is a name, neither a number nor a node; NoNode is none of them.
IdsAreNames ==
  /\ Children \cap (Nat \cup ({4} \X Names)) = {}
  /\ NoNode \notin Places /\ NoNode \notin Children

\* It is what the assumption on the constants says.
LEMMA NamesDiffer == IdsAreNames
BY IdAssumption DEF IdsAreNames

\* Where nodes live and what the processes hold.
Types ==
  /\ Nodes \subseteq Places /\ graph \in [Nodes -> Records] /\ IsFiniteSet(Nodes)
  /\ edges \subseteq Nodes \X Nodes
  /\ work \in [Agents -> [up : Places \cup {NoNode}, out : Places \cup {NoNode}]]
  /\ resume \in [child : Children \cup {NoNode}, at : 0..7, clone : Places \cup {NoNode}]
  /\ resumed \in [DOMAIN resumed -> [source : Runs \cup Earlier, from : 0..7]]
  /\ DOMAIN resumed \subseteq Children
  /\ \A p \in sent : p \in Nodes /\ Stage(p) = 4
  /\ crashes \in Nat

\* A node's trail ends in the node, holds one node of every stage before it,
\* and goes on as theirs do.
Trailed(v) ==
  /\ Len(Trail(v)) = Stage(v) + 1 /\ Trail(v)[Stage(v) + 1] = v
  /\ \A j \in 1..Stage(v) : Trail(v)[j] \in Nodes /\ Stage(Trail(v)[j]) = j - 1
  /\ \A j \in 1..Stage(v) : \A i \in 1..j : Trail(Trail(v)[j])[i] = Trail(v)[i]
Trails == \A v \in Nodes : Trailed(v)

\* No output has more writes than its agent makes.
Bounded == \A v \in Nodes : Stage(v) > 0 => graph[v].writes <= Writes[Stage(v)]

\* Where a key is derived, it names what the node was computed from.
Keyed ==
  \A v \in Nodes :
    /\ Stage(v) = 5 /\ v[2] \notin Children => v[2] = Origin(v)
    /\ Stage(v) = 7 => v[2] = PMOf(v)

\* The nodes under a child's id are the clones made so far, in their order.
Cloned ==
  \A v \in Nodes : v[2] \in Children =>
    /\ v[2] \in DOMAIN resumed
    /\ v[2] = resume.child => Stage(v) = 0 \/ Stage(v) < resume.at \/ v = resume.clone
Cloning ==
  resume.child # NoNode =>
    /\ resume.child \in DOMAIN resumed
    /\ \A j \in 0..7 : j = 0 \/ j < resume.at =>
         /\ <<j, resume.child>> \in Nodes
         /\ \A i \in 1..(j + 1) : Trail(<<j, resume.child>>)[i] = <<i - 1, resume.child>>
CloneInHand ==
  resume.clone # NoNode =>
    /\ resume.child # NoNode /\ resume.at \in 1..6
    /\ resume.clone = <<resume.at, resume.child>> /\ resume.clone \in Nodes
    /\ \A i \in 1..(resume.at + 1) : Trail(resume.clone)[i] = <<i - 1, resume.child>>

\* What an agent has in hand: its output was computed from what it took, and
\* what it took from a placed run is still without its edge.
InHand(k) ==
  /\ work[k].up \in Nodes /\ Stage(work[k].up) = k - 1
  /\ work[k].out = NoNode => k = 5 /\ graph[work[k].up].writes >= Writes[4]
  /\ work[k].out # NoNode =>
       /\ work[k].out \in Nodes /\ Stage(work[k].out) = k
       /\ k \in 1..6 => Origin(work[k].out) = work[k].up
       /\ RunOf(work[k].out) = RunOf(work[k].up)
  /\ RunOf(work[k].up) \in Runs => \A e \in edges : e[1] # work[k].up
Hands == \A k \in Agents : work[k] # Idle => InHand(k)

\* Edges stay within a run, and those of a placed run lead to one node each.
Edged ==
  /\ \A e \in edges : Stage(e[2]) = Stage(e[1]) + 1 /\ RunOf(e[1]) = RunOf(e[2])
  /\ \A d, e \in edges : RunOf(d[1]) \in Runs /\ d[1] = e[1] => d = e

\* What a resume is to clone hangs on the source run.
Offered ==
  resume.child # NoNode =>
    \A r \in Runs \cup Earlier : r = Source =>
      \A j \in 1..(From - 1) : \E n \in Line(r) : Stage(n) = j

\* Markers are about nodes.
Marks ==
  /\ \A r \in refreshed \cup synced : Request(r) \in Nodes
  /\ \A q \in quarantined : q[1] \in Agents /\ q[2] \in Nodes
  /\ \A c \in DOMAIN resumed : Request(c) \in Nodes
  /\ crashes <= MaxCrashes

\* The outputs up to the PMRun that their writer left behind.
Dead(r) ==
  {v \in Nodes : /\ RunOf(v) = r /\ Stage(v) \in 1..4 /\ ~Linked(v)
                 /\ \A k \in Agents : work[k].out # v}
Killed == \A r \in Runs : Cardinality(Dead(r)) <= crashes

Structure ==
  /\ Types /\ Trails /\ Bounded /\ Keyed /\ Cloned /\ Cloning /\ CloneInHand /\ Hands
  /\ Edged /\ Offered /\ Marks

----------------------------------------------------------------------------
(* The graph only grows *)

\* A step keeps every node with its trail, and takes no write back.
Grows ==
  \A v \in Nodes : /\ v \in Nodes' /\ graph'[v].trail = graph[v].trail
                   /\ graph'[v].writes \in graph[v].writes..3

\* The parts of a node.
LEMMA NodeParts ==
  ASSUME Types, NEW v \in Nodes
  PROVE  /\ v \in Places /\ v = <<Stage(v), v[2]>> /\ Stage(v) \in 0..7
         /\ graph[v] \in Records /\ Trail(v) \in Seq(Places)
         /\ graph[v].writes \in 1..3 /\ graph[v].sound \in BOOLEAN
<1>1. v \in Places /\ graph[v] \in Records
  BY DEF Types
<1>2. v = <<Stage(v), v[2]>> /\ Stage(v) \in 0..7
  BY <1>1 DEF Places, Stage
<1> QED
  BY <1>1, <1>2 DEF Records, Trail

\* The number of writes of a stage.
LEMMA WritesRange ==
  /\ \A k \in 1..7 : Writes[k] \in 1..3
  /\ Writes[1] = 2 /\ Writes[2] = 3 /\ Writes[3] = 2 /\ Writes[4] = 2
  /\ Writes[5] = 1 /\ Writes[6] = 1 /\ Writes[7] = 1
<1>1. /\ Writes[1] = 2 /\ Writes[2] = 3 /\ Writes[3] = 2 /\ Writes[4] = 2
      /\ Writes[5] = 1 /\ Writes[6] = 1 /\ Writes[7] = 1
  BY DEF Writes
<1>2. ASSUME NEW k \in 1..7 PROVE Writes[k] \in 1..3
  <2>1. k \in {1, 2, 3, 4, 5, 6, 7}
    OBVIOUS
  <2> QED
    BY <1>1, <2>1
<1> QED
  BY <1>1, <1>2

\* Writing a new node.
LEMMA NewNode ==
  ASSUME Types, NEW v \in Places, v \notin Nodes, NEW n \in 1..3, NEW t \in Seq(Places),
         NEW s \in BOOLEAN, graph' = Put(graph, v, Node(n, t, s))
  PROVE  /\ Nodes' = Nodes \cup {v} /\ graph' \in [Nodes' -> Records] /\ IsFiniteSet(Nodes')
         /\ Nodes' \subseteq Places /\ Grows
         /\ graph'[v] = Node(n, t, s) /\ graph'[v].trail = t /\ graph'[v].writes = n
         /\ \A w \in Nodes : graph'[w] = graph[w]
<1>1. Node(n, t, s) \in Records /\ Node(n, t, s).trail = t /\ Node(n, t, s).writes = n
  BY DEF Node, Records
<1>2. /\ Nodes' = Nodes \cup {v}
      /\ graph' = [w \in Nodes' |-> graph'[w]]
      /\ graph'[v] = Node(n, t, s) /\ \A w \in Nodes : graph'[w] = graph[w]
  BY DEF Put, Nodes
<1>3. IsFiniteSet(Nodes')
  BY <1>2, FS_AddElement DEF Types
<1>4. \A w \in Nodes : graph[w] \in Records /\ graph[w].writes \in 1..3
  BY NodeParts
<1>5. graph' \in [Nodes' -> Records]
  BY <1>1, <1>2, <1>4
<1> QED
  BY <1>1, <1>2, <1>3, <1>4, <1>5 DEF Grows, Types

\* One more write of a node.
LEMMA MoreWrites ==
  ASSUME Types, NEW v, NEW n \in 1..3, v \in Nodes => graph[v].writes <= n,
         graph' = [graph EXCEPT ![v].writes = n]
  PROVE  /\ Nodes' = Nodes /\ graph' \in [Nodes' -> Records] /\ Grows
         /\ \A w \in Nodes : graph'[w].writes = IF w = v THEN n ELSE graph[w].writes
<1>1. \A w \in Nodes : graph[w] \in Records /\ graph[w].writes \in 1..3
  BY NodeParts
<1>2. /\ Nodes' = Nodes /\ graph' = [w \in Nodes |-> graph'[w]]
      /\ \A w \in Nodes : graph'[w] = IF w = v THEN [graph[w] EXCEPT !.writes = n] ELSE graph[w]
  BY DEF Nodes, Types
<1>3. ASSUME NEW w \in Nodes
      PROVE  /\ graph'[w] \in Records /\ graph'[w].trail = graph[w].trail
             /\ graph'[w].writes = IF w = v THEN n ELSE graph[w].writes
    BY <1>1, <1>2 DEF Records
<1>4. graph' \in [Nodes' -> Records]
  BY <1>2, <1>3
<1> QED
  BY <1>1, <1>2, <1>3, <1>4 DEF Grows

\* What is read off a trail stays.
LEMMA TrailKept ==
  ASSUME Grows, NEW v \in Nodes
  PROVE  /\ v \in Nodes' /\ Trail(v)' = Trail(v) /\ RunOf(v)' = RunOf(v)
         /\ Origin(v)' = Origin(v) /\ PMOf(v)' = PMOf(v)
<1>1. v \in Nodes' /\ Trail(v)' = Trail(v)
  BY DEF Grows, Trail
<1> QED
  BY <1>1 DEF RunOf, Origin, PMOf

\* Trails stay trails when the new ones are.
LEMMA TrailsKept ==
  ASSUME Trails, Grows, \A v \in Nodes' \ Nodes : Trailed(v)'
  PROVE  Trails'
<1>1. ASSUME NEW v \in Nodes PROVE Trailed(v)'
  <2>1. Trailed(v)
    BY DEF Trails
  <2>2. Trail(v)' = Trail(v)
    BY TrailKept
  <2>3. ASSUME NEW j \in 1..Stage(v)
        PROVE  Trail(v)[j] \in Nodes' /\ graph'[Trail(v)[j]].trail = graph[Trail(v)[j]].trail
    BY <2>1 DEF Trailed, Grows
  <2> QED
    BY <2>1, <2>2, <2>3 DEF Trailed, Trail
<1> QED
  BY <1>1 DEF Trails

\* Edges stay within their runs.
LEMMA EdgedKept ==
  ASSUME Types, Edged, Grows, edges' = edges
  PROVE  Edged'
<1>1. \A e \in edges : e[1] \in Nodes /\ e[2] \in Nodes
  BY DEF Types
<1>2. \A e \in edges : RunOf(e[1])' = RunOf(e[1]) /\ RunOf(e[2])' = RunOf(e[2])
  BY <1>1, TrailKept
<1> QED
  BY <1>1, <1>2 DEF Edged, Stage

\* An agent's hand stays as it is under the others' steps.
LEMMA InHandKept ==
  ASSUME Types, Grows, NEW k \in Agents, InHand(k), work'[k] = work[k],
         \A e \in edges' \ edges : e[1] # work[k].up \/ RunOf(work[k].up) \notin Runs
  PROVE  InHand(k)'
<1>1. PICK u, v : u = work[k].up /\ v = work[k].out
  OBVIOUS
<1>2. work'[k].up = u /\ work'[k].out = v
  BY <1>1
<1>3. u \in Nodes /\ (v # NoNode => v \in Nodes)
  BY <1>1 DEF InHand
<1>4. u \in Nodes' /\ RunOf(u)' = RunOf(u) /\ graph'[u].writes \in graph[u].writes..3
  BY <1>3, TrailKept DEF Grows
<1>5. v # NoNode => v \in Nodes' /\ RunOf(v)' = RunOf(v) /\ Origin(v)' = Origin(v)
  BY <1>3, TrailKept
<1>6. u \in Nodes' /\ Stage(u) = k - 1
  BY <1>1, <1>4 DEF InHand
<1>7. v = NoNode => k = 5 /\ graph'[u].writes >= Writes[4]
  <2> SUFFICES ASSUME v = NoNode PROVE k = 5 /\ graph'[u].writes >= Writes[4]
    OBVIOUS
  <2>1. k = 5 /\ graph[u].writes >= Writes[4]
    BY <1>1 DEF InHand
  <2>2. graph[u].writes \in 1..3 /\ Writes[4] = 2
    BY <1>3, NodeParts, WritesRange
  <2> QED
    BY <1>4, <2>1, <2>2
<1>8. v # NoNode => /\ v \in Nodes' /\ Stage(v) = k
                    /\ k \in 1..6 => Origin(v)' = u
                    /\ RunOf(v)' = RunOf(u)'
  BY <1>1, <1>4, <1>5 DEF InHand
<1>9. RunOf(u)' \in Runs => \A e \in edges' : e[1] # u
  BY <1>1, <1>4 DEF InHand
<1> QED
  BY <1>2, <1>6, <1>7, <1>8, <1>9 DEF InHand, Stage, RunOf, Origin, Trail

\* The hands of all agents, when none changes its own.
LEMMA HandsKept ==
  ASSUME Types, Grows, Hands, UNCHANGED <<work, edges>>
  PROVE  Hands'
<1>1. ASSUME NEW k \in Agents, work'[k] # Idle PROVE InHand(k)'
  <2>1. InHand(k)
    BY <1>1 DEF Hands, Idle
  <2> QED
    BY <2>1, InHandKept
<1> QED
  BY <1>1 DEF Hands, Idle

\* Keys.
LEMMA KeyedKept ==
  ASSUME Types, Keyed, Grows,
         \A v \in Nodes' \ Nodes :
           /\ Stage(v) = 5 /\ v[2] \notin Children => v[2] = Origin(v)'
           /\ Stage(v) = 7 => v[2] = PMOf(v)'
  PROVE  Keyed'
<1>1. ASSUME NEW v \in Nodes
      PROVE  /\ Stage(v) = 5 /\ v[2] \notin Children => v[2] = Origin(v)'
             /\ Stage(v) = 7 => v[2] = PMOf(v)'
  BY TrailKept DEF Keyed
<1> QED
  BY <1>1 DEF Keyed, Stage, Origin, PMOf, Trail

\* The nodes below which a run's line is unbroken, for one edge.
OnLine(r, d) == RunOf(d[1]) = r /\ \A j \in 2..d[2][1] : Linked(Trail(d[1])[j])

\* What hangs on a run, by its edges.
LEMMA LineIs ==
  ASSUME NEW r, NEW v
  PROVE  v \in Line(r) <=> \E d \in edges : OnLine(r, d) /\ v = d[2]
BY DEF Line, OnLine

\* The nodes of an unbroken line.
LEMMA TrailNodes ==
  ASSUME Types, Trails, Edged, NEW d \in edges, NEW j \in 2..d[2][1]
  PROVE  /\ d[1] \in Nodes /\ d[2] \in Nodes /\ Stage(d[1]) \in 0..7
         /\ Stage(d[2]) = Stage(d[1]) + 1
         /\ j \in 1..(Stage(d[1]) + 1)
         /\ Trail(d[1])[j] \in Nodes /\ Stage(Trail(d[1])[j]) = j - 1
         /\ RunOf(Trail(d[1])[j]) = RunOf(d[1])
<1>1. d[1] \in Nodes /\ d[2] \in Nodes
  BY DEF Types
<1>2. Stage(d[2]) = Stage(d[1]) + 1 /\ d[2][1] = Stage(d[2]) /\ Stage(d[1]) \in 0..7
  BY <1>1, NodeParts DEF Edged, Stage
<1>3. j \in 1..(Stage(d[1]) + 1)
  BY <1>2
<1>4. Trailed(d[1])
  BY <1>1 DEF Trails
<1>5. CASE j = Stage(d[1]) + 1
  BY <1>1, <1>2, <1>3, <1>4, <1>5 DEF Trailed
<1>6. CASE j \in 1..Stage(d[1])
  <2>1. Trail(d[1])[j] \in Nodes /\ Stage(Trail(d[1])[j]) = j - 1
    BY <1>4, <1>6 DEF Trailed
  <2>2. Trail(Trail(d[1])[j])[1] = Trail(d[1])[1]
    BY <1>2, <1>4, <1>6 DEF Trailed
  <2> QED
    BY <1>1, <1>2, <1>3, <2>1, <2>2 DEF RunOf
<1> QED
  BY <1>2, <1>3, <1>5, <1>6

\* What hangs on a run keeps hanging on it.
LEMMA LineGrows ==
  ASSUME Types, Trails, Edged, Grows, edges \subseteq edges', NEW r
  PROVE  Line(r) \subseteq Line(r)'
<1> SUFFICES ASSUME NEW d \in edges, OnLine(r, d) PROVE OnLine(r, d)'
  BY LineIs DEF Line, OnLine
<1>1. d[1] \in Nodes
  BY DEF Types
<1>2. RunOf(d[1])' = r /\ Trail(d[1])' = Trail(d[1])
  BY <1>1, TrailKept DEF OnLine
<1>3. ASSUME NEW j \in 2..d[2][1] PROVE Linked(Trail(d[1])[j])'
  <2>1. PICK w : w = Trail(d[1])[j]
    OBVIOUS
  <2>2. w \in Nodes
    BY <2>1, TrailNodes
  <2>3. Linked(w)
    BY <2>1 DEF OnLine
  <2>4. Linked(w)'
    BY <2>2, <2>3, TrailKept DEF Linked
  <2> QED
    BY <1>2, <2>1, <2>4 DEF Linked, Origin, Stage, Trail
<1> QED
  BY <1>2, <1>3 DEF OnLine, Linked, Origin, Stage, Trail, RunOf

\* Edges of other runs change nothing.
LEMMA LineSame ==
  ASSUME Types, Trails, Edged, Grows, edges \subseteq edges', NEW r,
         \A e \in edges' \ edges : /\ e[1] \in Nodes /\ e[2] \in Nodes
                                   /\ RunOf(e[1]) # r /\ RunOf(e[2]) # r
  PROVE  Line(r)' = Line(r)
<1>1. Line(r) \subseteq Line(r)'
  BY LineGrows
<1>2. ASSUME NEW d \in edges', OnLine(r, d)' PROVE d \in edges /\ OnLine(r, d)
  <2>1. d[1] \in Nodes
    BY DEF Types
  <2>2. RunOf(d[1]) = r /\ Trail(d[1])' = Trail(d[1])
    BY <1>2, <2>1, TrailKept DEF OnLine
  <2>3. d \in edges
    BY <2>2
  <2>4. ASSUME NEW j \in 2..d[2][1] PROVE Linked(Trail(d[1])[j])
    <3>1. PICK w : w = Trail(d[1])[j]
      OBVIOUS
    <3>2. w \in Nodes /\ RunOf(w) = r
      BY <2>2, <2>3, <3>1, TrailNodes
    <3>3. Linked(w)'
      BY <1>2, <2>2, <3>1 DEF OnLine, Linked, Origin, Stage, Trail
    <3>4. <<Origin(w), w>> \in edges'
      BY <3>2, <3>3, TrailKept DEF Linked
    <3> QED
      BY <3>1, <3>2, <3>4 DEF Linked
  <2> QED
    BY <2>2, <2>3, <2>4 DEF OnLine
<1>3. ASSUME NEW v \in Line(r)' PROVE v \in Line(r)
  BY <1>2, <1>3, LineIs DEF Line, OnLine
<1> QED
  BY <1>1, <1>3

\* A line has no gap.
LEMMA LineStages ==
  ASSUME Types, Trails, Edged, NEW r, NEW v \in Line(r), NEW j \in 1..Stage(v)
  PROVE  \E n \in Line(r) : Stage(n) = j
<1>1. PICK d \in edges : OnLine(r, d) /\ v = d[2]
  BY LineIs
<1>2. CASE j = Stage(v)
  BY <1>2
<1>3. CASE j # Stage(v)
  <2>0. d[1] \in Nodes /\ d[2] \in Nodes
    BY DEF Types
  <2>1. Stage(v) \in 0..7 /\ Stage(d[1]) = Stage(v) - 1 /\ Stage(v) = d[2][1]
    <3>1. Stage(d[2]) \in 0..7 /\ Stage(d[1]) \in 0..7
      BY <2>0, NodeParts
    <3>2. Stage(d[2]) = Stage(d[1]) + 1 /\ Stage(d[2]) = d[2][1]
      BY DEF Edged, Stage
    <3> QED
      BY <1>1, <3>1, <3>2
  <2>2. j + 1 \in 2..d[2][1]
    BY <1>3, <2>1
  <2>3. PICK w : w = Trail(d[1])[j + 1]
    OBVIOUS
  <2>4. w \in Nodes /\ Stage(w) = j /\ RunOf(w) = r
    BY <1>1, <2>2, <2>3, TrailNodes DEF OnLine
  <2>5. <<Origin(w), w>> \in edges
    BY <1>1, <2>2, <2>3 DEF OnLine, Linked
  <2>6. Origin(w) \in Nodes /\ RunOf(Origin(w)) = r
    BY <2>4, <2>5 DEF Edged, Types
  <2>7. Trailed(w) /\ Trailed(d[1]) /\ Stage(d[1]) \in 0..7
    BY <2>0, <2>4, NodeParts DEF Trails
  <2>8. ASSUME NEW i \in 2..j PROVE Linked(Trail(Origin(w))[i])
    <3>1. Trail(Origin(w))[i] = Trail(w)[i]
      BY <2>4, <2>7 DEF Trailed, Origin
    <3>2. Trail(w)[i] = Trail(d[1])[i]
      <4>1. CASE j = Stage(d[1])
        BY <2>3, <2>7, <4>1 DEF Trailed
      <4>2. CASE j # Stage(d[1])
        <5>1. j + 1 \in 1..Stage(d[1]) /\ i \in 1..(j + 1)
          BY <1>3, <2>1, <4>2
        <5> QED
          BY <2>3, <2>7, <5>1 DEF Trailed
      <4> QED
        BY <4>1, <4>2
    <3>3. i \in 2..d[2][1]
      BY <2>1
    <3> QED
      BY <1>1, <3>1, <3>2, <3>3 DEF OnLine
  <2>9. OnLine(r, <<Origin(w), w>>)
    BY <2>4, <2>6, <2>8 DEF OnLine, Stage
  <2> QED
    BY <2>4, <2>5, <2>9, LineIs
<1> QED
  BY <1>2, <1>3

\* A set of stages has a greatest.
LEMMA GreatestStage ==
  ASSUME NEW S \in SUBSET (0..7), S # {}
  PROVE  Max(S) \in S /\ \A x \in S : Max(S) >= x
<1>1. \E x \in S : \A y \in S : x >= y
  <2>1. CASE 7 \in S
    BY <2>1
  <2>2. CASE 7 \notin S /\ 6 \in S
    BY <2>2
  <2>3. CASE 7 \notin S /\ 6 \notin S /\ 5 \in S
    BY <2>3
  <2>4. CASE 7 \notin S /\ 6 \notin S /\ 5 \notin S /\ 4 \in S
    BY <2>4
  <2>5. CASE S \subseteq 0..3 /\ 3 \in S
    BY <2>5
  <2>6. CASE S \subseteq 0..2 /\ 2 \in S
    BY <2>6
  <2>7. CASE S \subseteq 0..1 /\ 1 \in S
    BY <2>7
  <2>8. CASE S \subseteq {0}
    <3>1. S = {0}
      BY <2>8
    <3> QED
      BY <3>1
  <2>9. 7 \notin S /\ 6 \notin S /\ 5 \notin S /\ 4 \notin S => S \subseteq 0..3
    OBVIOUS
  <2>10. S \subseteq 0..3 /\ 3 \notin S => S \subseteq 0..2
    OBVIOUS
  <2>11. S \subseteq 0..2 /\ 2 \notin S => S \subseteq 0..1
    OBVIOUS
  <2>12. S \subseteq 0..1 /\ 1 \notin S => S \subseteq {0}
    OBVIOUS
  <2> QED
    BY <2>1, <2>2, <2>3, <2>4, <2>5, <2>6, <2>7, <2>8, <2>9, <2>10, <2>11, <2>12
<1> QED
  BY <1>1 DEF Max

\* How deep a run is.
LEMMA DepthIs ==
  ASSUME Types, Trails, Edged, NEW r
  PROVE  /\ Depth(r) \in 0..7 /\ \A v \in Line(r) : Stage(v) <= Depth(r)
         /\ \A j \in 1..Depth(r) : \E n \in Line(r) : Stage(n) = j
<1> DEFINE S == {0} \cup {Stage(v) : v \in Line(r)}
<1>1. Line(r) \subseteq Nodes
  BY LineIs DEF Types
<1>2. S \in SUBSET (0..7) /\ S # {}
  BY <1>1, NodeParts
<1>3. Depth(r) = Max(S)
  BY DEF Depth
<1> HIDE DEF S
<1>4. Depth(r) \in S /\ \A x \in S : Depth(r) >= x
  BY <1>2, <1>3, GreatestStage
<1>5. Depth(r) \in 0..7 /\ \A v \in Line(r) : Stage(v) <= Depth(r)
  BY <1>2, <1>4 DEF S
<1>6. ASSUME NEW j \in 1..Depth(r) PROVE \E n \in Line(r) : Stage(n) = j
  <2>1. PICK v \in Line(r) : Stage(v) = Depth(r)
    BY <1>4, <1>5 DEF S
  <2> QED
    BY <2>1, LineStages
<1> QED
  BY <1>5, <1>6

\* Clones stay what they are while their resume waits.
LEMMA ClonesKept ==
  ASSUME Cloned, Cloning, CloneInHand, Grows, UNCHANGED <<resume, resumed>>,
         \A v \in Nodes' \ Nodes : v[2] \notin Children
  PROVE  Cloned' /\ Cloning' /\ CloneInHand'
<1>1. PICK c, v, n : c = resume.child /\ v = resume.clone /\ n = resume.at
  OBVIOUS
<1>2. resume'.child = c /\ resume'.clone = v /\ resume'.at = n
  BY <1>1
<1>3. Cloned'
  BY DEF Cloned, Stage
<1>4. \A w \in Nodes : w \in Nodes' /\ Trail(w)' = Trail(w)
  BY TrailKept
<1>5. c # NoNode =>
        /\ c \in DOMAIN resumed'
        /\ \A j \in 0..7 : j = 0 \/ j < n =>
             /\ <<j, c>> \in Nodes'
             /\ \A i \in 1..(j + 1) : Trail(<<j, c>>)'[i] = <<i - 1, c>>
  BY <1>1, <1>4 DEF Cloning
<1>6. Cloning'
  BY <1>2, <1>5 DEF Cloning, Trail
<1>7. v # NoNode =>
        /\ c # NoNode /\ n \in 1..6 /\ v = <<n, c>> /\ v \in Nodes'
        /\ \A i \in 1..(n + 1) : Trail(v)'[i] = <<i - 1, c>>
  BY <1>1, <1>4 DEF CloneInHand
<1>8. CloneInHand'
  BY <1>2, <1>7 DEF CloneInHand, Trail
<1> QED
  BY <1>3, <1>6, <1>8

\* What there is to clone stays.
LEMMA OfferedKept ==
  ASSUME Types, Trails, Edged, Grows, Offered, edges \subseteq edges', resumed' = resumed,
         resume'.child = resume.child
  PROVE  Offered'
<1> SUFFICES ASSUME resume'.child # NoNode, NEW r \in Runs \cup Earlier, r = Source',
                    NEW j \in 1..(From' - 1)
             PROVE  \E n \in Line(r)' : Stage(n) = j
  BY DEF Offered, Stage
<1>1. Source' = Source /\ From' = From
  BY DEF Source, From
<1>2. \E n \in Line(r) : Stage(n) = j
  BY <1>1 DEF Offered
<1> QED
  BY <1>2, LineGrows

\* Markers.
LEMMA MarksKept ==
  ASSUME Marks, Grows, UNCHANGED <<refreshed, synced, quarantined, resumed>>,
         crashes' <= MaxCrashes
  PROVE  Marks'
<1>1. \A v \in Nodes : v \in Nodes'
  BY DEF Grows
<1> QED
  BY <1>1 DEF Marks, Request

\* Nothing new of interest: what a step keeps that leaves the graph and the edges.
LEMMA GraphSame ==
  ASSUME Types, graph' = graph
  PROVE  Nodes' = Nodes /\ Grows
<1>1. \A v \in Nodes : graph[v].writes \in 1..3
  BY NodeParts
<1> QED
  BY <1>1 DEF Nodes, Grows

\* Neither do the trails, the keys and the edges.
LEMMA StillThere ==
  ASSUME Types, Trails, Bounded, Keyed, Edged, graph' = graph, edges' = edges
  PROVE  Trails' /\ Bounded' /\ Keyed' /\ Edged'
<1>1. Nodes' = Nodes /\ Grows
  BY GraphSame
<1>2. Bounded'
  BY <1>1 DEF Bounded
<1> QED
  BY <1>1, <1>2, TrailsKept, KeyedKept, EdgedKept

----------------------------------------------------------------------------
(* Outputs *)

\* A uuid is a number that is not used.
LEMMA FreshIs ==
  ASSUME Types, NEW k
  PROVE  Fresh(k) \notin Nodes /\ \E n \in Nat : Fresh(k) = <<k, n>>
<1>1. PICK N : N = Cardinality(Nodes)
  OBVIOUS
<1>2. N \in Nat
  BY <1>1, FS_CardinalityType DEF Types
<1>3. \E n \in 1..(N + 1) : <<k, n>> \notin Nodes
  <2> SUFFICES ASSUME \A n \in 1..(N + 1) : <<k, n>> \in Nodes PROVE FALSE
    OBVIOUS
  <2> DEFINE f == [n \in 1..(N + 1) |-> <<k, n>>]
  <2>1. f \in Injection(1..(N + 1), Nodes)
    BY DEF Injection, IsInjective
  <2>2. Cardinality(1..(N + 1)) <= Cardinality(Nodes)
    BY <2>1, FS_Injection DEF Types
  <2>3. Cardinality(1..(N + 1)) = N + 1
    BY <1>2, FS_Interval
  <2> QED
    BY <1>1, <1>2, <2>2, <2>3
<1>4. Fresh(k) = <<k, CHOOSE n \in 1..(N + 1) : <<k, n>> \notin Nodes>>
  BY <1>1 DEF Fresh, Nodes
<1> QED
  BY <1>2, <1>3, <1>4

\* The key of an output: new, or derived from what the output is computed from.
LEMMA OutputIs ==
  ASSUME IdsAreNames, Structure, NEW k \in Agents, NEW u \in Nodes, Stage(u) = k - 1,
         k = 1 => u[2] \notin Children /\ <<1, u[2]>> \notin Nodes,
         NEW v, v = Output(k, u)
  PROVE  /\ v \in Places /\ Stage(v) = k /\ v[2] \notin Children
         /\ k = 5 => v[2] = u
         /\ k = 7 => v[2] = PMOf(u)
         /\ v \in Nodes => /\ k \in {5, 7} /\ RunOf(v) = RunOf(u)
                           /\ k = 5 => Origin(v) = u
<1> USE DEF Agents
<1>0. Types /\ Trails /\ Keyed
  BY DEF Structure
<1>1. u \in Places /\ u = <<Stage(u), u[2]>> /\ Trailed(u)
  BY <1>0, NodeParts DEF Trails
<1>2. CASE k = 1
  <2>1. v = <<1, u[2]>>
    BY <1>2 DEF Output
  <2>2. u[2] \in Names
    BY <1>1, <1>2 DEF Places, Stage
  <2> QED
    BY <1>2, <2>1, <2>2 DEF Places, Stage
<1>3. CASE k \in {2, 3, 4, 6}
  <2>1. v = Fresh(k)
    BY <1>3 DEF Output
  <2>2. PICK n \in Nat : v = <<k, n>>
    BY <1>0, <2>1, FreshIs
  <2>3. v \notin Nodes
    BY <1>0, <2>1, FreshIs
  <2> QED
    <3>1. n \in Names /\ n \notin Children
      BY DEF Names, IdsAreNames
    <3>2. v \in Places /\ Stage(v) = k /\ v[2] = n
      BY <2>2, <3>1 DEF Places, Stage
    <3> QED
      BY <1>3, <2>3, <3>1, <3>2
<1>4. CASE k = 5
  <2>1. v = <<5, u>>
    BY <1>4 DEF Output
  <2>2. u \in {4} \X Names
    BY <1>1, <1>4 DEF Places, Stage
  <2>3. v \in Places /\ Stage(v) = 5 /\ v[2] = u /\ u \notin Children
    BY <2>1, <2>2 DEF Places, Stage, IdsAreNames
  <2>4. ASSUME v \in Nodes PROVE Origin(v) = u /\ RunOf(v) = RunOf(u)
    <3>1. Origin(v) = u
      BY <1>0, <2>3, <2>4 DEF Keyed
    <3>2. Trail(Origin(v))[1] = Trail(v)[1]
      <4>1. Trailed(v) /\ 5 \in 1..Stage(v) /\ 1 \in 1..5
        BY <1>0, <2>3, <2>4 DEF Trails
      <4> QED
        BY <2>3, <4>1 DEF Trailed, Origin
    <3> QED
      BY <3>1, <3>2 DEF RunOf
  <2> QED
    BY <1>4, <2>3, <2>4
<1>5. CASE k = 7
  <2>1. v = <<7, PMOf(u)>>
    BY <1>5 DEF Output
  <2>2. PMOf(u) \in Nodes /\ Stage(PMOf(u)) = 4 /\ Trail(PMOf(u))[1] = Trail(u)[1]
    BY <1>1, <1>5 DEF Trailed, PMOf
  <2>3. PMOf(u) \in {4} \X Names
    BY <1>0, <2>2, NodeParts DEF Places, Stage
  <2>4. v \in Places /\ Stage(v) = 7 /\ v[2] = PMOf(u) /\ v[2] \notin Children
    BY <2>1, <2>3 DEF Places, Stage, IdsAreNames
  <2>5. ASSUME v \in Nodes PROVE RunOf(v) = RunOf(u)
    <3>1. PMOf(v) = PMOf(u)
      BY <1>0, <2>4, <2>5 DEF Keyed
    <3>2. Trail(PMOf(v))[1] = Trail(v)[1]
      <4>1. Trailed(v) /\ 5 \in 1..Stage(v) /\ 1 \in 1..5
        BY <1>0, <2>4, <2>5 DEF Trails
      <4> QED
        BY <4>1 DEF Trailed, PMOf
    <3> QED
      BY <2>2, <3>1, <3>2 DEF RunOf
  <2> QED
    BY <1>5, <2>4, <2>5
<1> QED
  BY <1>2, <1>3, <1>4, <1>5

\* What an agent's first write makes of the graph.
Wrote(k, u, v) ==
  /\ Grows /\ Nodes' = Nodes \cup {v} /\ v \in Places /\ Stage(v) = k /\ v[2] \notin Children
  /\ IsFiniteSet(Nodes') /\ graph' \in [Nodes' -> Records]
  /\ \A w \in Nodes : graph'[w] = graph[w]
  /\ v \notin Nodes => graph'[v].writes = 1 /\ graph'[v].trail = Append(Trail(u), v)
  /\ work' = [work EXCEPT ![k] = [up |-> u, out |-> v]]
  /\ k = 5 => v[2] = u
  /\ k = 7 => v[2] = PMOf(u)
  /\ v \in Nodes => /\ k \in {5, 7} /\ RunOf(v) = RunOf(u)
                    /\ k = 5 => Origin(v) = u

\* An agent's first write adds its output, or finds it there.
LEMMA WriteIs ==
  ASSUME IdsAreNames, Structure, NEW k \in Agents, NEW u \in Nodes, Stage(u) = k - 1,
         k = 1 => u[2] \notin Children /\ <<1, u[2]>> \notin Nodes,
         NEW s \in BOOLEAN, Write(k, u, s)
  PROVE  \E v : Wrote(k, u, v)
<1>1. PICK v : v = Output(k, u)
  OBVIOUS
<1>2. /\ v \in Places /\ Stage(v) = k /\ v[2] \notin Children
      /\ k = 5 => v[2] = u
      /\ k = 7 => v[2] = PMOf(u)
      /\ v \in Nodes => /\ k \in {5, 7} /\ RunOf(v) = RunOf(u)
                        /\ k = 5 => Origin(v) = u
  BY <1>1, OutputIs
<1>3. Types
  BY DEF Structure
<1>4. /\ graph' = IF v \in Nodes THEN graph
                  ELSE Put(graph, v, Node(1, Append(Trail(u), v), s))
      /\ work' = [work EXCEPT ![k] = [up |-> u, out |-> v]]
  BY <1>1 DEF Write, Nodes
<1>5. CASE v \in Nodes
  <2>1. graph' = graph
    BY <1>4, <1>5
  <2>2. Nodes' = Nodes /\ Grows
    BY <1>3, <2>1, GraphSame
  <2>3. IsFiniteSet(Nodes') /\ graph' \in [Nodes' -> Records]
    BY <1>3, <2>1, <2>2 DEF Types
  <2> QED
    BY <1>2, <1>4, <1>5, <2>1, <2>2, <2>3 DEF Wrote
<1>6. CASE v \notin Nodes
  <2>1. Trail(u) \in Seq(Places)
    BY <1>3, NodeParts
  <2>2. PICK t : t = Append(Trail(u), v)
    OBVIOUS
  <2>3. t \in Seq(Places)
    BY <1>2, <2>1, <2>2
  <2>4. graph' = Put(graph, v, Node(1, t, s))
    BY <1>4, <1>6, <2>2
  <2>5. /\ Nodes' = Nodes \cup {v} /\ graph' \in [Nodes' -> Records] /\ IsFiniteSet(Nodes')
        /\ Grows /\ graph'[v].trail = t /\ graph'[v].writes = 1
        /\ \A w \in Nodes : graph'[w] = graph[w]
    BY <1>2, <1>3, <1>6, <2>3, <2>4, NewNode
  <2> QED
    BY <1>2, <1>4, <1>6, <2>2, <2>5 DEF Wrote
<1> QED
  BY <1>5, <1>6

\* The trail of a new output.
LEMMA WroteTrail ==
  ASSUME Types, Trails, NEW k \in Agents, NEW u \in Nodes, Stage(u) = k - 1, NEW v,
         v \notin Nodes, Wrote(k, u, v)
  PROVE  /\ Trailed(v)' /\ Origin(v)' = u /\ RunOf(v)' = RunOf(u)
         /\ k \in 5..7 => PMOf(v)' = (IF k = 5 THEN u ELSE PMOf(u))
<1> USE DEF Agents
<1>1. PICK t : t = graph'[v].trail
  OBVIOUS
<1>2. t = Append(Trail(u), v) /\ Stage(v) = k
  BY <1>1 DEF Wrote
<1>3. Trailed(u) /\ Trail(u) \in Seq(Places)
  BY NodeParts DEF Trails
<1>4. Len(Trail(u)) = k
  BY <1>3 DEF Trailed
<1>5. Len(t) = k + 1 /\ t[k + 1] = v /\ \A j \in 1..k : t[j] = Trail(u)[j]
  BY <1>2, <1>3, <1>4
<1>6. t[k] = u
  BY <1>3, <1>5 DEF Trailed
<1>7. ASSUME NEW j \in 1..k
      PROVE  /\ t[j] \in Nodes /\ Stage(t[j]) = j - 1
             /\ \A i \in 1..j : Trail(t[j])[i] = t[i]
  <2>1. CASE j = k
    BY <1>5, <1>6, <2>1
  <2>2. CASE j \in 1..(k - 1)
    BY <1>3, <1>5, <2>2 DEF Trailed
  <2> QED
    BY <2>1, <2>2
<1>8. \A j \in 1..k : t[j] \in Nodes' /\ graph'[t[j]].trail = Trail(t[j])
  BY <1>7 DEF Wrote, Grows, Trail
<1>9. Trail(v)' = t
  BY <1>1 DEF Trail
<1>10. Trailed(v)'
  <2>1. \A j \in 1..k : \A i \in 1..j : graph'[t[j]].trail[i] = t[i]
    BY <1>7, <1>8
  <2>2. Len(t) = k + 1 /\ t[k + 1] = v /\ \A j \in 1..k : t[j] \in Nodes' /\ Stage(t[j]) = j - 1
    BY <1>5, <1>7, <1>8
  <2>3. Stage(v) = k
    BY <1>2
  <2> QED
    BY <1>1, <2>1, <2>2, <2>3 DEF Trailed, Stage, Trail
<1> QED
  BY <1>2, <1>5, <1>6, <1>9, <1>10 DEF Origin, RunOf, PMOf, Stage

\* The agent's first write keeps the structure.
LEMMA WriteStructure ==
  ASSUME IdsAreNames, Structure, NEW k \in Agents, NEW u \in Nodes, Stage(u) = k - 1, NEW v,
         Wrote(k, u, v), RunOf(u) \in Runs => \A e \in edges : e[1] # u,
         UNCHANGED <<edges, refreshed, synced, quarantined, sent, resumed, resume, crashes>>
  PROVE  Structure'
<1> USE DEF Agents
<1>1. Types /\ Trails /\ Bounded /\ Keyed /\ Cloned /\ Cloning /\ CloneInHand /\ Hands /\ Edged
      /\ Offered /\ Marks
  BY DEF Structure
<1>2. Grows /\ Nodes' = Nodes \cup {v} /\ Stage(v) = k /\ v \in Places /\ v[2] \notin Children
      /\ work' = [work EXCEPT ![k] = [up |-> u, out |-> v]]
  BY DEF Wrote
<1>3. u \in Places
  BY <1>1, NodeParts
<1>4. Types'
  <2>1. work' \in [Agents -> [up : Places \cup {NoNode}, out : Places \cup {NoNode}]]
    BY <1>1, <1>2, <1>3 DEF Types
  <2>2. Nodes' \subseteq Places /\ edges' \subseteq Nodes' \X Nodes'
    BY <1>1, <1>2 DEF Types
  <2>3. graph' \in [Nodes' -> Records] /\ IsFiniteSet(Nodes')
    BY DEF Wrote
  <2>4. \A p \in sent' : p \in Nodes' /\ Stage(p) = 4
    BY <1>1, <1>2 DEF Types
  <2> QED
    BY <1>1, <2>1, <2>2, <2>3, <2>4 DEF Types, Stage
<1>5. Trails'
  <2>1. v \notin Nodes => Trailed(v)'
    BY <1>1, WroteTrail
  <2> QED
    BY <1>1, <1>2, <2>1, TrailsKept
<1>6. Bounded'
  <2>1. v \notin Nodes => graph'[v].writes <= Writes[Stage(v)]
    BY <1>2, WritesRange DEF Wrote
  <2>2. \A w \in Nodes : graph'[w] = graph[w]
    BY DEF Wrote
  <2> QED
    BY <1>1, <1>2, <2>1, <2>2 DEF Bounded, Stage
<1>7. Keyed'
  <2>1. ASSUME v \notin Nodes
        PROVE  /\ Stage(v) = 5 /\ v[2] \notin Children => v[2] = Origin(v)'
               /\ Stage(v) = 7 => v[2] = PMOf(v)'
    <3>1. Origin(v)' = u /\ (k = 7 => PMOf(v)' = PMOf(u))
      BY <1>1, <2>1, WroteTrail
    <3>2. (k = 5 => v[2] = u) /\ (k = 7 => v[2] = PMOf(u))
      BY DEF Wrote
    <3> QED
      BY <1>2, <3>1, <3>2
  <2> QED
    BY <1>1, <1>2, <2>1, KeyedKept
<1>8. Cloned' /\ Cloning' /\ CloneInHand'
  BY <1>1, <1>2, ClonesKept
<1>9. Hands'
  <2>1. ASSUME NEW j \in Agents, j # k, work'[j] # Idle PROVE InHand(j)'
    <3>1. work'[j] = work[j]
      BY <1>1, <1>2, <2>1 DEF Types
    <3>2. InHand(j)
      BY <1>1, <2>1, <3>1 DEF Hands, Idle
    <3> QED
      BY <1>1, <1>2, <3>1, <3>2, InHandKept
  <2>2. InHand(k)'
    <3>1. work'[k].up = u /\ work'[k].out = v
      BY <1>1, <1>2 DEF Types
    <3>2. u \in Nodes' /\ RunOf(u)' = RunOf(u) /\ v \in Nodes'
      BY <1>2, TrailKept
    <3>3. v # NoNode
      BY <1>2 DEF IdsAreNames
    <3>4. RunOf(v)' = RunOf(u) /\ (k \in 1..6 => Origin(v)' = u)
      <4>1. CASE v \notin Nodes
        BY <1>1, <4>1, WroteTrail
      <4>2. CASE v \in Nodes
        <5>1. k \in {5, 7} /\ RunOf(v) = RunOf(u) /\ (k = 5 => Origin(v) = u)
          BY <4>2 DEF Wrote
        <5> QED
          BY <1>2, <4>2, <5>1, TrailKept
      <4> QED
        BY <4>1, <4>2
    <3>5. RunOf(u)' \in Runs => \A e \in edges' : e[1] # u
      BY <3>2
    <3> QED
      BY <1>2, <3>1, <3>2, <3>3, <3>4, <3>5 DEF InHand, Stage, RunOf, Origin, Trail
  <2> QED
    BY <2>1, <2>2 DEF Hands, Idle
<1>10. Edged'
  BY <1>1, <1>2, EdgedKept
<1>11. Offered'
  BY <1>1, <1>2, OfferedKept
<1>12. Marks'
  <2>1. crashes' <= MaxCrashes
    BY <1>1 DEF Marks
  <2> QED
    BY <1>1, <1>2, <2>1, MarksKept
<1> QED
  BY <1>4, <1>5, <1>6, <1>7, <1>8, <1>9, <1>10, <1>11, <1>12 DEF Structure

----------------------------------------------------------------------------
(* The other steps *)

\* A new RunRequest.
LEMMA RequestIs ==
  ASSUME IdsAreNames, Structure, NEW x \in Names, Request(x) \notin Nodes, NEW s \in BOOLEAN,
         graph' = Put(graph, Request(x), Node(1, <<Request(x)>>, s)),
         UNCHANGED <<edges, work, sent, crashes>>
  PROVE  /\ Grows /\ Nodes' = Nodes \cup {Request(x)} /\ RunOf(Request(x))' = x
         /\ graph' \in [Nodes' -> Records] /\ IsFiniteSet(Nodes') /\ Nodes' \subseteq Places
         /\ edges' \subseteq Nodes' \X Nodes' /\ \A p \in sent' : p \in Nodes' /\ Stage(p) = 4
         /\ Trails' /\ Bounded' /\ Keyed' /\ Hands' /\ Edged'
         /\ \A w \in Nodes : graph'[w] = graph[w]
<1>1. Types /\ Trails /\ Bounded /\ Keyed /\ Hands /\ Edged
  BY DEF Structure
<1>2. PICK v : v = Request(x)
  OBVIOUS
<1>3. v \in Places /\ Stage(v) = 0 /\ v[2] = x
  BY <1>2 DEF Request, Places, Stage
<1>4. PICK t : t = <<v>>
  OBVIOUS
<1>5. t \in Seq(Places) /\ Len(t) = 1 /\ t[1] = v
  BY <1>3, <1>4
<1>6. graph' = Put(graph, v, Node(1, t, s)) /\ v \notin Nodes
  BY <1>2, <1>4
<1>7. /\ Nodes' = Nodes \cup {v} /\ graph' \in [Nodes' -> Records] /\ IsFiniteSet(Nodes')
      /\ Nodes' \subseteq Places /\ Grows
      /\ graph'[v].trail = t /\ graph'[v].writes = 1
      /\ \A w \in Nodes : graph'[w] = graph[w]
  BY <1>1, <1>3, <1>5, <1>6, NewNode
<1>8. edges' \subseteq Nodes' \X Nodes' /\ \A p \in sent' : p \in Nodes' /\ Stage(p) = 4
  BY <1>1, <1>7 DEF Types
<1>9. Trailed(v)' /\ RunOf(v)' = x
  <2>1. Trail(v)' = t /\ 1..Stage(v) = {}
    <3>1. Trail(v)' = t
      BY <1>7 DEF Trail
    <3> QED
      BY <1>3, <3>1
  <2>2. RunOf(v)' = x
    BY <1>3, <1>5, <2>1 DEF RunOf
  <2>3. Len(Trail(v)') = Stage(v) + 1 /\ Trail(v)'[Stage(v) + 1] = v
    BY <1>3, <1>5, <2>1
  <2> QED
    BY <2>1, <2>2, <2>3 DEF Trailed, Stage, Trail
<1>10. Trails'
  BY <1>1, <1>7, <1>9, TrailsKept
<1>11. Bounded'
  <2>1. ASSUME NEW w \in Nodes', Stage(w) > 0 PROVE graph'[w].writes <= Writes[Stage(w)]
    <3>1. w \in Nodes
      BY <1>3, <1>7, <2>1
    <3> QED
      BY <1>1, <1>7, <2>1, <3>1 DEF Bounded
  <2> QED
    BY <2>1 DEF Bounded, Stage
<1>12. Keyed'
  BY <1>1, <1>3, <1>7, KeyedKept
<1>13. Hands' /\ Edged'
  BY <1>1, <1>7, HandsKept, EdgedKept
<1> QED
  BY <1>2, <1>7, <1>8, <1>9, <1>10, <1>11, <1>12, <1>13 DEF Request, RunOf, Trail

\* place_run_request.
LEMMA PlaceStructure ==
  ASSUME IdsAreNames, Structure, NEW r \in Runs, Place(r)
  PROVE  Structure'
<1>1. Types /\ Trails /\ Edged /\ Cloned /\ Cloning /\ CloneInHand /\ Offered /\ Marks
  BY DEF Structure
<1>2. r \in Names /\ Request(r) \notin Nodes
  BY DEF Names, Place, Nodes
<1>3. UNCHANGED <<edges, refreshed, synced, work, quarantined, sent, resumed, resume, crashes>>
  BY DEF Place
<1>3a. PICK b \in BOOLEAN : graph' = Put(graph, Request(r), Node(1, <<Request(r)>>, b))
  BY DEF Place
<1>4. /\ Grows /\ Nodes' = Nodes \cup {Request(r)}
      /\ graph' \in [Nodes' -> Records] /\ IsFiniteSet(Nodes') /\ Nodes' \subseteq Places
      /\ edges' \subseteq Nodes' \X Nodes' /\ \A p \in sent' : p \in Nodes' /\ Stage(p) = 4
      /\ Trails' /\ Bounded' /\ Keyed' /\ Hands' /\ Edged'
  BY <1>2, <1>3, <1>3a, RequestIs
<1>5. Types'
  BY <1>1, <1>3, <1>4 DEF Types, Stage
<1>6. Request(r)[2] \notin Children
  BY BoundAssumption DEF Request
<1>7. Cloned' /\ Cloning' /\ CloneInHand'
  BY <1>1, <1>3, <1>4, <1>6, ClonesKept
<1>8. Offered'
  BY <1>1, <1>3, <1>4, OfferedKept
<1>9. Marks'
  BY <1>1, <1>3, <1>4, MarksKept DEF Marks
<1> QED
  BY <1>4, <1>5, <1>7, <1>8, <1>9 DEF Structure

\* resume_run: the child.
LEMMA ResumeStructure ==
  ASSUME IdsAreNames, Structure, NEW c \in Children, NEW r \in Runs \cup Earlier,
         NEW s \in ResumeFrom, ResumeRun(c, r, s)
  PROVE  Structure'
<1>1. Types /\ Trails /\ Edged /\ Cloned /\ Cloning /\ CloneInHand /\ Offered /\ Marks
  BY DEF Structure
<1>2. c \in Names /\ s \in 0..7 /\ c # NoNode
  BY BoundAssumption DEF Names, IdsAreNames
<1>3. /\ c \notin DOMAIN resumed /\ Depth(r) >= s - 1 /\ resume = NoResume
      /\ UNCHANGED <<edges, refreshed, synced, work, quarantined, sent, crashes>>
      /\ resumed' = Put(resumed, c, [source |-> r, from |-> s])
      /\ resume' = [child |-> c, at |-> 0, clone |-> NoNode]
  BY DEF ResumeRun
<1>3a. PICK b \in BOOLEAN : graph' = Put(graph, Request(c), Node(1, <<Request(c)>>, b))
  BY DEF ResumeRun
<1>4. Request(c) \notin Nodes
  <2>1. Request(c)[2] = c
    BY DEF Request
  <2> QED
    BY <1>1, <1>3, <2>1 DEF Cloned
<1>5. /\ Grows /\ Nodes' = Nodes \cup {Request(c)} /\ RunOf(Request(c))' = c
      /\ graph' \in [Nodes' -> Records] /\ IsFiniteSet(Nodes') /\ Nodes' \subseteq Places
      /\ edges' \subseteq Nodes' \X Nodes' /\ \A p \in sent' : p \in Nodes' /\ Stage(p) = 4
      /\ Trails' /\ Bounded' /\ Keyed' /\ Hands' /\ Edged'
  BY <1>2, <1>3, <1>3a, <1>4, RequestIs
<1>6. /\ DOMAIN resumed' = DOMAIN resumed \cup {c} /\ resumed'[c] = [source |-> r, from |-> s]
      /\ \A d \in DOMAIN resumed : resumed'[d] = resumed[d]
      /\ resumed' = [d \in DOMAIN resumed' |-> resumed'[d]]
  BY <1>3 DEF Put
<1>7. Types'
  <2>1. resumed' \in [DOMAIN resumed' -> [source : Runs \cup Earlier, from : 0..7]]
    <3>1. [source |-> r, from |-> s] \in [source : Runs \cup Earlier, from : 0..7]
      BY <1>2
    <3>2. \A d \in DOMAIN resumed' : resumed'[d] \in [source : Runs \cup Earlier, from : 0..7]
      BY <1>1, <1>6, <3>1 DEF Types
    <3> QED
      BY <1>6, <3>2
  <2>2. DOMAIN resumed' \subseteq Children
    BY <1>1, <1>6 DEF Types
  <2>3. resume' \in [child : Children \cup {NoNode}, at : 0..7, clone : Places \cup {NoNode}]
    BY <1>3
  <2>4. work' \in [Agents -> [up : Places \cup {NoNode}, out : Places \cup {NoNode}]]
        /\ crashes' \in Nat
    BY <1>1, <1>3 DEF Types
  <2> QED
    BY <1>5, <2>1, <2>2, <2>3, <2>4 DEF Types, Stage
<1>8. resume'.child = c /\ resume'.at = 0 /\ resume'.clone = NoNode
  BY <1>3
<1>9. Cloned'
  <2>1. ASSUME NEW v \in Nodes, v[2] \in Children PROVE v[2] \in DOMAIN resumed' /\ v[2] # c
    BY <1>1, <1>3, <1>6, <2>1 DEF Cloned
  <2>2. Stage(Request(c)) = 0 /\ Request(c)[2] = c
    BY DEF Request, Stage
  <2>3. \A v \in Nodes' : v[2] \in Children =>
          /\ v[2] \in DOMAIN resumed'
          /\ v[2] = c => Stage(v) = 0
    BY <1>5, <1>6, <2>1, <2>2
  <2> QED
    BY <1>8, <2>3 DEF Cloned, Stage
<1>10. Cloning'
  <2>1. Request(c) \in Nodes' /\ Stage(Request(c)) = 0 /\ <<0, c>> = Request(c)
    BY <1>5 DEF Request, Stage
  <2>2. Trailed(Request(c))'
    BY <1>5, <2>1 DEF Trails
  <2>3. Trail(<<0, c>>)'[1] = <<0, c>>
    BY <2>1, <2>2 DEF Trailed, Stage, Trail, Request
  <2>4. c \in DOMAIN resumed'
    BY <1>6
  <2> QED
    BY <1>8, <2>1, <2>3, <2>4 DEF Cloning, Trail
<1>11. CloneInHand'
  BY <1>8 DEF CloneInHand
<1>12. Offered'
  <2>1. Source' = r /\ From' = s
    BY <1>6, <1>8 DEF Source, From
  <2>2. Line(r) \subseteq Line(r)'
    BY <1>1, <1>3, <1>5, LineGrows
  <2>3. ASSUME NEW j \in 1..(s - 1) PROVE \E n \in Line(r)' : Stage(n) = j
    <3>1. Depth(r) \in 0..7 /\ \A i \in 1..Depth(r) : \E n \in Line(r) : Stage(n) = i
      BY <1>1, DepthIs
    <3>2. j \in 1..Depth(r)
      BY <1>2, <1>3, <3>1
    <3> QED
      BY <2>2, <3>1, <3>2
  <2> QED
    BY <2>1, <2>3 DEF Offered, Stage
<1>13. Marks'
  BY <1>1, <1>3, <1>5, <1>6 DEF Marks, Request
<1> QED
  BY <1>5, <1>7, <1>9, <1>10, <1>11, <1>12, <1>13 DEF Structure

\* More of a node's writes.
LEMMA WritesIs ==
  ASSUME Structure, NEW v, NEW n \in 1..3,
         v \in Nodes => graph[v].writes <= n /\ (Stage(v) > 0 => n <= Writes[Stage(v)]),
         graph' = [graph EXCEPT ![v].writes = n]
  PROVE  /\ Nodes' = Nodes /\ Grows /\ graph' \in [Nodes' -> Records]
         /\ Trails' /\ Bounded' /\ Keyed'
<1>1. Types /\ Trails /\ Bounded /\ Keyed
  BY DEF Structure
<1>2. /\ Nodes' = Nodes /\ graph' \in [Nodes' -> Records] /\ Grows
      /\ \A w \in Nodes : graph'[w].writes = IF w = v THEN n ELSE graph[w].writes
  BY <1>1, MoreWrites
<1>3. Bounded'
  BY <1>1, <1>2 DEF Bounded, Stage
<1> QED
  BY <1>1, <1>2, <1>3, TrailsKept, KeyedKept

\* What is left when only the graph's writes, the markers or a count change.
LEMMA RestKept ==
  ASSUME Structure, Nodes' = Nodes, Grows, graph' \in [Nodes' -> Records],
         Trails', Bounded', Keyed',
         UNCHANGED <<edges, work, resumed, resume>>,
         \A p \in sent' : p \in Nodes /\ Stage(p) = 4, crashes' \in Nat
  PROVE  /\ Types' /\ Cloned' /\ Cloning' /\ CloneInHand' /\ Hands' /\ Edged' /\ Offered'
<1>1. Types /\ Trails /\ Cloned /\ Cloning /\ CloneInHand /\ Hands /\ Edged /\ Offered
  BY DEF Structure
<1>2. Types'
  BY <1>1 DEF Types, Stage
<1>3. Cloned' /\ Cloning' /\ CloneInHand'
  BY <1>1, ClonesKept
<1>4. Hands' /\ Edged' /\ Offered'
  BY <1>1, HandsKept, EdgedKept, OfferedKept
<1> QED
  BY <1>2, <1>3, <1>4

\* The next write of an output.
LEMMA WriteMoreStructure ==
  ASSUME IdsAreNames, Structure, NEW k \in Agents, WriteMore(k)
  PROVE  Structure' /\ Nodes' = Nodes /\ Grows
<1> USE DEF Agents
<1>1. Types /\ Bounded /\ Hands /\ Marks
  BY DEF Structure
<1>2. PICK v : v = work[k].out
  OBVIOUS
<1>3. v # NoNode /\ graph[v].writes < Writes[k] /\ graph' = [graph EXCEPT ![v].writes = @ + 1]
  BY <1>2 DEF WriteMore
<1>4. UNCHANGED <<edges, refreshed, synced, work, quarantined, sent, resumed, resume, crashes>>
  BY DEF WriteMore
<1>5. work[k] # Idle
  BY <1>2, <1>3 DEF Idle
<1>6. v \in Nodes /\ Stage(v) = k
  BY <1>1, <1>2, <1>3, <1>5 DEF Hands, InHand
<1>7. PICK n : n = graph[v].writes + 1
  OBVIOUS
<1>8. n \in 1..3 /\ graph[v].writes <= n /\ n <= Writes[k]
  <2>1. graph[v].writes \in 1..3 /\ Writes[k] \in 1..3
    BY <1>1, <1>6, NodeParts, WritesRange
  <2> QED
    BY <1>3, <1>7, <2>1
<1>9. graph' = [graph EXCEPT ![v].writes = n]
  BY <1>3, <1>7
<1>10. /\ Nodes' = Nodes /\ Grows /\ graph' \in [Nodes' -> Records]
       /\ Trails' /\ Bounded' /\ Keyed'
  BY <1>6, <1>8, <1>9, WritesIs
<1>11. Types' /\ Cloned' /\ Cloning' /\ CloneInHand' /\ Hands' /\ Edged' /\ Offered'
  <2>1. (\A p \in sent' : p \in Nodes /\ Stage(p) = 4) /\ crashes' \in Nat
    BY <1>1, <1>4 DEF Types
  <2> QED
    BY <1>4, <1>10, <2>1, RestKept
<1>12. Marks'
  BY <1>1, <1>4, <1>10, MarksKept DEF Marks
<1> QED
  BY <1>10, <1>11, <1>12 DEF Structure

\* A new edge.
LEMMA NewEdge ==
  ASSUME Types, Edged, Grows, NEW a \in Nodes, NEW b \in Nodes, Stage(b) = Stage(a) + 1,
         RunOf(a) = RunOf(b), RunOf(a) \in Runs => \A e \in edges : e[1] # a,
         edges' = edges \cup {<<a, b>>}
  PROVE  Edged' /\ edges' \subseteq Nodes' \X Nodes'
<1>1. \A e \in edges : e[1] \in Nodes /\ e[2] \in Nodes /\ e = <<e[1], e[2]>>
  BY DEF Types
<1>2. \A v \in Nodes : v \in Nodes' /\ RunOf(v)' = RunOf(v)
  BY TrailKept
<1>3. edges' \subseteq Nodes' \X Nodes'
  BY <1>1, <1>2
<1>4. \A e \in edges' : Stage(e[2]) = Stage(e[1]) + 1 /\ RunOf(e[1])' = RunOf(e[2])'
  BY <1>1, <1>2 DEF Edged
<1>5. \A d, e \in edges' : RunOf(d[1])' \in Runs /\ d[1] = e[1] => d = e
  BY <1>1, <1>2 DEF Edged
<1> QED
  BY <1>3, <1>4, <1>5 DEF Edged, Stage, RunOf, Trail

\* The processed edge.
LEMMA LinkStructure ==
  ASSUME IdsAreNames, Structure, NEW k \in Agents, Link(k)
  PROVE  Structure'
<1> USE DEF Agents
<1>1. Types /\ Trails /\ Bounded /\ Keyed /\ Cloned /\ Cloning /\ CloneInHand /\ Hands /\ Edged
      /\ Offered /\ Marks
  BY DEF Structure
<1>2. PICK u, v : u = work[k].up /\ v = work[k].out
  OBVIOUS
<1>3. /\ v # NoNode /\ edges' = edges \cup {<<u, v>>} /\ work' = [work EXCEPT ![k] = Idle]
      /\ UNCHANGED <<graph, refreshed, synced, quarantined, sent, resumed, resume, crashes>>
  BY <1>2 DEF Link
<1>4. work[k] # Idle
  BY <1>2, <1>3 DEF Idle
<1>5. /\ u \in Nodes /\ v \in Nodes /\ Stage(u) = k - 1 /\ Stage(v) = k
      /\ RunOf(v) = RunOf(u) /\ (RunOf(u) \in Runs => \A e \in edges : e[1] # u)
  BY <1>1, <1>2, <1>3, <1>4 DEF Hands, InHand
<1>6. Nodes' = Nodes /\ Grows
  BY <1>1, <1>3, GraphSame
<1>7. Edged' /\ edges' \subseteq Nodes' \X Nodes'
  BY <1>1, <1>3, <1>5, <1>6, NewEdge
<1>8. Types'
  <2>1. work' \in [Agents -> [up : Places \cup {NoNode}, out : Places \cup {NoNode}]]
    BY <1>1, <1>3 DEF Types, Idle
  <2> QED
    BY <1>1, <1>3, <1>6, <1>7, <2>1 DEF Types, Stage
<1>9. Trails' /\ Keyed'
  BY <1>1, <1>6, TrailsKept, KeyedKept
<1>10. Bounded'
  BY <1>1, <1>3, <1>6 DEF Bounded
<1>11. Cloned' /\ Cloning' /\ CloneInHand'
  BY <1>1, <1>3, <1>6, ClonesKept
<1>12. Hands'
  <2>1. ASSUME NEW j \in Agents, work'[j] # Idle PROVE InHand(j)'
    <3>1. j # k /\ work'[j] = work[j]
      BY <1>1, <1>3, <2>1 DEF Types
    <3>2. InHand(j)
      BY <1>1, <2>1, <3>1 DEF Hands
    <3>3. work[j].up # u
      BY <1>5, <3>1, <3>2 DEF InHand
    <3> QED
      BY <1>1, <1>3, <1>6, <3>1, <3>2, <3>3, InHandKept
  <2> QED
    BY <2>1 DEF Hands, Idle
<1>13. Offered'
  BY <1>1, <1>3, <1>6, OfferedKept
<1>14. Marks'
  BY <1>1, <1>3, <1>6, MarksKept DEF Marks
<1> QED
  BY <1>7, <1>8, <1>9, <1>10, <1>11, <1>12, <1>13, <1>14 DEF Structure

\* Execution sends the orders of a PMRun.
LEMMA SubmitStructure ==
  ASSUME IdsAreNames, Structure, NEW u \in Nodes, Submit(u)
  PROVE  Structure' /\ Nodes' = Nodes /\ Grows
<1> USE DEF Agents
<1>1. Types /\ Trails /\ Bounded /\ Keyed /\ Cloned /\ Cloning /\ CloneInHand /\ Hands /\ Edged
      /\ Offered /\ Marks
  BY DEF Structure
<1>2. /\ work' = [work EXCEPT ![5] = [up |-> u, out |-> NoNode]]
      /\ UNCHANGED <<graph, edges, refreshed, synced, quarantined, resumed, resume, crashes>>
      /\ sent' \subseteq sent \cup {u}
  BY DEF Submit
<1>3. Stage(u) = 4 /\ (\A e \in edges : e[1] # u) /\ graph[u].writes >= Writes[4]
  <2>1. Stage(u) = 4 /\ \A e \in edges : e[1] # u
    BY DEF Submit, Due, Pending
  <2>2. ~(graph[u].writes < Writes[4])
    BY <2>1 DEF Submit, Raises, NoPayload
  <2>3. graph[u].writes \in 1..3 /\ Writes[4] \in 1..3
    BY <1>1, NodeParts, WritesRange
  <2> QED
    BY <2>1, <2>2, <2>3
<1>4. Nodes' = Nodes /\ Grows /\ u \in Places
  BY <1>1, <1>2, GraphSame, NodeParts
<1>5. Types'
  <2>1. work' \in [Agents -> [up : Places \cup {NoNode}, out : Places \cup {NoNode}]]
    BY <1>1, <1>2, <1>4 DEF Types
  <2>2. \A p \in sent' : p \in Nodes' /\ Stage(p) = 4
    BY <1>1, <1>2, <1>3, <1>4 DEF Types
  <2> QED
    BY <1>1, <1>2, <1>4, <2>1, <2>2 DEF Types, Stage
<1>6. Trails' /\ Bounded' /\ Keyed' /\ Edged'
  BY <1>1, <1>2, StillThere
<1>7. Cloned' /\ Cloning' /\ CloneInHand'
  BY <1>1, <1>2, <1>4, ClonesKept
<1>8. Hands'
  <2>1. ASSUME NEW j \in Agents, j # 5, work'[j] # Idle PROVE InHand(j)'
    <3>1. work'[j] = work[j]
      BY <1>1, <1>2, <2>1 DEF Types
    <3>2. InHand(j)
      BY <1>1, <2>1, <3>1 DEF Hands
    <3> QED
      BY <1>1, <1>2, <1>4, <3>1, <3>2, InHandKept
  <2>2. InHand(5)'
    <3>1. work'[5].up = u /\ work'[5].out = NoNode
      BY <1>1, <1>2 DEF Types
    <3> QED
      BY <1>2, <1>3, <1>4, <3>1 DEF InHand, Stage
  <2> QED
    BY <2>1, <2>2 DEF Hands, Idle
<1>9. Offered'
  BY <1>1, <1>2, <1>4, OfferedKept
<1>10. Marks'
  BY <1>1, <1>2, <1>4, MarksKept DEF Marks
<1> QED
  BY <1>4, <1>5, <1>6, <1>7, <1>8, <1>9, <1>10 DEF Structure

\* A kill.
LEMMA CrashStructure ==
  ASSUME IdsAreNames, Structure, NEW k \in Agents, Crash(k)
  PROVE  Structure'
<1> USE DEF Agents
<1>1. Types /\ Trails /\ Bounded /\ Keyed /\ Cloned /\ Cloning /\ CloneInHand /\ Hands /\ Edged
      /\ Offered /\ Marks
  BY DEF Structure
<1>2. /\ work' = [work EXCEPT ![k] = Idle] /\ crashes < MaxCrashes /\ crashes' = crashes + 1
      /\ UNCHANGED <<graph, edges, refreshed, synced, quarantined, sent, resumed, resume>>
  BY DEF Crash
<1>3. Nodes' = Nodes /\ Grows
  BY <1>1, <1>2, GraphSame
<1>4. Types'
  <2>1. work' \in [Agents -> [up : Places \cup {NoNode}, out : Places \cup {NoNode}]]
    BY <1>1, <1>2 DEF Types, Idle
  <2>2. crashes' \in Nat
    BY <1>1, <1>2 DEF Types
  <2> QED
    BY <1>1, <1>2, <1>3, <2>1, <2>2 DEF Types, Stage
<1>5. Trails' /\ Bounded' /\ Keyed' /\ Edged'
  BY <1>1, <1>2, StillThere
<1>6. Cloned' /\ Cloning' /\ CloneInHand'
  BY <1>1, <1>2, <1>3, ClonesKept
<1>7. Hands'
  <2>1. ASSUME NEW j \in Agents, work'[j] # Idle PROVE InHand(j)'
    <3>1. work'[j] = work[j]
      BY <1>1, <1>2, <2>1 DEF Types
    <3>2. InHand(j)
      BY <1>1, <2>1, <3>1 DEF Hands
    <3> QED
      BY <1>1, <1>2, <1>3, <3>1, <3>2, InHandKept
  <2> QED
    BY <2>1 DEF Hands, Idle
<1>8. Offered'
  BY <1>1, <1>2, <1>3, OfferedKept
<1>9. Marks'
  <2>1. crashes' <= MaxCrashes
    BY <1>1, <1>2, BoundAssumption DEF Types
  <2> QED
    BY <1>1, <1>2, <1>3, <2>1, MarksKept
<1> QED
  BY <1>4, <1>5, <1>6, <1>7, <1>8, <1>9 DEF Structure

\* Markers: the snapshot, the position sync, a quarantine.
LEMMA MarkStructure ==
  ASSUME IdsAreNames, Structure,
         UNCHANGED <<graph, edges, work, sent, resumed, resume, crashes>>,
         \A r \in (refreshed' \cup synced') \ (refreshed \cup synced) : Request(r) \in Nodes,
         \A q \in quarantined' \ quarantined : q[1] \in Agents /\ q[2] \in Nodes
  PROVE  Structure'
<1>1. Types /\ Trails /\ Bounded /\ Keyed /\ Edged /\ Marks
  BY DEF Structure
<1>2. Nodes' = Nodes /\ Grows
  BY <1>1, GraphSame
<1>3. Trails' /\ Bounded' /\ Keyed' /\ Edged'
  BY <1>1, StillThere
<1>4. Types' /\ Cloned' /\ Cloning' /\ CloneInHand' /\ Hands' /\ Offered'
  <2>1. (\A p \in sent' : p \in Nodes /\ Stage(p) = 4) /\ crashes' \in Nat
        /\ graph' \in [Nodes' -> Records]
    BY <1>1, <1>2 DEF Types
  <2> QED
    BY <1>2, <1>3, <2>1, RestKept
<1>5. Marks'
  BY <1>1, <1>2 DEF Marks, Request
<1> QED
  BY <1>3, <1>4, <1>5 DEF Structure

----------------------------------------------------------------------------
(* The steps of resume_run *)

\* The resume ends, or its process is killed.
LEMMA ResumeOver ==
  ASSUME Cloned, Grows, Nodes' = Nodes, resume' = NoResume, resumed' = resumed, IdsAreNames
  PROVE  Cloned' /\ Cloning' /\ CloneInHand' /\ Offered'
<1>1. resume'.child = NoNode /\ resume'.clone = NoNode
  BY DEF NoResume
<1>2. Cloned'
  BY <1>1 DEF Cloned, IdsAreNames
<1> QED
  BY <1>1, <1>2 DEF Cloning, CloneInHand, Offered

\* The process of a resume is killed.
LEMMA ResumeCrashStructure ==
  ASSUME IdsAreNames, Structure, ResumeCrash
  PROVE  Structure'
<1>1. Types /\ Trails /\ Bounded /\ Keyed /\ Cloned /\ Hands /\ Edged /\ Marks
  BY DEF Structure
<1>2. /\ crashes < MaxCrashes /\ crashes' = crashes + 1 /\ resume' = NoResume
      /\ UNCHANGED <<graph, edges, refreshed, synced, work, quarantined, sent, resumed>>
  BY DEF ResumeCrash
<1>3. Nodes' = Nodes /\ Grows
  BY <1>1, <1>2, GraphSame
<1>4. Types'
  <2>1. resume' \in [child : Children \cup {NoNode}, at : 0..7, clone : Places \cup {NoNode}]
    BY <1>2 DEF NoResume
  <2>2. crashes' \in Nat
    BY <1>1, <1>2 DEF Types
  <2> QED
    BY <1>1, <1>2, <1>3, <2>1, <2>2 DEF Types, Stage
<1>5. Trails' /\ Bounded' /\ Keyed' /\ Edged' /\ Hands'
  BY <1>1, <1>2, <1>3, StillThere, HandsKept
<1>6. Cloned' /\ Cloning' /\ CloneInHand' /\ Offered'
  BY <1>1, <1>2, <1>3, ResumeOver
<1>7. Marks'
  <2>1. crashes' <= MaxCrashes
    BY <1>1, <1>2, BoundAssumption DEF Types
  <2> QED
    BY <1>1, <1>2, <1>3, <2>1, MarksKept
<1> QED
  BY <1>4, <1>5, <1>6, <1>7 DEF Structure

\* The clone of the marker.
LEMMA ClonePositionSyncStructure ==
  ASSUME IdsAreNames, Structure, ClonePositionSync
  PROVE  Structure'
<1>1. Types /\ Trails /\ Bounded /\ Keyed /\ Cloned /\ Cloning /\ CloneInHand /\ Hands /\ Edged
      /\ Offered /\ Marks
  BY DEF Structure
<1>2. PICK c : c = resume.child
  OBVIOUS
<1>3. /\ c # NoNode /\ resume.at = 0 /\ synced' \subseteq synced \cup {c}
      /\ resume' = [resume EXCEPT !.at = 1]
      /\ UNCHANGED <<graph, edges, refreshed, work, quarantined, sent, resumed, crashes>>
  BY <1>2 DEF ClonePositionSync
<1>4. Nodes' = Nodes /\ Grows
  BY <1>1, <1>3, GraphSame
<1>5. resume.clone = NoNode
  BY <1>1, <1>3 DEF CloneInHand
<1>6. /\ resume' \in [child : Children \cup {NoNode}, at : 0..7, clone : Places \cup {NoNode}]
      /\ resume'.child = c /\ resume'.at = 1 /\ resume'.clone = NoNode
  BY <1>1, <1>2, <1>3, <1>5 DEF Types
<1>7. Types'
  BY <1>1, <1>3, <1>4, <1>6 DEF Types, Stage
<1>8. Trails' /\ Bounded' /\ Keyed' /\ Edged' /\ Hands'
  BY <1>1, <1>3, <1>4, StillThere, HandsKept
<1>9. Cloned'
  <2>1. \A v \in Nodes : v[2] \in Children =>
          /\ v[2] \in DOMAIN resumed
          /\ v[2] = c => Stage(v) = 0 \/ Stage(v) < 0 \/ v = NoNode
    BY <1>1, <1>2, <1>3, <1>5 DEF Cloned
  <2>2. \A v \in Nodes : v # NoNode /\ Stage(v) \in 0..7
    BY <1>1, NodeParts DEF IdsAreNames
  <2> QED
    BY <1>3, <1>4, <1>6, <2>1, <2>2 DEF Cloned, Stage
<1>10. Cloning'
  <2>1. /\ c \in DOMAIN resumed
        /\ \A j \in 0..7 : j = 0 =>
             /\ <<j, c>> \in Nodes
             /\ \A i \in 1..(j + 1) : Trail(<<j, c>>)[i] = <<i - 1, c>>
    BY <1>1, <1>2, <1>3 DEF Cloning
  <2>2. \A j \in 0..7 : j < 1 => j = 0
    OBVIOUS
  <2> QED
    BY <1>3, <1>4, <1>6, <2>1, <2>2 DEF Cloning, Trail
<1>11. CloneInHand'
  BY <1>6 DEF CloneInHand
<1>12. Offered'
  BY <1>1, <1>2, <1>3, <1>4, <1>6, OfferedKept
<1>13. Marks'
  <2>1. Request(c) \in Nodes
    BY <1>1, <1>2, <1>3 DEF Cloning, Request
  <2> QED
    BY <1>1, <1>3, <1>4, <2>1 DEF Marks, Request
<1> QED
  BY <1>7, <1>8, <1>9, <1>10, <1>11, <1>12, <1>13 DEF Structure

\* What the clone's first write makes of the graph.
LEMMA CloneIs ==
  ASSUME IdsAreNames, Structure, CloneNode
  PROVE  \E c \in Children, k \in 1..6, n \in 1..3, b \in BOOLEAN, t \in Seq(Places) :
           /\ c = resume.child /\ k = resume.at /\ resume.clone = NoNode /\ c # NoNode
           /\ <<k, c>> \in Places /\ <<k, c>> \notin Nodes /\ n <= Writes[k]
           /\ k >= 3 => n = Writes[k]
           /\ t = [j \in 1..(k + 1) |-> <<j - 1, c>>]
           /\ graph' = Put(graph, <<k, c>>, Node(n, t, b))
           /\ resume' = [resume EXCEPT !.clone = <<k, c>>]
<1>1. Types /\ Trails /\ Edged /\ Cloned /\ Offered
  BY DEF Structure
<1>2. PICK c, k, f, r : c = resume.child /\ k = resume.at /\ f = From /\ r = Source
  OBVIOUS
<1>3. c # NoNode /\ resume.clone = NoNode /\ k \in 1..(f - 1)
  BY <1>2 DEF CloneNode
<1>4. c \in Children /\ c \in DOMAIN resumed
  BY <1>1, <1>2, <1>3 DEF Types, Structure, Cloning
<1>5. f \in 0..7 /\ r \in Runs \cup Earlier
  BY <1>1, <1>2, <1>4 DEF Types, From, Source
<1>6. k \in 1..6
  BY <1>3, <1>5
<1>7. PICK n : n = IF k <= 2 THEN 1 ELSE Writes[k]
  OBVIOUS
<1>8. n \in 1..3 /\ n <= Writes[k] /\ (k >= 3 => n = Writes[k])
  BY <1>6, <1>7, WritesRange
<1>9. PICK t : t = [j \in 1..(k + 1) |-> <<j - 1, c>>]
  OBVIOUS
<1>10. ASSUME NEW j \in 0..7 PROVE <<j, c>> \in Places
  BY <1>4 DEF Places, Names
<1>11. t \in Seq(Places)
  <2>1. \A j \in 1..(k + 1) : <<j - 1, c>> \in Places
    BY <1>6, <1>10
  <2> QED
    BY <1>6, <1>9, <2>1
<1>12. PICK s : s = CHOOSE m \in Line(r) : Stage(m) = k
  OBVIOUS
<1>13. s \in Nodes
  <2>1. \E m \in Line(r) : Stage(m) = k
    BY <1>1, <1>2, <1>3, <1>5 DEF Offered
  <2>2. s \in Line(r)
    BY <1>12, <2>1
  <2> QED
    BY <1>1, <2>2, LineIs DEF Types
<1>14. PICK b : b = graph[s].sound
  OBVIOUS
<1>15. b \in BOOLEAN
  BY <1>1, <1>13, <1>14, NodeParts
<1>16. <<k, c>> \notin Nodes
  <2>1. <<k, c>>[2] = c /\ Stage(<<k, c>>) = k /\ <<k, c>> # NoNode
    BY <1>6, <1>10 DEF Stage, IdsAreNames
  <2> QED
    BY <1>1, <1>2, <1>3, <1>4, <1>6, <2>1 DEF Cloned
<1>17. /\ graph' = Put(graph, <<k, c>>, Node(n, t, b))
       /\ resume' = [resume EXCEPT !.clone = <<k, c>>]
  BY <1>2, <1>7, <1>9, <1>12, <1>14 DEF CloneNode
<1>18. <<k, c>> \in Places
  BY <1>6, <1>10
<1> QED
  BY <1>2, <1>3, <1>4, <1>6, <1>8, <1>9, <1>11, <1>15, <1>16, <1>17, <1>18

\* _link_upstream: the node.
LEMMA CloneNodeStructure ==
  ASSUME IdsAreNames, Structure, CloneNode
  PROVE  /\ Structure' /\ Grows
         /\ \A v \in Nodes' \ Nodes : v[2] \in Children /\ RunOf(v)' \in Children
         /\ \A w \in Nodes : graph'[w] = graph[w]
<1>1. Types /\ Trails /\ Bounded /\ Keyed /\ Cloned /\ Cloning /\ CloneInHand /\ Hands /\ Edged
      /\ Offered /\ Marks
  BY DEF Structure
<1>2. PICK c \in Children, k \in 1..6, n \in 1..3, b \in BOOLEAN, t \in Seq(Places) :
           /\ c = resume.child /\ k = resume.at /\ resume.clone = NoNode /\ c # NoNode
           /\ <<k, c>> \in Places /\ <<k, c>> \notin Nodes /\ n <= Writes[k]
           /\ k >= 3 => n = Writes[k]
           /\ t = [j \in 1..(k + 1) |-> <<j - 1, c>>]
           /\ graph' = Put(graph, <<k, c>>, Node(n, t, b))
           /\ resume' = [resume EXCEPT !.clone = <<k, c>>]
  BY CloneIs
<1>3. UNCHANGED <<edges, refreshed, synced, work, quarantined, sent, resumed, crashes>>
  BY DEF CloneNode
<1>4. PICK v : v = <<k, c>>
  OBVIOUS
<1>5. v \in Places /\ v \notin Nodes /\ Stage(v) = k /\ v[2] = c
  BY <1>2, <1>4 DEF Stage
<1>6. graph' = Put(graph, v, Node(n, t, b))
  BY <1>2, <1>4
<1>7. /\ Nodes' = Nodes \cup {v} /\ graph' \in [Nodes' -> Records] /\ IsFiniteSet(Nodes')
      /\ Nodes' \subseteq Places /\ Grows
      /\ graph'[v].trail = t /\ graph'[v].writes = n
      /\ \A w \in Nodes : graph'[w] = graph[w]
  BY <1>1, <1>5, <1>6, NewNode
<1>8. Len(t) = k + 1 /\ \A i \in 1..(k + 1) : t[i] = <<i - 1, c>>
  BY <1>2
<1>9. /\ resume' \in [child : Children \cup {NoNode}, at : 0..7, clone : Places \cup {NoNode}]
      /\ resume'.child = c /\ resume'.at = k /\ resume'.clone = v
  BY <1>1, <1>2, <1>4, <1>5 DEF Types
<1>10. Types'
  <2>1. edges' \subseteq Nodes' \X Nodes' /\ \A p \in sent' : p \in Nodes' /\ Stage(p) = 4
    BY <1>1, <1>3, <1>7 DEF Types
  <2> QED
    BY <1>1, <1>3, <1>7, <1>9, <2>1 DEF Types, Stage
<1>11. ASSUME NEW j \in 1..k
       PROVE  /\ t[j] \in Nodes /\ Stage(t[j]) = j - 1
              /\ \A i \in 1..j : Trail(t[j])[i] = t[i]
  <2>1. j - 1 \in 0..7 /\ (j - 1 = 0 \/ j - 1 < k) /\ t[j] = <<j - 1, c>>
    BY <1>8
  <2>2. <<j - 1, c>> \in Nodes
        /\ \A i \in 1..((j - 1) + 1) : Trail(<<j - 1, c>>)[i] = <<i - 1, c>>
    BY <1>1, <1>2, <2>1 DEF Cloning
  <2>3. \A i \in 1..j : t[i] = <<i - 1, c>> /\ i \in 1..((j - 1) + 1)
    BY <1>8
  <2> QED
    <3>1. t[j] \in Nodes /\ Stage(t[j]) = j - 1
      BY <2>1, <2>2 DEF Stage
    <3>2. \A i \in 1..j : Trail(t[j])[i] = <<i - 1, c>>
      BY <2>1, <2>2, <2>3
    <3> QED
      BY <2>3, <3>1, <3>2
<1>12. Trailed(v)'
  <2>1. \A j \in 1..k : t[j] \in Nodes' /\ graph'[t[j]].trail = Trail(t[j])
    BY <1>7, <1>11 DEF Trail
  <2>2. \A j \in 1..k : \A i \in 1..j : graph'[t[j]].trail[i] = t[i]
    BY <1>11, <2>1
  <2>3. Len(t) = k + 1 /\ t[k + 1] = v /\ \A j \in 1..k : t[j] \in Nodes' /\ Stage(t[j]) = j - 1
    BY <1>4, <1>8, <1>11, <2>1
  <2> QED
    BY <1>5, <1>7, <2>2, <2>3 DEF Trailed, Stage, Trail
<1>13. Trails'
  BY <1>1, <1>7, <1>12, TrailsKept
<1>14. Bounded'
  BY <1>1, <1>2, <1>5, <1>7 DEF Bounded, Stage
<1>15. Keyed'
  BY <1>1, <1>5, <1>7, KeyedKept
<1>16. Cloned'
  <2>1. \A w \in Nodes : w[2] \in Children =>
          /\ w[2] \in DOMAIN resumed'
          /\ w[2] = c => Stage(w) = 0 \/ Stage(w) < k \/ w = v
    <3>1. \A w \in Nodes : w # NoNode
      BY <1>1, NodeParts DEF IdsAreNames
    <3> QED
      BY <1>1, <1>2, <1>3, <3>1 DEF Cloned
  <2>2. c \in DOMAIN resumed'
    BY <1>1, <1>2, <1>3 DEF Cloning
  <2> QED
    BY <1>5, <1>7, <1>9, <2>1, <2>2 DEF Cloned, Stage
<1>17. Cloning'
  <2>1. ASSUME NEW j \in 0..7, j = 0 \/ j < k
        PROVE  /\ <<j, c>> \in Nodes'
               /\ \A i \in 1..(j + 1) : graph'[<<j, c>>].trail[i] = <<i - 1, c>>
    <3>1. <<j, c>> \in Nodes /\ \A i \in 1..(j + 1) : Trail(<<j, c>>)[i] = <<i - 1, c>>
      BY <1>1, <1>2, <2>1 DEF Cloning
    <3> QED
      BY <1>7, <3>1 DEF Trail
  <2>2. c \in DOMAIN resumed'
    BY <1>1, <1>2, <1>3 DEF Cloning
  <2> QED
    BY <1>9, <2>1, <2>2 DEF Cloning, Trail
<1>18. CloneInHand'
  <2>1. \A i \in 1..(k + 1) : graph'[v].trail[i] = <<i - 1, c>>
    BY <1>7, <1>8
  <2>2. c # NoNode /\ k \in 1..6 /\ v = <<k, c>> /\ v \in Nodes'
    BY <1>2, <1>4, <1>7
  <2> QED
    BY <1>9, <2>1, <2>2 DEF CloneInHand, Trail
<1>19. Hands' /\ Edged' /\ Offered'
  BY <1>1, <1>2, <1>3, <1>7, <1>9, HandsKept, EdgedKept, OfferedKept
<1>20. Marks'
  BY <1>1, <1>3, <1>7, MarksKept DEF Marks
<1>21. RunOf(v)' = c
  BY <1>7, <1>8 DEF RunOf, Trail
<1> QED
  BY <1>5, <1>7, <1>10, <1>13, <1>14, <1>15, <1>16, <1>17, <1>18, <1>19, <1>20, <1>21
  DEF Structure

\* _link_upstream: its edges.
LEMMA CloneLinkIs ==
  ASSUME IdsAreNames, Structure, CloneLink
  PROVE  \E c \in Children, k \in 1..6, a \in Nodes, v \in Nodes :
           /\ c = resume.child /\ k = resume.at /\ v = resume.clone /\ c # NoNode
           /\ a = <<k - 1, c>> /\ v = <<k, c>> /\ RunOf(a) = c /\ RunOf(v) = c
           /\ Stage(a) = k - 1 /\ Stage(v) = k
           /\ edges' = edges \cup {<<a, v>>} /\ Nodes' = Nodes /\ Grows
           /\ graph' \in [Nodes' -> Records] /\ Trails' /\ Bounded' /\ Keyed'
           /\ resume'.child = c /\ resume'.at = k + 1 /\ resume'.clone = NoNode
           /\ k = 2 => graph'[v].writes >= Writes[k]
<1>1. Types /\ Trails /\ Bounded /\ Keyed /\ Cloning /\ CloneInHand
  BY DEF Structure
<1>2. PICK c, k, v : c = resume.child /\ k = resume.at /\ v = resume.clone
  OBVIOUS
<1>3. v # NoNode /\ edges' = edges \cup {<<Origin(v), v>>}
      /\ graph' = (IF Stage(v) = 2 THEN [graph EXCEPT ![v].writes = Writes[2]] ELSE graph)
      /\ resume' = [resume EXCEPT !.at = @ + 1, !.clone = NoNode]
  BY <1>2 DEF CloneLink
<1>4. c # NoNode /\ k \in 1..6 /\ v = <<k, c>> /\ v \in Nodes
      /\ \A i \in 1..(k + 1) : Trail(v)[i] = <<i - 1, c>>
  BY <1>1, <1>2, <1>3 DEF CloneInHand
<1>5. Stage(v) = k /\ c \in Children
  BY <1>1, <1>2, <1>4 DEF Stage, Types
<1>6. PICK a : a = <<k - 1, c>>
  OBVIOUS
<1>7. Stage(a) = k - 1 /\ Origin(v) = a
  BY <1>4, <1>5, <1>6 DEF Stage, Origin
<1>8. a \in Nodes /\ Trail(a)[1] = <<0, c>>
  <2>1. PICK m \in 0..7 : m = k - 1
    BY <1>4
  <2>2. m < k /\ 1 \in 1..(m + 1)
    BY <1>4, <2>1
  <2>3. <<m, c>> \in Nodes /\ \A i \in 1..(m + 1) : Trail(<<m, c>>)[i] = <<i - 1, c>>
    BY <1>1, <1>2, <1>4, <2>2 DEF Cloning
  <2>4. a = <<m, c>>
    BY <1>6, <2>1
  <2>5. Trail(a)[1] = <<1 - 1, c>>
    BY <2>2, <2>3, <2>4
  <2> QED
    BY <2>3, <2>4, <2>5
<1>9. RunOf(a) = c /\ RunOf(v) = c
  BY <1>4, <1>8 DEF RunOf
<1>10. /\ Nodes' = Nodes /\ Grows /\ graph' \in [Nodes' -> Records]
       /\ Trails' /\ Bounded' /\ Keyed'
  <2>1. CASE k = 2
    <3>1. PICK n : n = Writes[2]
      OBVIOUS
    <3>2. graph' = [graph EXCEPT ![v].writes = n] /\ n \in 1..3 /\ n = 3
      BY <1>3, <1>5, <2>1, <3>1, WritesRange
    <3>3. graph[v].writes <= n /\ n <= Writes[Stage(v)]
      <4>1. graph[v].writes \in 1..3 /\ Writes[Stage(v)] = 3
        BY <1>1, <1>4, <1>5, <2>1, NodeParts, WritesRange
      <4> QED
        BY <3>2, <4>1
    <3> QED
      BY <3>2, <3>3, WritesIs
  <2>2. CASE k # 2
    <3>1. graph' = graph
      BY <1>3, <1>5, <2>2
    <3>2. Nodes' = Nodes /\ Grows /\ graph' \in [Nodes' -> Records]
      BY <1>1, <3>1, GraphSame DEF Types
    <3>3. Bounded'
      BY <1>1, <3>1, <3>2 DEF Bounded
    <3> QED
      BY <1>1, <3>2, <3>3, TrailsKept, KeyedKept
  <2> QED
    BY <2>1, <2>2
<1>11. resume'.child = c /\ resume'.at = k + 1 /\ resume'.clone = NoNode
  BY <1>1, <1>2, <1>3 DEF Types
<1>12. k = 2 => graph'[v].writes >= Writes[k]
  <2>1. k = 2 => graph'[v].writes = Writes[k]
    BY <1>1, <1>3, <1>4, <1>5, NodeParts DEF Records, Types
  <2> QED
    BY <2>1, WritesRange
<1> QED
  BY <1>2, <1>3, <1>4, <1>5, <1>6, <1>7, <1>8, <1>9, <1>10, <1>11, <1>12

\* The clone's edges keep the structure.
LEMMA CloneLinkStructure ==
  ASSUME IdsAreNames, Structure, CloneLink
  PROVE  Structure'
<1>1. Types /\ Trails /\ Cloned /\ Cloning /\ CloneInHand /\ Hands /\ Edged /\ Offered /\ Marks
  BY DEF Structure
<1>2. PICK c \in Children, k \in 1..6, a \in Nodes, v \in Nodes :
           /\ c = resume.child /\ k = resume.at /\ v = resume.clone /\ c # NoNode
           /\ a = <<k - 1, c>> /\ v = <<k, c>> /\ RunOf(a) = c /\ RunOf(v) = c
           /\ Stage(a) = k - 1 /\ Stage(v) = k
           /\ edges' = edges \cup {<<a, v>>} /\ Nodes' = Nodes /\ Grows
           /\ graph' \in [Nodes' -> Records] /\ Trails' /\ Bounded' /\ Keyed'
           /\ resume'.child = c /\ resume'.at = k + 1 /\ resume'.clone = NoNode
  BY CloneLinkIs
<1>3. UNCHANGED <<refreshed, synced, work, quarantined, sent, resumed, crashes>>
  BY DEF CloneLink
<1>4. c \notin Runs
  BY BoundAssumption
<1>5. Edged' /\ edges' \subseteq Nodes' \X Nodes'
  BY <1>1, <1>2, <1>4, NewEdge
<1>6. Types'
  <2>1. resume' \in [child : Children \cup {NoNode}, at : 0..7, clone : Places \cup {NoNode}]
    <3>1. resume' = [resume EXCEPT !.at = @ + 1, !.clone = NoNode]
      BY DEF CloneLink
    <3>2. resume' = [child |-> c, at |-> k + 1, clone |-> NoNode]
      BY <1>1, <1>2, <3>1 DEF Types
    <3> QED
      BY <3>2
  <2> QED
    BY <1>1, <1>2, <1>3, <1>5, <2>1 DEF Types, Stage
<1>7. Hands'
  <2>1. ASSUME NEW j \in Agents, work'[j] # Idle PROVE InHand(j)'
    <3>1. work'[j] = work[j] /\ InHand(j)
      BY <1>1, <1>3, <2>1 DEF Hands
    <3>2. a # work[j].up \/ RunOf(work[j].up) \notin Runs
      BY <1>2, <1>4
    <3> QED
      BY <1>1, <1>2, <3>1, <3>2, InHandKept
  <2> QED
    BY <2>1 DEF Hands, Idle
<1>8. Cloned'
  <2>1. ASSUME NEW w \in Nodes, w[2] \in Children
        PROVE  /\ w[2] \in DOMAIN resumed'
               /\ w[2] = c => Stage(w) = 0 \/ Stage(w) < k + 1 \/ w = NoNode
    <3>1. /\ w[2] \in DOMAIN resumed
          /\ w[2] = c => Stage(w) = 0 \/ Stage(w) < k \/ w = v
      BY <1>1, <1>2, <2>1 DEF Cloned
    <3>2. Stage(w) \in 0..7 /\ Stage(v) = k
      BY <1>1, <1>2, NodeParts
    <3> QED
      BY <1>3, <3>1, <3>2
  <2> QED
    BY <1>2, <2>1 DEF Cloned, Stage
<1>9. Cloning'
  <2>1. ASSUME NEW j \in 0..7, j = 0 \/ j < k + 1
        PROVE  <<j, c>> \in Nodes /\ \A i \in 1..(j + 1) : Trail(<<j, c>>)[i] = <<i - 1, c>>
    <3>1. CASE j = k
      <4>1. v # NoNode
        BY <1>1, NodeParts DEF IdsAreNames
      <4>2. \A i \in 1..(k + 1) : Trail(v)[i] = <<i - 1, c>>
        BY <1>1, <1>2, <4>1 DEF CloneInHand
      <4> QED
        BY <1>2, <3>1, <4>2
    <3>2. CASE j = 0 \/ j < k
      BY <1>1, <1>2, <3>2 DEF Cloning
    <3> QED
      BY <2>1, <3>1, <3>2
  <2>2. ASSUME NEW j \in 0..7, j = 0 \/ j < k + 1
        PROVE  <<j, c>> \in Nodes' /\ \A i \in 1..(j + 1) : Trail(<<j, c>>)'[i] = <<i - 1, c>>
    <3>1. <<j, c>> \in Nodes' /\ Trail(<<j, c>>)' = Trail(<<j, c>>)
      BY <1>2, <2>1, <2>2, TrailKept
    <3> QED
      BY <2>1, <2>2, <3>1
  <2>3. c \in DOMAIN resumed'
    BY <1>1, <1>2, <1>3 DEF Cloning
  <2> QED
    BY <1>2, <2>2, <2>3 DEF Cloning, Trail
<1>10. CloneInHand'
  BY <1>2 DEF CloneInHand
<1>11. Offered'
  BY <1>1, <1>2, <1>3, OfferedKept
<1>12. Marks'
  BY <1>1, <1>2, <1>3, MarksKept DEF Marks
<1> QED
  BY <1>2, <1>5, <1>6, <1>7, <1>8, <1>9, <1>10, <1>11, <1>12 DEF Structure

\* _link_regime, and the answer.
LEMMA LinkRegimeStructure ==
  ASSUME IdsAreNames, Structure, LinkRegime
  PROVE  Structure' /\ Nodes' = Nodes /\ Grows
<1>1. Types /\ Trails /\ Bounded /\ Keyed /\ Cloned /\ Hands /\ Edged /\ Marks
  BY DEF Structure
<1>2. PICK v, f : v = <<1, resume.child>> /\ f = From
  OBVIOUS
<1>3. /\ graph' = (IF f > 1 THEN [graph EXCEPT ![v].writes = 2] ELSE graph)
      /\ resume' = NoResume
      /\ UNCHANGED <<edges, refreshed, synced, work, quarantined, sent, resumed, crashes>>
  BY <1>2 DEF LinkRegime
<1>4. /\ Nodes' = Nodes /\ Grows /\ graph' \in [Nodes' -> Records]
      /\ Trails' /\ Bounded' /\ Keyed'
  <2>1. CASE f > 1
    <3>1. PICK n \in 1..3 : n = 2
      OBVIOUS
    <3>2. graph' = [graph EXCEPT ![v].writes = n] /\ Stage(v) = 1
      BY <1>2, <1>3, <2>1, <3>1 DEF Stage
    <3>3. v \in Nodes => graph[v].writes <= n /\ n <= Writes[Stage(v)]
      <4>1. v \in Nodes => graph[v].writes <= Writes[1]
        BY <1>1, <3>2 DEF Bounded
      <4> QED
        BY <3>1, <3>2, <4>1, WritesRange
    <3> QED
      BY <3>2, <3>3, WritesIs
  <2>2. CASE ~(f > 1)
    <3>1. graph' = graph
      BY <1>3, <2>2
    <3>2. Nodes' = Nodes /\ Grows /\ graph' \in [Nodes' -> Records]
      BY <1>1, <3>1, GraphSame DEF Types
    <3>3. Bounded'
      BY <1>1, <3>1, <3>2 DEF Bounded
    <3> QED
      BY <1>1, <3>2, <3>3, TrailsKept, KeyedKept
  <2> QED
    BY <2>1, <2>2
<1>5. Types'
  <2>1. resume' \in [child : Children \cup {NoNode}, at : 0..7, clone : Places \cup {NoNode}]
    BY <1>3 DEF NoResume
  <2> QED
    BY <1>1, <1>3, <1>4, <2>1 DEF Types, Stage
<1>6. Hands' /\ Edged'
  BY <1>1, <1>3, <1>4, HandsKept, EdgedKept
<1>7. Cloned' /\ Cloning' /\ CloneInHand' /\ Offered'
  BY <1>1, <1>3, <1>4, ResumeOver
<1>8. Marks'
  BY <1>1, <1>3, <1>4, MarksKept DEF Marks
<1> QED
  BY <1>4, <1>5, <1>6, <1>7, <1>8 DEF Structure

----------------------------------------------------------------------------
(* The agents' first writes *)

\* What an agent wrote when it took u: nothing of it was in hand, u is free of
\* edges, and of a complete node.
Took(k, u, v) ==
  /\ Wrote(k, u, v) /\ Stage(u) = k - 1 /\ work[k].out = NoNode
  /\ RunOf(u) \in Runs => \A e \in edges : e[1] # u
  /\ k \in 3..7 => graph[u].writes >= Writes[k - 1]
  /\ UNCHANGED <<edges, refreshed, synced, quarantined, sent, resumed, resume, crashes>>

\* A poll that takes u does so.
LEMMA TakeIs ==
  ASSUME IdsAreNames, Structure, NEW k \in Agents, NEW u \in Nodes, NEW s \in BOOLEAN,
         Take(k, u, s)
  PROVE  \E v : Took(k, u, v)
<1> USE DEF Agents
<1>1. Types
  BY DEF Structure
<1>2. /\ Stage(u) = k - 1 /\ (\A e \in edges : e[1] # u) /\ work[k] = Idle
      /\ ~Raises(k, u) /\ Write(k, u, s)
      /\ UNCHANGED <<edges, refreshed, synced, quarantined, sent, resumed, resume, crashes>>
  BY DEF Take, Due, Pending
<1>3. k = 1 => u[2] \notin Children /\ <<1, u[2]>> \notin Nodes
  BY <1>2 DEF Raises, NoHistory, IsChild, KeyTaken, Nodes
<1>4. PICK v : Wrote(k, u, v)
  BY <1>2, <1>3, WriteIs
<1>5. k \in 3..7 => graph[u].writes >= Writes[k - 1]
  <2>1. graph[u].writes \in 1..3
    BY <1>1, NodeParts
  <2>2. CASE k \in {3, 4, 5}
    <3>1. ~(graph[u].writes < Writes[k - 1])
      BY <1>2, <2>2 DEF Raises, NoPayload
    <3>2. k - 1 \in 1..7
      BY <2>2
    <3>3. Writes[k - 1] \in 1..3
      BY <3>2, WritesRange
    <3> QED
      BY <2>1, <3>1, <3>3
  <2>3. CASE k \in {6, 7}
    <3>1. Writes[k - 1] = 1
      BY <2>3, WritesRange
    <3> QED
      BY <2>1, <3>1
  <2> QED
    BY <2>2, <2>3
<1>6. work[k].out = NoNode
  BY <1>2 DEF Idle
<1> QED
  BY <1>2, <1>4, <1>5, <1>6 DEF Took

\* Execution writes its ExecutionRun after the orders were sent.
LEMMA RecordIs ==
  ASSUME IdsAreNames, Structure, RecordRun
  PROVE  \E u \in Nodes : \E v : Took(5, u, v)
<1> USE DEF Agents
<1>1. Types /\ Hands
  BY DEF Structure
<1>2. PICK u : u = work[5].up
  OBVIOUS
<1>3. work[5] # Idle /\ work[5].out = NoNode
  BY DEF RecordRun, Idle
<1>4. /\ u \in Nodes /\ Stage(u) = 4 /\ graph[u].writes >= Writes[4]
      /\ (RunOf(u) \in Runs => \A e \in edges : e[1] # u)
  BY <1>1, <1>2, <1>3 DEF Hands, InHand
<1>5. PICK s : s = graph[u].sound
  OBVIOUS
<1>6. s \in BOOLEAN
  BY <1>1, <1>4, <1>5, NodeParts
<1>7. Write(5, u, s)
      /\ UNCHANGED <<edges, refreshed, synced, quarantined, sent, resumed, resume, crashes>>
  BY <1>2, <1>5 DEF RecordRun
<1>8. PICK v : Wrote(5, u, v)
  BY <1>4, <1>6, <1>7, WriteIs
<1> QED
  BY <1>3, <1>4, <1>7, <1>8 DEF Took

\* It keeps the structure.
LEMMA TookStructure ==
  ASSUME IdsAreNames, Structure, NEW k \in Agents, NEW u \in Nodes, NEW v, Took(k, u, v)
  PROVE  Structure'
BY WriteStructure DEF Took

\* Every poll that takes something, but Submit.
LEMMA PollIs ==
  ASSUME IdsAreNames, Structure, NEW u \in Nodes,
         Ingest(u) \/ Scan(u) \/ Analyze(u) \/ Evaluate(u) \/ Monitor(u) \/ Report(u)
  PROVE  \E k \in Agents : \E v : Took(k, u, v)
<1> USE DEF Agents
<1>1. graph[u].sound \in BOOLEAN
  BY NodeParts DEF Structure
<1>2. TRUE \in BOOLEAN /\ Scored(u) \in BOOLEAN /\ Priced(u) \in BOOLEAN
  BY <1>1, Zenon DEF Scored, Priced
<1>3. \E k \in Agents, s \in BOOLEAN : Take(k, u, s)
  <2>1. /\ 1 \in Agents /\ 2 \in Agents /\ 3 \in Agents
        /\ 4 \in Agents /\ 6 \in Agents /\ 7 \in Agents
    OBVIOUS
  <2> QED
    BY <1>1, <1>2, <2>1, Zenon DEF Ingest, Scan, Analyze, Evaluate, Monitor, Report
<1> QED
  BY <1>3, TakeIs

----------------------------------------------------------------------------
(* All steps *)

\* Steps that only mark something.
OnlyMarks ==
  /\ UNCHANGED <<graph, edges, work, sent, crashes>>
  /\ resume' = resume \/ (resume'.at = 1 /\ resume'.clone = NoNode)

\* The kinds of steps.
StepKind ==
  \/ \E r \in Runs : Place(r)
  \/ \E c \in Children, r \in Runs \cup Earlier, s \in ResumeFrom : ResumeRun(c, r, s)
  \/ \E k \in Agents, u \in Nodes : \E v : Took(k, u, v)
  \/ \E u \in Nodes : Submit(u)
  \/ \E k \in Agents : WriteMore(k) \/ Link(k) \/ Crash(k)
  \/ CloneNode \/ CloneLink \/ LinkRegime \/ ResumeCrash
  \/ OnlyMarks /\ Structure'

\* There are no other steps.
LEMMA StepKinds ==
  ASSUME IdsAreNames, Structure, Next
  PROVE  StepKind
<1> USE DEF Agents
<1>1. Types
  BY DEF Structure
<1>2. ASSUME HeadSync PROVE OnlyMarks /\ Structure'
  <2>1. PICK u \in Requests : SyncRunRequest(u) \/ SyncPositions(u)
    BY <1>2 DEF HeadSync
  <2>2. u \in Nodes /\ Stage(u) = 0
    BY DEF Requests, Nodes
  <2>3. Request(u[2]) \in Nodes
    BY <1>1, <2>2, NodeParts DEF Request
  <2>4. /\ UNCHANGED <<graph, edges, work, quarantined, sent, resumed, resume, crashes>>
        /\ refreshed' \cup synced' \subseteq refreshed \cup synced \cup {u[2]}
    BY <2>1 DEF SyncRunRequest, SyncPositions
  <2> QED
    BY <2>3, <2>4, MarkStructure DEF OnlyMarks
<1>3. ASSUME NEW k \in Agents, GiveUp(k) PROVE OnlyMarks /\ Structure'
  <2>1. PICK u \in Nodes : Quarantine(k, u)
    BY <1>3 DEF GiveUp, Nodes
  <2>2. /\ UNCHANGED <<graph, edges, refreshed, synced, work, sent, resumed, resume, crashes>>
        /\ quarantined' = quarantined \cup {<<k, u>>}
    BY <2>1 DEF Quarantine
  <2> QED
    BY <2>2, MarkStructure DEF OnlyMarks
<1>4. ASSUME ClonePositionSync PROVE OnlyMarks /\ Structure'
  <2>1. Structure'
    BY <1>4, ClonePositionSyncStructure
  <2>2. resume.at = 0 /\ resume' = [resume EXCEPT !.at = 1]
        /\ UNCHANGED <<graph, edges, work, sent, crashes>>
    BY <1>4 DEF ClonePositionSync
  <2>3. resume.clone = NoNode
    BY <2>2 DEF Structure, CloneInHand
  <2>4. resume'.at = 1 /\ resume'.clone = NoNode
    BY <1>1, <2>2, <2>3 DEF Types
  <2> QED
    BY <2>1, <2>2, <2>4 DEF OnlyMarks
<1>5. ASSUME Poll PROVE StepKind
  <2>1. PICK u \in Nodes : \/ Ingest(u) \/ Scan(u) \/ Analyze(u) \/ Evaluate(u)
                           \/ Submit(u) \/ Monitor(u) \/ Report(u)
    BY <1>5 DEF Poll, Nodes
  <2>2. CASE Submit(u)
    BY <2>2 DEF StepKind
  <2>3. CASE Ingest(u) \/ Scan(u) \/ Analyze(u) \/ Evaluate(u) \/ Monitor(u) \/ Report(u)
    <3>1. \E k \in Agents : \E v : Took(k, u, v)
      BY <2>3, PollIs
    <3> QED
      BY <3>1 DEF StepKind
  <2> QED
    BY <2>1, <2>2, <2>3
<1>6. ASSUME WriteOn PROVE StepKind
  <2>1. CASE RecordRun
    <3>1. \E u \in Nodes : \E v : Took(5, u, v)
      BY <2>1, RecordIs
    <3> QED
      BY <3>1 DEF StepKind
  <2>2. CASE ~RecordRun
    <3>1. WriteMore(1) \/ WriteMore(2) \/ WriteMore(3) \/ WriteMore(4)
      BY <1>6, <2>2
      DEF WriteOn, WriteRegime, WriteCandidateSet, WriteRecommendationSet, WriteOrderIntentSet
    <3> QED
      BY <3>1 DEF StepKind
  <2> QED
    BY <2>1, <2>2
<1> QED
  BY <1>2, <1>3, <1>4, <1>5, <1>6 DEF Next, Fleet, ResumeStep, StepKind

\* Every step keeps the structure.
LEMMA StructureStep ==
  ASSUME IdsAreNames, Structure, [Next]_vars
  PROVE  Structure'
<1>1. CASE UNCHANGED vars
  BY <1>1, MarkStructure DEF vars
<1>2. CASE Next
  <2>1. StepKind
    BY <1>2, StepKinds
  <2> QED
    BY <2>1, PlaceStructure, ResumeStructure, TookStructure, SubmitStructure,
       WriteMoreStructure, LinkStructure, CrashStructure, CloneNodeStructure,
       CloneLinkStructure, LinkRegimeStructure, ResumeCrashStructure
    DEF StepKind
<1> QED
  BY <1>1, <1>2

----------------------------------------------------------------------------
(* Outputs left behind *)

\* Whose output is not let go is not left behind.
LEMMA DeadKept ==
  ASSUME IdsAreNames, Types, Grows, edges \subseteq edges', NEW r \in Runs, NEW X,
         \A w \in Nodes' \ Nodes :
           RunOf(w)' # r \/ Stage(w) = 0 \/ \E k \in Agents : work'[k].out = w,
         \A k \in Agents, w \in Nodes :
           work[k].out = w /\ Stage(w) \in 1..4 => work'[k].out = w \/ Linked(w)' \/ w \in X
  PROVE  Dead(r)' \subseteq Dead(r) \cup X
<1>1. ASSUME NEW w \in Dead(r)', w \notin X PROVE w \in Dead(r)
  <2>1. /\ w \in Nodes' /\ RunOf(w)' = r /\ Stage(w) \in 1..4 /\ ~Linked(w)'
        /\ \A k \in Agents : work'[k].out # w
    BY DEF Dead, Stage
  <2>2. w \in Nodes
    BY <2>1
  <2>3. RunOf(w) = r /\ ~Linked(w)
    BY <2>1, <2>2, TrailKept DEF Linked
  <2>4. \A k \in Agents : work[k].out # w
    BY <1>1, <2>1, <2>2
  <2> QED
    BY <2>1, <2>2, <2>3, <2>4 DEF Dead
<1> QED
  BY <1>1

\* No more are left behind than processes were killed.
LEMMA KilledKept ==
  ASSUME Types, Killed, NEW r \in Runs, Dead(r)' \subseteq Dead(r), crashes' = crashes
  PROVE  Cardinality(Dead(r)') <= crashes'
<1>1. IsFiniteSet(Dead(r))
  BY FS_Subset DEF Types, Dead
<1>2. Cardinality(Dead(r)') \in Nat /\ Cardinality(Dead(r)') <= Cardinality(Dead(r))
      /\ Cardinality(Dead(r)) \in Nat
  BY <1>1, FS_Subset, FS_CardinalityType
<1> QED
  BY <1>2 DEF Killed, Types

\* A new RunRequest is all that a placed or a resumed run begins with.
LEMMA BegunIs ==
  ASSUME IdsAreNames, Structure,
         \/ \E r \in Runs : Place(r)
         \/ \E c \in Children, r \in Runs \cup Earlier, s \in ResumeFrom : ResumeRun(c, r, s)
  PROVE  /\ Grows /\ UNCHANGED <<edges, work, sent, crashes>>
         /\ \A w \in Nodes' \ Nodes : Stage(w) = 0
         /\ \A w \in Nodes : graph'[w] = graph[w]
<1>1. Cloned
  BY DEF Structure
<1>2. \E x \in Names, b \in BOOLEAN :
         /\ Request(x) \notin Nodes
         /\ graph' = Put(graph, Request(x), Node(1, <<Request(x)>>, b))
  <2>1. CASE \E r \in Runs : Place(r)
    <3>1. PICK r \in Runs : Place(r)
      BY <2>1
    <3>2. r \in Names /\ Request(r) \notin Nodes
      BY <3>1 DEF Names, Place, Nodes
    <3>3. \E b \in BOOLEAN : graph' = Put(graph, Request(r), Node(1, <<Request(r)>>, b))
      BY <3>1 DEF Place
    <3> QED
      BY <3>2, <3>3
  <2>2. CASE \E c \in Children, r \in Runs \cup Earlier, s \in ResumeFrom : ResumeRun(c, r, s)
    <3>1. PICK c \in Children, r \in Runs \cup Earlier, s \in ResumeFrom : ResumeRun(c, r, s)
      BY <2>2
    <3>2. c \in Names /\ c \notin DOMAIN resumed /\ Request(c)[2] = c
      BY <3>1 DEF Names, ResumeRun, Request
    <3>3. Request(c) \notin Nodes
      BY <1>1, <3>2 DEF Cloned
    <3>4. \E b \in BOOLEAN : graph' = Put(graph, Request(c), Node(1, <<Request(c)>>, b))
      BY <3>1 DEF ResumeRun
    <3> QED
      BY <3>2, <3>3, <3>4
  <2> QED
    BY <2>1, <2>2
<1>3. UNCHANGED <<edges, work, sent, crashes>>
  BY DEF Place, ResumeRun
<1>4. PICK x \in Names, b \in BOOLEAN :
         /\ Request(x) \notin Nodes
         /\ graph' = Put(graph, Request(x), Node(1, <<Request(x)>>, b))
  BY <1>2
<1>5. /\ Grows /\ Nodes' = Nodes \cup {Request(x)} /\ \A w \in Nodes : graph'[w] = graph[w]
  BY <1>3, <1>4, RequestIs
<1>6. Stage(Request(x)) = 0
  BY DEF Request, Stage
<1> QED
  BY <1>3, <1>5, <1>6

\* An output is left behind only when its writer is killed: every step keeps the
\* bound.
LEMMA KilledStep ==
  ASSUME IdsAreNames, Structure, Killed, [Next]_vars
  PROVE  Killed'
<1> USE DEF Agents
<1>1. Types /\ Hands
  BY DEF Structure
<1>2. \A w \in Nodes : w # NoNode
  BY <1>1, NodeParts DEF IdsAreNames
<1> SUFFICES ASSUME NEW r \in Runs PROVE Cardinality(Dead(r)') <= crashes'
  BY DEF Killed
<1>3. r \notin Children
  BY BoundAssumption
<1>4. ASSUME UNCHANGED <<graph, edges, work, crashes>> PROVE Cardinality(Dead(r)') <= crashes'
  <2>1. Nodes' = Nodes /\ Grows
    BY <1>1, <1>4, GraphSame
  <2>2. Dead(r)' \subseteq Dead(r) \cup {}
    BY <1>1, <1>4, <2>1, DeadKept
  <2> QED
    BY <1>1, <1>4, <2>2, KilledKept
<1>5. CASE UNCHANGED vars
  BY <1>4, <1>5 DEF vars
<1>6. ASSUME \/ \E x \in Runs : Place(x)
             \/ \E c \in Children, x \in Runs \cup Earlier, s \in ResumeFrom : ResumeRun(c, x, s)
      PROVE  Cardinality(Dead(r)') <= crashes'
  <2>1. /\ Grows /\ UNCHANGED <<edges, work, sent, crashes>>
        /\ \A w \in Nodes' \ Nodes : Stage(w) = 0
    BY <1>6, BegunIs
  <2>2. Dead(r)' \subseteq Dead(r) \cup {}
    BY <1>1, <2>1, DeadKept
  <2> QED
    BY <1>1, <2>1, <2>2, KilledKept
<1>7. ASSUME NEW k \in Agents, NEW u \in Nodes, NEW v, Took(k, u, v)
      PROVE  Cardinality(Dead(r)') <= crashes'
  <2>1. /\ Grows /\ Nodes' = Nodes \cup {v} /\ edges' = edges /\ crashes' = crashes
        /\ work' = [work EXCEPT ![k] = [up |-> u, out |-> v]] /\ work[k].out = NoNode
    BY <1>7 DEF Took, Wrote
  <2>2. work'[k].out = v /\ \A j \in Agents : j # k => work'[j] = work[j]
    BY <1>1, <2>1 DEF Types
  <2>3. Dead(r)' \subseteq Dead(r) \cup {}
    BY <1>1, <1>2, <2>1, <2>2, DeadKept
  <2> QED
    BY <1>1, <2>1, <2>3, KilledKept
<1>8. ASSUME NEW u \in Nodes, Submit(u) PROVE Cardinality(Dead(r)') <= crashes'
  <2>1. Nodes' = Nodes /\ Grows
    BY <1>8, SubmitStructure
  <2>2. /\ edges' = edges /\ crashes' = crashes /\ work[5] = Idle
        /\ work' = [work EXCEPT ![5] = [up |-> u, out |-> NoNode]]
    BY <1>8 DEF Submit, Due
  <2>3. work[5].out = NoNode /\ \A j \in Agents : j # 5 => work'[j] = work[j]
    BY <1>1, <2>2 DEF Types, Idle
  <2>4. Dead(r)' \subseteq Dead(r) \cup {}
    BY <1>1, <1>2, <2>1, <2>2, <2>3, DeadKept
  <2> QED
    BY <1>1, <2>2, <2>4, KilledKept
<1>9. ASSUME NEW k \in Agents, WriteMore(k) PROVE Cardinality(Dead(r)') <= crashes'
  <2>1. Nodes' = Nodes /\ Grows
    BY <1>9, WriteMoreStructure
  <2>2. UNCHANGED <<edges, work, crashes>>
    BY <1>9 DEF WriteMore
  <2>3. Dead(r)' \subseteq Dead(r) \cup {}
    BY <1>1, <2>1, <2>2, DeadKept
  <2> QED
    BY <1>1, <2>2, <2>3, KilledKept
<1>10. ASSUME NEW k \in Agents, Link(k) PROVE Cardinality(Dead(r)') <= crashes'
  <2>1. PICK u, v : u = work[k].up /\ v = work[k].out
    OBVIOUS
  <2>2. /\ v # NoNode /\ edges' = edges \cup {<<u, v>>} /\ work' = [work EXCEPT ![k] = Idle]
        /\ graph' = graph /\ crashes' = crashes
    BY <1>10, <2>1 DEF Link
  <2>3. Nodes' = Nodes /\ Grows
    BY <1>1, <2>2, GraphSame
  <2>4. v \in Nodes /\ Stage(v) = k /\ (k \in 1..6 => Origin(v) = u)
    <3>1. work[k] # Idle
      BY <2>1, <2>2 DEF Idle
    <3> QED
      BY <1>1, <2>1, <2>2, <3>1 DEF Hands, InHand
  <2>5. k \in 1..4 => Linked(v)'
    <3>1. Origin(v)' = Origin(v)
      BY <2>3, <2>4, TrailKept
    <3> QED
      BY <2>2, <2>4, <3>1 DEF Linked
  <2>6. \A j \in Agents : j # k => work'[j] = work[j]
    BY <1>1, <2>2 DEF Types
  <2>7. \A j \in Agents, w \in Nodes :
          work[j].out = w /\ Stage(w) \in 1..4 => work'[j].out = w \/ Linked(w)'
    <3>1. ASSUME NEW j \in Agents, NEW w \in Nodes, work[j].out = w, Stage(w) \in 1..4
          PROVE  work'[j].out = w \/ Linked(w)'
      <4>1. CASE j # k
        BY <2>6, <3>1, <4>1
      <4>2. CASE j = k
        <5>1. w = v /\ k \in 1..4
          BY <2>1, <2>4, <3>1, <4>2
        <5> QED
          BY <2>5, <5>1
      <4> QED
        BY <4>1, <4>2
    <3> QED
      BY <3>1
  <2>8. Dead(r)' \subseteq Dead(r) \cup {}
    BY <1>1, <2>2, <2>3, <2>7, DeadKept
  <2> QED
    BY <1>1, <2>2, <2>8, KilledKept
<1>11. ASSUME NEW k \in Agents, Crash(k) PROVE Cardinality(Dead(r)') <= crashes'
  <2>1. PICK x : x = work[k].out
    OBVIOUS
  <2>2. /\ work' = [work EXCEPT ![k] = Idle] /\ crashes' = crashes + 1
        /\ UNCHANGED <<graph, edges>>
    BY <1>11 DEF Crash
  <2>3. Nodes' = Nodes /\ Grows
    BY <1>1, <2>2, GraphSame
  <2>4. \A j \in Agents : j # k => work'[j] = work[j]
    BY <1>1, <2>2 DEF Types
  <2>5. Dead(r)' \subseteq Dead(r) \cup {x}
    BY <1>1, <2>1, <2>2, <2>3, <2>4, DeadKept
  <2>6. IsFiniteSet(Dead(r)) /\ Cardinality(Dead(r)) \in Nat
    BY <1>1, FS_Subset, FS_CardinalityType DEF Types, Dead
  <2>7. /\ IsFiniteSet(Dead(r) \cup {x}) /\ Cardinality(Dead(r) \cup {x}) \in Nat
        /\ Cardinality(Dead(r) \cup {x}) <= Cardinality(Dead(r)) + 1
    BY <2>6, FS_AddElement
  <2>8. Cardinality(Dead(r)') <= Cardinality(Dead(r) \cup {x}) /\ Cardinality(Dead(r)') \in Nat
    BY <2>5, <2>7, FS_Subset, FS_CardinalityType
  <2>9. Cardinality(Dead(r)) <= crashes /\ crashes \in Nat
    BY <1>1 DEF Killed, Types
  <2> QED
    BY <2>2, <2>6, <2>7, <2>8, <2>9
<1>12. ASSUME CloneNode PROVE Cardinality(Dead(r)') <= crashes'
  <2>1. Grows /\ \A v \in Nodes' \ Nodes : RunOf(v)' \in Children
    BY <1>12, CloneNodeStructure
  <2>2. UNCHANGED <<edges, work, crashes>>
    BY <1>12 DEF CloneNode
  <2>3. Dead(r)' \subseteq Dead(r) \cup {}
    BY <1>1, <1>3, <2>1, <2>2, DeadKept
  <2> QED
    BY <1>1, <2>2, <2>3, KilledKept
<1>13. ASSUME CloneLink \/ LinkRegime PROVE Cardinality(Dead(r)') <= crashes'
  <2>1. Grows /\ Nodes' = Nodes /\ edges \subseteq edges'
    <3>1. CASE CloneLink
      BY <3>1, CloneLinkIs
    <3>2. CASE LinkRegime
      BY <3>2, LinkRegimeStructure DEF LinkRegime
    <3> QED
      BY <1>13, <3>1, <3>2
  <2>2. UNCHANGED <<work, crashes>>
    BY <1>13 DEF CloneLink, LinkRegime
  <2>3. Dead(r)' \subseteq Dead(r) \cup {}
    BY <1>1, <2>1, <2>2, DeadKept
  <2> QED
    BY <1>1, <2>2, <2>3, KilledKept
<1>14. ASSUME ResumeCrash PROVE Cardinality(Dead(r)') <= crashes'
  <2>1. UNCHANGED <<graph, edges, work>> /\ crashes' = crashes + 1
    BY <1>14 DEF ResumeCrash
  <2>2. Dead(r)' = Dead(r)
    BY <2>1 DEF Dead, Nodes, RunOf, Linked, Origin, Trail, Stage
  <2>3. Cardinality(Dead(r)) <= crashes /\ crashes \in Nat
        /\ Cardinality(Dead(r)) \in Nat
    BY <1>1, FS_Subset, FS_CardinalityType DEF Killed, Types, Dead
  <2> QED
    BY <2>1, <2>2, <2>3
<1>15. CASE Next
  <2>1. StepKind
    BY <1>15, StepKinds
  <2> QED
    BY <1>4, <1>6, <1>7, <1>8, <1>9, <1>10, <1>11, <1>12, <1>13, <1>14, <2>1
    DEF StepKind, OnlyMarks
<1> QED
  BY <1>5, <1>15

----------------------------------------------------------------------------
(* The start: runs that were reported before *)

\* The outputs of an earlier run, by stage.
LEMMA PastIs ==
  ASSUME NEW r, NEW k \in 0..7
  PROVE  PastTrail(r)[k + 1] = IF k \in {5, 7} THEN <<k, <<4, r>>>> ELSE <<k, r>>
<1>1. /\ PastTrail(r)[1] = <<0, r>> /\ PastTrail(r)[2] = <<1, r>> /\ PastTrail(r)[3] = <<2, r>>
      /\ PastTrail(r)[4] = <<3, r>> /\ PastTrail(r)[5] = <<4, r>>
      /\ PastTrail(r)[6] = <<5, <<4, r>>>> /\ PastTrail(r)[7] = <<6, r>>
      /\ PastTrail(r)[8] = <<7, <<4, r>>>>
  BY DEF PastTrail, Request
<1>2. k \in {0, 1, 2, 3, 4, 5, 6, 7}
  OBVIOUS
<1> QED
  BY <1>1, <1>2

\* The graph starts with their nodes, each under a key of its own.
LEMMA PastGraph ==
  ASSUME Init, NEW r \in Earlier, NEW k \in 0..7, NEW v, v = PastTrail(r)[k + 1]
  PROVE  /\ v \in Nodes
         /\ graph[v] = Node(IF k = 0 THEN 1 ELSE Writes[k], SubSeq(PastTrail(r), 1, k + 1), TRUE)
<1>1. <<r, k>> \in Past /\ <<r, k>>[1] = r /\ <<r, k>>[2] = k
  BY DEF Past
<1>2. ASSUME NEW y \in Past, PastTrail(y[1])[y[2] + 1] = v PROVE y = <<r, k>>
  <2>1. y = <<y[1], y[2]>> /\ y[1] \in Earlier /\ y[2] \in 0..7
    BY DEF Past
  <2>2. v = (IF y[2] \in {5, 7} THEN <<y[2], <<4, y[1]>>>> ELSE <<y[2], y[1]>>)
    BY <1>2, <2>1, PastIs
  <2>3. v = (IF k \in {5, 7} THEN <<k, <<4, r>>>> ELSE <<k, r>>)
    BY PastIs
  <2>4. y[2] = k
    BY <2>2, <2>3
  <2>5. y[1] = r
    BY <2>2, <2>3, <2>4
  <2> QED
    BY <2>1, <2>4, <2>5
<1>3. (CHOOSE y \in Past : PastTrail(y[1])[y[2] + 1] = v) = <<r, k>>
  BY <1>1, <1>2
<1>4. v \in {PastTrail(x[1])[x[2] + 1] : x \in Past}
  BY <1>1
<1>5. v \in Nodes /\ graph[v] = LET x == CHOOSE y \in Past : PastTrail(y[1])[y[2] + 1] = v
                IN  Node(IF x[2] = 0 THEN 1 ELSE Writes[x[2]],
                         SubSeq(PastTrail(x[1]), 1, x[2] + 1), TRUE)
  BY <1>4 DEF Init, Nodes
<1> QED
  BY <1>1, <1>3, <1>5

\* What such a node holds.
LEMMA PastNode ==
  ASSUME Init, NEW r \in Earlier, NEW k \in 0..7, NEW v, v = PastTrail(r)[k + 1]
  PROVE  /\ v \in Nodes /\ v \in Places /\ Stage(v) = k
         /\ v[2] = (IF k \in {5, 7} THEN <<4, r>> ELSE r)
         /\ graph[v] \in Records /\ graph[v].writes = IF k = 0 THEN 1 ELSE Writes[k]
         /\ Len(Trail(PastTrail(r)[k + 1])) = k + 1
         /\ \A i \in 1..(k + 1) : Trail(v)[i] = PastTrail(r)[i]
<1>1. v = IF k \in {5, 7} THEN <<k, <<4, r>>>> ELSE <<k, r>>
  BY PastIs
<1>2. r \in Names
  BY DEF Names
<1>3. v \in Places /\ Stage(v) = k /\ v[2] = (IF k \in {5, 7} THEN <<4, r>> ELSE r)
  BY <1>1, <1>2 DEF Places, Stage
<1>4. PICK n : n = IF k = 0 THEN 1 ELSE Writes[k]
  OBVIOUS
<1>5. n \in 1..3
  BY <1>4, WritesRange
<1>6. PICK t : t = SubSeq(PastTrail(r), 1, k + 1)
  OBVIOUS
<1>7. \A i \in 1..8 : PastTrail(r)[i] \in Places
  <2>1. ASSUME NEW i \in 1..8 PROVE PastTrail(r)[i] \in Places
    <3>1. PICK j \in 0..7 : i = j + 1
      <4>1. i - 1 \in 0..7 /\ i = (i - 1) + 1
        OBVIOUS
      <4> QED
        BY <4>1
    <3>2. PastTrail(r)[j + 1] = IF j \in {5, 7} THEN <<j, <<4, r>>>> ELSE <<j, r>>
      BY PastIs
    <3> QED
      BY <1>2, <3>1, <3>2 DEF Places
  <2> QED
    BY <2>1
<1>8. PastTrail(r) \in Seq(Places) /\ Len(PastTrail(r)) = 8
  <2>1. Len(PastTrail(r)) = 8 /\ PastTrail(r) = [i \in 1..8 |-> PastTrail(r)[i]]
    BY DEF PastTrail
  <2>2. [i \in 1..8 |-> PastTrail(r)[i]] \in Seq(Places)
    BY <1>7
  <2> QED
    BY <2>1, <2>2
<1>9. t \in Seq(Places) /\ Len(t) = k + 1 /\ \A i \in 1..(k + 1) : t[i] = PastTrail(r)[i]
  BY <1>6, <1>8
<1>10. v \in Nodes /\ graph[v] = Node(n, t, TRUE)
  BY <1>4, <1>6, PastGraph
<1>11. graph[v] \in Records /\ graph[v].writes = n /\ graph[v].trail = t
  BY <1>5, <1>9, <1>10 DEF Node, Records
<1> QED
  <2>1. Trail(v) = t
    BY <1>11 DEF Trail
  <2> QED
    BY <1>3, <1>4, <1>9, <1>10, <1>11, <2>1

\* The invariant holds at the start, where every node is complete.
LEMMA InitStructure ==
  ASSUME IdsAreNames, Init
  PROVE  /\ Structure /\ Killed
         /\ \A v \in Nodes : /\ RunOf(v) \in Earlier
                             /\ Stage(v) > 0 => graph[v].writes = Writes[Stage(v)]
<1> USE DEF Agents
<1>1. ASSUME NEW v \in Nodes
      PROVE  \E r \in Earlier, k \in 0..7 : v = PastTrail(r)[k + 1]
  <2>1. Nodes = {PastTrail(x[1])[x[2] + 1] : x \in Past}
    BY DEF Init, Nodes
  <2>2. PICK x \in Past : v = PastTrail(x[1])[x[2] + 1]
    BY <2>1
  <2> QED
    BY <2>2 DEF Past
<1>2. /\ refreshed = Earlier /\ synced = Earlier /\ work = [k \in Agents |-> Idle]
      /\ quarantined = {} /\ sent = {<<4, r>> : r \in Earlier} /\ resumed = <<>>
      /\ resume = NoResume /\ crashes = 0
  BY DEF Init
<1>3. \A k \in Agents : work[k] = Idle
  BY <1>2
<1>4. ASSUME NEW e \in edges
      PROVE  /\ e[1] \in Nodes /\ e[2] \in Nodes /\ e = <<e[1], e[2]>>
             /\ Stage(e[2]) = Stage(e[1]) + 1
             /\ RunOf(e[1]) = RunOf(e[2]) /\ RunOf(e[1]) \in Earlier
  <2>1. edges = {<<PastTrail(x[1])[x[2]], PastTrail(x[1])[x[2] + 1]>> :
                   x \in {y \in Past : y[2] > 0}}
    BY DEF Init
  <2>2. PICK x \in Past : x[2] > 0 /\ e = <<PastTrail(x[1])[x[2]], PastTrail(x[1])[x[2] + 1]>>
    BY <2>1
  <2>3. PICK r \in Earlier, k \in 0..7 : r = x[1] /\ k = x[2]
    BY DEF Past
  <2>4. PICK j \in 0..7 : j = k - 1
    BY <2>2, <2>3
  <2>5. e[1] = PastTrail(r)[j + 1] /\ e[2] = PastTrail(r)[k + 1]
    <3>1. k = j + 1
      BY <2>4
    <3> QED
      BY <2>2, <2>3, <3>1
  <2>6. /\ e[1] \in Nodes /\ Stage(e[1]) = j /\ 1 \in 1..(j + 1)
        /\ \A i \in 1..(j + 1) : Trail(e[1])[i] = PastTrail(r)[i]
    BY <2>5, PastNode
  <2>7. /\ e[2] \in Nodes /\ Stage(e[2]) = k /\ 1 \in 1..(k + 1)
        /\ \A i \in 1..(k + 1) : Trail(e[2])[i] = PastTrail(r)[i]
    BY <2>5, PastNode
  <2>8. PastTrail(r)[1] = <<0, r>>
    BY DEF PastTrail, Request
  <2>9. RunOf(e[1]) = r /\ RunOf(e[2]) = r
    BY <2>6, <2>7, <2>8 DEF RunOf
  <2>10. e = <<e[1], e[2]>>
    BY <2>2
  <2> QED
    BY <2>4, <2>6, <2>7, <2>9, <2>10
<1>5. Types
  <2>1. Nodes \subseteq Places /\ \A v \in Nodes : graph[v] \in Records
    <3>1. ASSUME NEW v \in Nodes PROVE v \in Places /\ graph[v] \in Records
      <4>1. PICK r \in Earlier, k \in 0..7 : v = PastTrail(r)[k + 1]
        BY <1>1
      <4> QED
        BY <4>1, PastNode
    <3> QED
      BY <3>1
  <2>2. graph \in [Nodes -> Records]
    <3>1. graph = [v \in Nodes |-> graph[v]]
      <4> DEFINE F(v) == LET x == CHOOSE y \in Past : PastTrail(y[1])[y[2] + 1] = v
                         IN  Node(IF x[2] = 0 THEN 1 ELSE Writes[x[2]],
                                  SubSeq(PastTrail(x[1]), 1, x[2] + 1), TRUE)
                 S == {PastTrail(x[1])[x[2] + 1] : x \in Past}
      <4>1. graph = [v \in S |-> F(v)]
        BY DEF Init
      <4> HIDE DEF F, S
      <4> QED
        BY <4>1 DEF Nodes
    <3> QED
      BY <2>1, <3>1
  <2>3. IsFiniteSet(Nodes)
    <3>1. IsFiniteSet(Past)
      <4>1. IsFiniteSet(Earlier) /\ IsFiniteSet(0..7)
        <5>1. IsFiniteSet(Earlier)
          BY BoundAssumption
        <5>2. IsFiniteSet(0..7)
          <6>1. PICK a \in Int, b \in Int : a = 0 /\ b = 7
            OBVIOUS
          <6>2. IsFiniteSet(a..b)
            BY FS_Interval
          <6> QED
            BY <6>1, <6>2
        <5> QED
          BY <5>1, <5>2
      <4> QED
        BY <4>1, FS_Product DEF Past
    <3>2. Nodes = {PastTrail(x[1])[x[2] + 1] : x \in Past}
      BY DEF Init, Nodes
    <3> DEFINE f == [x \in Past |-> PastTrail(x[1])[x[2] + 1]]
    <3>3. f \in Surjection(Past, Nodes)
      BY <3>2 DEF Surjection
    <3> QED
      BY <3>1, <3>3, FS_Surjection
  <2>4. edges \subseteq Nodes \X Nodes
    BY <1>4
  <2>5. work \in [Agents -> [up : Places \cup {NoNode}, out : Places \cup {NoNode}]]
    BY <1>2 DEF Idle
  <2>6. resume \in [child : Children \cup {NoNode}, at : 0..7, clone : Places \cup {NoNode}]
    BY <1>2 DEF NoResume
  <2>7. resumed \in [DOMAIN resumed -> [source : Runs \cup Earlier, from : 0..7]]
        /\ DOMAIN resumed \subseteq Children
    BY <1>2
  <2>8. ASSUME NEW p \in sent PROVE p \in Nodes /\ Stage(p) = 4
    <3>1. PICK r \in Earlier : p = <<4, r>>
      BY <1>2
    <3>2. p = PastTrail(r)[4 + 1]
      BY <3>1, PastIs
    <3> QED
      BY <3>2, PastNode
  <2> QED
    BY <1>2, <2>1, <2>2, <2>3, <2>4, <2>5, <2>6, <2>7, <2>8 DEF Types
<1>6. ASSUME NEW v \in Nodes
      PROVE  /\ Trailed(v) /\ RunOf(v) \in Earlier /\ v[2] \notin Children
             /\ Stage(v) > 0 => graph[v].writes = Writes[Stage(v)]
             /\ Stage(v) = 5 => v[2] = Origin(v)
             /\ Stage(v) = 7 => v[2] = PMOf(v)
             /\ Stage(v) > 0 => Origin(v) \in Nodes /\ Stage(Origin(v)) = Stage(v) - 1
             /\ Linked(v) \/ Stage(v) = 0
  <2>1. PICK r \in Earlier, k \in 0..7 : v = PastTrail(r)[k + 1]
    BY <1>1
  <2>2. /\ Stage(v) = k /\ v[2] = (IF k \in {5, 7} THEN <<4, r>> ELSE r)
        /\ graph[v].writes = IF k = 0 THEN 1 ELSE Writes[k]
        /\ Len(Trail(v)) = k + 1 /\ \A i \in 1..(k + 1) : Trail(v)[i] = PastTrail(r)[i]
    <3>1. Stage(v) = k /\ v[2] = (IF k \in {5, 7} THEN <<4, r>> ELSE r)
      <4>1. v = IF k \in {5, 7} THEN <<k, <<4, r>>>> ELSE <<k, r>>
        BY <2>1, PastIs
      <4> QED
        BY <4>1 DEF Stage
    <3>2. graph[v].writes = IF k = 0 THEN 1 ELSE Writes[k]
      BY <2>1, PastNode
    <3>3. \A i \in 1..(k + 1) : Trail(v)[i] = PastTrail(r)[i]
      BY <2>1, PastNode
    <3>4. Len(Trail(PastTrail(r)[k + 1])) = k + 1
      BY <2>1, PastNode
    <3> QED
      BY <2>1, <3>1, <3>2, <3>3, <3>4
  <2>3. PastTrail(r)[1] = <<0, r>> /\ PastTrail(r)[5] = <<4, r>>
    BY DEF PastTrail, Request
  <2>4. RunOf(v) = r
    BY <2>2, <2>3 DEF RunOf
  <2>5. ASSUME NEW j \in 1..k
        PROVE  /\ Trail(v)[j] \in Nodes /\ Stage(Trail(v)[j]) = j - 1
               /\ \A i \in 1..j : Trail(Trail(v)[j])[i] = Trail(v)[i]
    <3>1. PICK m \in 0..7 : m = j - 1
      OBVIOUS
    <3>2. PICK w : w = PastTrail(r)[m + 1]
      OBVIOUS
    <3>3. Trail(v)[j] = w /\ j = m + 1
      BY <2>2, <3>1, <3>2
    <3>4. /\ w \in Nodes /\ Stage(w) = m
          /\ \A i \in 1..(m + 1) : Trail(w)[i] = PastTrail(r)[i]
      BY <3>2, PastNode
    <3>5. \A i \in 1..j : Trail(w)[i] = Trail(v)[i]
      BY <2>2, <3>3, <3>4
    <3> QED
      BY <3>1, <3>3, <3>4, <3>5
  <2>6. Trailed(v)
    BY <2>1, <2>2, <2>5 DEF Trailed
  <2>7. v[2] \notin Children
    <3>1. r \notin Children /\ <<4, r>> \notin Children
      BY BoundAssumption DEF IdsAreNames, Names
    <3> QED
      BY <2>2, <3>1
  <2>8. /\ Stage(v) = 5 => v[2] = Origin(v)
        /\ Stage(v) = 7 => v[2] = PMOf(v)
    BY <2>2, <2>3 DEF Origin, PMOf
  <2>9. ASSUME k > 0 PROVE Origin(v) \in Nodes /\ Stage(Origin(v)) = k - 1 /\ Linked(v)
    <3>1. Origin(v) \in Nodes /\ Stage(Origin(v)) = k - 1
      BY <2>2, <2>5, <2>9 DEF Origin
    <3>2. <<Origin(v), v>> = <<PastTrail(r)[k], PastTrail(r)[k + 1]>>
      BY <2>1, <2>2, <2>9 DEF Origin
    <3>3. <<r, k>> \in Past /\ <<r, k>>[1] = r /\ <<r, k>>[2] = k
      BY DEF Past
    <3>4. edges = {<<PastTrail(x[1])[x[2]], PastTrail(x[1])[x[2] + 1]>> :
                     x \in {y \in Past : y[2] > 0}}
      BY DEF Init
    <3>5. <<Origin(v), v>> \in edges
      BY <2>9, <3>2, <3>3, <3>4
    <3> QED
      BY <3>1, <3>5 DEF Linked
  <2> QED
    BY <2>2, <2>4, <2>6, <2>7, <2>8, <2>9
<1>7. Trails /\ Keyed
  BY <1>6 DEF Trails, Keyed
<1>8. Bounded
  <2>1. ASSUME NEW v \in Nodes, Stage(v) > 0 PROVE graph[v].writes <= Writes[Stage(v)]
    <3>1. Stage(v) \in 1..7
      BY <1>5, <2>1, NodeParts
    <3> QED
      BY <1>6, <2>1, <3>1, WritesRange
  <2> QED
    BY <2>1 DEF Bounded
<1>9. Cloned /\ Cloning /\ CloneInHand /\ Offered
  BY <1>2, <1>6 DEF Cloned, Cloning, CloneInHand, Offered, NoResume
<1>10. Hands
  BY <1>3 DEF Hands
<1>11. Edged
  <2>1. \A e \in edges : RunOf(e[1]) \notin Runs
    BY <1>4, BoundAssumption
  <2> QED
    BY <1>4, <2>1 DEF Edged
<1>12. Marks
  <2>1. ASSUME NEW r \in Earlier PROVE Request(r) \in Nodes
    <3>1. Request(r) = PastTrail(r)[0 + 1]
      BY DEF PastTrail
    <3> QED
      BY <3>1, PastNode
  <2> QED
    BY <1>2, <2>1, BoundAssumption DEF Marks
<1>13. Killed
  <2>1. ASSUME NEW r \in Runs PROVE Dead(r) = {}
    BY <1>6, BoundAssumption DEF Dead
  <2> QED
    BY <1>2, <2>1, FS_EmptySet DEF Killed
<1> QED
  BY <1>5, <1>6, <1>7, <1>8, <1>9, <1>10, <1>11, <1>12, <1>13 DEF Structure

----------------------------------------------------------------------------
(* How many decisions a run can have *)

\* The nodes of a run at a stage, and those of them that were left behind.
At(r, k) == {v \in Nodes : RunOf(v) = r /\ Stage(v) = k}
DeadAt(r, k) == {v \in Dead(r) : Stage(v) = k}

\* A node has one output that was not left behind.
LEMMA OneAlive ==
  ASSUME IdsAreNames, Structure, NEW r \in Runs, NEW k \in 1..4,
         NEW v \in At(r, k) \ DeadAt(r, k), NEW w \in At(r, k) \ DeadAt(r, k),
         Origin(v) = Origin(w)
  PROVE  v = w
<1> USE DEF Agents
<1>1. Types /\ Trails /\ Hands /\ Edged
  BY DEF Structure
<1>2. /\ v \in Nodes /\ RunOf(v) = r /\ Stage(v) = k /\ v # NoNode
      /\ w \in Nodes /\ RunOf(w) = r /\ Stage(w) = k /\ w # NoNode
  BY <1>1, NodeParts DEF At, IdsAreNames
<1>3. /\ Linked(v) \/ \E j \in Agents : work[j].out = v
      /\ Linked(w) \/ \E j \in Agents : work[j].out = w
  BY <1>2 DEF At, DeadAt, Dead
<1>4. PICK u : u = Origin(v) /\ u = Origin(w)
  OBVIOUS
<1>5. u \in Nodes /\ RunOf(u) = r
  <2>1. Trailed(v) /\ k \in 1..Stage(v) /\ 1 \in 1..k
    BY <1>1, <1>2 DEF Trails
  <2>2. Trail(v)[k] \in Nodes /\ Trail(Trail(v)[k])[1] = Trail(v)[1]
    BY <2>1 DEF Trailed
  <2> QED
    BY <1>2, <1>4, <2>2 DEF Origin, RunOf
<1>6. ASSUME NEW x \in Nodes, Stage(x) = k, x # NoNode, Origin(x) = u,
             NEW j \in Agents, work[j].out = x
      PROVE  j = k /\ \A e \in edges : e[1] # u
  <2>1. InHand(j)
    BY <1>1, <1>6 DEF Hands, Idle
  <2>2. j = k /\ work[j].up = u
    BY <1>6, <2>1 DEF InHand
  <2> QED
    BY <1>5, <2>1, <2>2 DEF InHand
<1>7. CASE Linked(v) /\ Linked(w)
  <2>1. <<u, v>> \in edges /\ <<u, w>> \in edges
    BY <1>4, <1>7 DEF Linked
  <2>2. <<u, v>>[1] = u /\ <<u, w>>[1] = u
    OBVIOUS
  <2>3. <<u, v>> = <<u, w>>
    BY <1>1, <1>5, <2>1, <2>2 DEF Edged
  <2> QED
    BY <2>3
<1>8. CASE Linked(v) /\ ~Linked(w)
  <2>1. <<u, v>> \in edges /\ <<u, v>>[1] = u
    BY <1>4, <1>8 DEF Linked
  <2>2. PICK j \in Agents : work[j].out = w
    BY <1>3, <1>8
  <2> QED
    BY <1>2, <1>4, <1>6, <2>1, <2>2
<1>9. CASE Linked(w) /\ ~Linked(v)
  <2>1. <<u, w>> \in edges /\ <<u, w>>[1] = u
    BY <1>4, <1>9 DEF Linked
  <2>2. PICK j \in Agents : work[j].out = v
    BY <1>3, <1>9
  <2> QED
    BY <1>2, <1>4, <1>6, <2>1, <2>2
<1>10. CASE ~Linked(v) /\ ~Linked(w)
  <2>1. PICK i \in Agents, j \in Agents : work[i].out = v /\ work[j].out = w
    BY <1>3, <1>10
  <2>2. i = k /\ j = k
    BY <1>2, <1>4, <1>6, <2>1
  <2> QED
    BY <2>1, <2>2
<1> QED
  BY <1>7, <1>8, <1>9, <1>10

\* The size of a disjoint union.
LEMMA DisjointSize ==
  ASSUME NEW S, NEW T, IsFiniteSet(S), IsFiniteSet(T), S \cap T = {}
  PROVE  /\ IsFiniteSet(S \cup T)
         /\ Cardinality(S) \in Nat /\ Cardinality(T) \in Nat
         /\ Cardinality(S \cup T) = Cardinality(S) + Cardinality(T)
<1>1. Cardinality(S \cap T) = 0
  BY FS_EmptySet, Zenon
<1>2. PICK m, n, d, u : /\ m = Cardinality(S) /\ n = Cardinality(T)
                        /\ d = Cardinality(S \cap T) /\ u = Cardinality(S \cup T)
  OBVIOUS
<1>3. m \in Nat /\ n \in Nat
  BY <1>2, FS_CardinalityType
<1>4. IsFiniteSet(S \cup T) /\ u = m + n - d
  BY <1>2, FS_Union
<1>5. u = m + n
  BY <1>1, <1>2, <1>3, <1>4
<1> QED
  BY <1>2, <1>3, <1>4, <1>5

\* A stage has at most one output for every node above it, and those left behind.
LEMMA CountStage ==
  ASSUME IdsAreNames, Structure, NEW r \in Runs, NEW k \in 1..4
  PROVE  /\ IsFiniteSet(At(r, k)) /\ Cardinality(At(r, k)) \in Nat
         /\ Cardinality(At(r, k - 1)) \in Nat /\ Cardinality(DeadAt(r, k)) \in Nat
         /\ Cardinality(At(r, k)) <= Cardinality(At(r, k - 1)) + Cardinality(DeadAt(r, k))
<1>1. Types /\ Trails
  BY DEF Structure
<1>2. IsFiniteSet(Nodes) /\ At(r, k) \in SUBSET Nodes /\ At(r, k - 1) \in SUBSET Nodes
      /\ DeadAt(r, k) \in SUBSET Nodes
  BY <1>1 DEF Types, At, DeadAt, Dead
<1>3. /\ IsFiniteSet(At(r, k)) /\ IsFiniteSet(At(r, k - 1)) /\ IsFiniteSet(DeadAt(r, k))
      /\ Cardinality(At(r, k)) \in Nat /\ Cardinality(At(r, k - 1)) \in Nat
      /\ Cardinality(DeadAt(r, k)) \in Nat
  BY <1>2, FS_Subset, FS_CardinalityType
<1>4. PICK S, T, D : S = At(r, k) /\ T = At(r, k - 1) /\ D = DeadAt(r, k)
  OBVIOUS
<1>5. PICK f : f = [v \in S \ D |-> Origin(v)]
  OBVIOUS
<1>6. f \in Injection(S \ D, T)
  <2>1. ASSUME NEW v \in S \ D PROVE Origin(v) \in T
    <3>1. v \in Nodes /\ RunOf(v) = r /\ Stage(v) = k
      BY <1>4 DEF At
    <3>2. Trailed(v) /\ k \in 1..Stage(v) /\ 1 \in 1..k
      BY <1>1, <3>1 DEF Trails
    <3>3. /\ Trail(v)[k] \in Nodes /\ Stage(Trail(v)[k]) = k - 1
          /\ Trail(Trail(v)[k])[1] = Trail(v)[1]
      BY <3>2 DEF Trailed
    <3> QED
      BY <1>4, <3>1, <3>3 DEF At, Origin, RunOf
  <2>2. f \in [S \ D -> T]
    BY <1>5, <2>1
  <2>3. ASSUME NEW v \in S \ D, NEW w \in S \ D, f[v] = f[w] PROVE v = w
    BY <1>4, <1>5, <2>3, OneAlive
  <2> QED
    BY <2>2, <2>3 DEF Injection, IsInjective
<1>7. Cardinality(S \ D) <= Cardinality(T)
  BY <1>3, <1>4, <1>6, FS_Injection
<1>8. IsFiniteSet(S \ D) /\ Cardinality(S \ D) \in Nat
  BY <1>3, <1>4, FS_Difference, FS_CardinalityType
<1>9. Cardinality((S \ D) \cup D) <= Cardinality(S \ D) + Cardinality(D)
  <2>1. (S \ D) \cap D = {} /\ IsFiniteSet(D)
    BY <1>3, <1>4
  <2>2. Cardinality((S \ D) \cup D) = Cardinality(S \ D) + Cardinality(D)
        /\ Cardinality(D) \in Nat
    BY <1>8, <2>1, DisjointSize
  <2> QED
    BY <1>8, <2>2
<1>10. S = (S \ D) \cup D
  BY <1>4 DEF At, DeadAt, Dead
<1> QED
  BY <1>3, <1>4, <1>7, <1>8, <1>9, <1>10

\* Stage by stage, from the RunRequest to the PMRuns.
LEMMA CountDecisions ==
  ASSUME IdsAreNames, Structure, NEW r \in Runs
  PROVE  /\ IsFiniteSet(At(r, 4)) /\ Cardinality(At(r, 4)) \in Nat
         /\ Cardinality(Dead(r)) \in Nat
         /\ Cardinality(At(r, 4)) <= Cardinality(Dead(r)) + 1
<1>1. Types /\ Trails
  BY DEF Structure
<1>2. Cardinality(At(r, 0)) \in Nat /\ Cardinality(At(r, 0)) <= 1
  <2>1. ASSUME NEW v \in At(r, 0) PROVE v = Request(r)
    <3>1. v \in Nodes /\ Stage(v) = 0 /\ RunOf(v) = r
      BY DEF At
    <3>2. Trail(v)[1] = v /\ v = <<0, v[2]>>
      BY <1>1, <3>1, NodeParts DEF Trails, Trailed
    <3> QED
      BY <3>1, <3>2 DEF RunOf, Request
  <2>2. At(r, 0) \in SUBSET {Request(r)}
    BY <2>1
  <2>3. IsFiniteSet({Request(r)}) /\ Cardinality({Request(r)}) = 1
    BY FS_Singleton
  <2> QED
    BY <2>2, <2>3, FS_Subset, FS_CardinalityType
<1>3. ASSUME NEW k \in 1..4
      PROVE  IsFiniteSet(DeadAt(r, k)) /\ Cardinality(DeadAt(r, k)) \in Nat
  BY <1>1, FS_Subset, FS_CardinalityType DEF Types, DeadAt, Dead
<1>4. PICK A, B, C, D : /\ A = DeadAt(r, 1) /\ B = DeadAt(r, 2)
                        /\ C = DeadAt(r, 3) /\ D = DeadAt(r, 4)
  OBVIOUS
<1>5. /\ IsFiniteSet(A) /\ IsFiniteSet(B) /\ IsFiniteSet(C) /\ IsFiniteSet(D)
      /\ Cardinality(A) \in Nat /\ Cardinality(B) \in Nat /\ Cardinality(C) \in Nat
      /\ Cardinality(D) \in Nat
  BY <1>3, <1>4
<1>6. /\ A \cap B = {} /\ (A \cup B) \cap C = {} /\ (A \cup B \cup C) \cap D = {}
      /\ Dead(r) = A \cup B \cup C \cup D
  BY <1>4 DEF DeadAt, Dead
<1>7. IsFiniteSet(A \cup B) /\ Cardinality(A \cup B) = Cardinality(A) + Cardinality(B)
  BY <1>5, <1>6, DisjointSize
<1>8. /\ IsFiniteSet(A \cup B \cup C)
      /\ Cardinality(A \cup B \cup C) = Cardinality(A \cup B) + Cardinality(C)
  BY <1>5, <1>6, <1>7, DisjointSize
<1>9. Cardinality(A \cup B \cup C \cup D) = Cardinality(A \cup B \cup C) + Cardinality(D)
  BY <1>5, <1>6, <1>8, DisjointSize
<1>10. Cardinality(Dead(r))
         = Cardinality(A) + Cardinality(B) + Cardinality(C) + Cardinality(D)
  BY <1>5, <1>6, <1>7, <1>8, <1>9
<1>11. /\ Cardinality(At(r, 1)) <= Cardinality(At(r, 1 - 1)) + Cardinality(A)
       /\ Cardinality(At(r, 1)) \in Nat
  BY <1>4, CountStage
<1>12. /\ Cardinality(At(r, 2)) <= Cardinality(At(r, 2 - 1)) + Cardinality(B)
       /\ Cardinality(At(r, 2)) \in Nat
  BY <1>4, CountStage
<1>13. /\ Cardinality(At(r, 3)) <= Cardinality(At(r, 3 - 1)) + Cardinality(C)
       /\ Cardinality(At(r, 3)) \in Nat
  BY <1>4, CountStage
<1>14. /\ Cardinality(At(r, 4)) <= Cardinality(At(r, 4 - 1)) + Cardinality(D)
       /\ Cardinality(At(r, 4)) \in Nat /\ IsFiniteSet(At(r, 4))
  BY <1>4, CountStage
<1>15. 1 - 1 = 0 /\ 2 - 1 = 1 /\ 3 - 1 = 2 /\ 4 - 1 = 3
  OBVIOUS
<1> QED
  BY <1>2, <1>5, <1>10, <1>11, <1>12, <1>13, <1>14, <1>15

----------------------------------------------------------------------------
(* The invariant, and what follows from it at once *)

\* Whatever the agents, the kills and a resume do, the graph keeps its shape:
\* trails of earlier stages, edges within a run and one per taken node of a
\* placed run, clones in their order, and no more outputs left behind than
\* processes were killed.
THEOREM ChainInvariant == Spec => [](Structure /\ Killed)
<1>0. IdsAreNames
  BY NamesDiffer
<1>1. Init => Structure /\ Killed
  BY <1>0, InitStructure
<1>2. Structure /\ Killed /\ [Next]_vars => (Structure /\ Killed)'
  BY <1>0, StructureStep, KilledStep
<1> QED
  BY <1>1, <1>2, PTL DEF Spec

\* The type invariant is part of the structure.
LEMMA StructureTypes ==
  ASSUME Structure
  PROVE  TypeOK
<1>1. Types /\ Trails /\ Hands /\ Edged /\ Marks
  BY DEF Structure
<1>2. ASSUME NEW v \in Nodes
      PROVE  /\ Stage(v) \in 0..7
             /\ graph[v].writes \in 1..3 /\ graph[v].sound \in BOOLEAN
             /\ Len(Trail(v)) = Stage(v) + 1 /\ Trail(v)[Stage(v) + 1] = v
             /\ \A j \in 1..Stage(v) : Trail(v)[j] \in Nodes /\ Stage(Trail(v)[j]) = j - 1
  <2>1. Trailed(v)
    BY <1>1 DEF Trails
  <2>2. Stage(v) \in 0..7 /\ graph[v].writes \in 1..3 /\ graph[v].sound \in BOOLEAN
    BY <1>1, NodeParts
  <2> QED
    BY <2>1, <2>2, Zenon DEF Trailed
<1>3. \A e \in edges : {e[1], e[2]} \subseteq Nodes /\ Stage(e[2]) = Stage(e[1]) + 1
  BY <1>1 DEF Types, Edged
<1>4. refreshed \cup synced \subseteq {u[2] : u \in Requests}
  <2>1. ASSUME NEW r \in refreshed \cup synced PROVE r \in {u[2] : u \in Requests}
    <3>1. Request(r) \in Requests /\ Request(r)[2] = r
      BY <1>1 DEF Marks, Requests, Request, Stage, Nodes
    <3> QED
      BY <3>1
  <2> QED
    BY <2>1
<1>5. \A k \in Agents : {work[k].up, work[k].out} \subseteq Nodes \cup {NoNode}
  <2>1. ASSUME NEW k \in Agents PROVE {work[k].up, work[k].out} \subseteq Nodes \cup {NoNode}
    <3>1. CASE work[k] = Idle
      BY <3>1 DEF Idle
    <3>2. CASE work[k] # Idle
      <4>1. InHand(k)
        BY <1>1, <3>2 DEF Hands
      <4> QED
        BY <4>1 DEF InHand
    <3> QED
      BY <3>1, <3>2
  <2> QED
    BY <2>1
<1>6. /\ \A q \in quarantined : q[1] \in Agents /\ q[2] \in Nodes
      /\ sent \subseteq {v \in Nodes : Stage(v) = 4}
      /\ {Request(c) : c \in DOMAIN resumed} \subseteq Nodes
  BY <1>1 DEF Marks, Types
<1>7. crashes \in 0..MaxCrashes
  BY <1>1, BoundAssumption DEF Marks, Types
<1> QED
  BY <1>2, <1>3, <1>4, <1>5, <1>6, <1>7 DEF TypeOK

\* The type invariant of the chain.
THEOREM ChainTypes == Spec => []TypeOK
<1>1. Structure /\ Killed => TypeOK
  BY StructureTypes
<1> QED
  BY <1>1, ChainInvariant, PTL

----------------------------------------------------------------------------
(* Computed from the whole *)

\* The clones of a resume in progress are complete up to the last one, whose own
\* edges come next.
ClonesWhole ==
  resume.child # NoNode =>
    \A j \in 2..6 :
      j < resume.at \/ (j >= 3 /\ <<j, resume.child>> = resume.clone) =>
        graph[<<j, resume.child>>].writes >= Writes[j]

\* A complete node stays complete.
LEMMA WholeNode ==
  ASSUME Structure, Bounded', Grows, NEW u \in Nodes, NEW k \in 1..7, Stage(u) = k,
         graph[u].writes >= Writes[k]
  PROVE  graph'[u].writes = Writes[k]
<1>1. u \in Nodes' /\ graph'[u].writes \in graph[u].writes..3 /\ graph[u].writes \in 1..3
  BY NodeParts DEF Structure, Grows
<1>2. graph'[u].writes <= Writes[k]
  BY <1>1 DEF Bounded, Stage
<1>3. Writes[k] \in 1..3
  BY WritesRange
<1> QED
  BY <1>1, <1>2, <1>3

\* What was computed from a complete node stays so.
LEMMA WholeKept ==
  ASSUME Structure, Bounded', Grows, ComputedFromWhole,
         \A v \in Nodes' \ Nodes :
           Stage(v) \in 3..7 =>
             \E u \in Nodes : /\ Origin(v)' = u /\ Stage(u) = Stage(v) - 1
                              /\ graph[u].writes >= Writes[Stage(v) - 1]
  PROVE  ComputedFromWhole'
<1>1. Types /\ Trails
  BY DEF Structure
<1> SUFFICES ASSUME NEW v \in Nodes', Stage(v) \in 3..7
             PROVE  graph'[Origin(v)'].writes = Writes[Stage(v) - 1]
  BY DEF ComputedFromWhole, Stage, Origin, Trail
<1>2. PICK u, k : u = Origin(v)' /\ k = Stage(v) - 1
  OBVIOUS
<1>3. k \in 1..7 /\ Writes[k] \in 1..3
  BY <1>2, WritesRange
<1>4. u \in Nodes /\ Stage(u) = k /\ graph[u].writes >= Writes[k]
  <2>1. CASE v \in Nodes
    <3>1. Origin(v) = u
      BY <1>2, <2>1, TrailKept
    <3>2. Trailed(v) /\ Stage(v) \in 1..Stage(v)
      BY <1>1, <2>1 DEF Trails
    <3>3. u \in Nodes /\ Stage(u) = k
      BY <1>2, <3>1, <3>2 DEF Trailed, Origin
    <3>4. graph[u].writes = Writes[k]
      BY <1>2, <2>1, <3>1 DEF ComputedFromWhole
    <3> QED
      BY <1>3, <3>3, <3>4
  <2>2. CASE v \notin Nodes
    BY <1>2, <2>2
  <2> QED
    BY <2>1, <2>2
<1>5. graph'[u].writes = Writes[k]
  BY <1>3, <1>4, WholeNode
<1> QED
  BY <1>2, <1>5

\* The clones made so far stay complete.
LEMMA ClonesWholeKept ==
  ASSUME IdsAreNames, Structure, Bounded', Grows, ClonesWhole, resume' = resume
  PROVE  ClonesWhole'
<1>1. PICK c, n, v : c = resume.child /\ n = resume.at /\ v = resume.clone
  OBVIOUS
<1>2. resume'.child = c /\ resume'.at = n /\ resume'.clone = v
  BY <1>1
<1>3. ASSUME c # NoNode, NEW j \in 2..6, j < n \/ (j >= 3 /\ <<j, c>> = v)
      PROVE  graph'[<<j, c>>].writes >= Writes[j]
  <2>1. PICK u : u = <<j, c>>
    OBVIOUS
  <2>2. u \in Nodes
    <3>1. CASE j < n
      <4>1. Cloning /\ j \in 0..7 /\ j < resume.at /\ resume.child # NoNode
        BY <1>1, <1>3, <3>1 DEF Structure
      <4>2. <<j, resume.child>> \in Nodes
        BY <4>1 DEF Cloning
      <4> QED
        BY <1>1, <2>1, <4>2
    <3>2. CASE u = v
      <4>1. u # NoNode
        <5>1. u \in Places
          BY <1>1, <1>3, <2>1 DEF Structure, Types, Places, Names
        <5> QED
          BY <5>1 DEF IdsAreNames
      <4> QED
        BY <1>1, <3>2, <4>1 DEF Structure, CloneInHand
    <3> QED
      BY <1>3, <2>1, <3>1, <3>2
  <2>3. graph[u].writes >= Writes[j] /\ Stage(u) = j
    BY <1>1, <1>3, <2>1 DEF ClonesWhole, Stage
  <2>4. graph'[u].writes = Writes[j] /\ Writes[j] \in 1..3
    BY <2>2, <2>3, WholeNode, WritesRange
  <2> QED
    BY <2>1, <2>4
<1> QED
  BY <1>2, <1>3 DEF ClonesWhole

\* _link_upstream: a clone below a complete clone.
LEMMA CloneNodeWhole ==
  ASSUME IdsAreNames, Structure, Structure', ComputedFromWhole, ClonesWhole, CloneNode
  PROVE  ComputedFromWhole' /\ ClonesWhole'
<1>1. Types /\ Cloning /\ Bounded'
  BY DEF Structure
<1>2. PICK c \in Children, k \in 1..6, n \in 1..3, b \in BOOLEAN, t \in Seq(Places) :
           /\ c = resume.child /\ k = resume.at /\ resume.clone = NoNode /\ c # NoNode
           /\ <<k, c>> \in Places /\ <<k, c>> \notin Nodes /\ n <= Writes[k]
           /\ k >= 3 => n = Writes[k]
           /\ t = [j \in 1..(k + 1) |-> <<j - 1, c>>]
           /\ graph' = Put(graph, <<k, c>>, Node(n, t, b))
           /\ resume' = [resume EXCEPT !.clone = <<k, c>>]
  BY CloneIs
<1>3. PICK v : v = <<k, c>>
  OBVIOUS
<1>4. v \in Places /\ v \notin Nodes /\ Stage(v) = k
      /\ graph' = Put(graph, v, Node(n, t, b))
  BY <1>2, <1>3 DEF Stage
<1>5. /\ Nodes' = Nodes \cup {v} /\ Grows
      /\ graph'[v].trail = t /\ graph'[v].writes = n
      /\ \A w \in Nodes : graph'[w] = graph[w]
  BY <1>1, <1>4, NewNode
<1>6. resume'.child = c /\ resume'.at = k /\ resume'.clone = v
  BY <1>1, <1>2, <1>3 DEF Types
<1>7. ASSUME NEW j \in 2..6, j < k
      PROVE  <<j, c>> \in Nodes /\ Stage(<<j, c>>) = j /\ graph[<<j, c>>].writes >= Writes[j]
  <2>1. j \in 0..7 /\ j < resume.at /\ resume.child # NoNode
    BY <1>2, <1>7
  <2>2. <<j, resume.child>> \in Nodes
    BY <1>1, <2>1 DEF Cloning
  <2>3. graph[<<j, resume.child>>].writes >= Writes[j]
    BY <2>1 DEF ClonesWhole
  <2> QED
    BY <1>2, <2>2, <2>3 DEF Stage
<1>8. ComputedFromWhole'
  <2>1. ASSUME k \in 3..7
        PROVE  \E u \in Nodes : /\ Origin(v)' = u /\ Stage(u) = k - 1
                                /\ graph[u].writes >= Writes[k - 1]
    <3>1. PICK j \in 2..6 : j = k - 1
      BY <2>1
    <3>2. Origin(v)' = t[k]
      BY <1>4, <1>5 DEF Origin, Trail, Stage
    <3>3. t[k] = <<j, c>>
      BY <1>2, <3>1
    <3> QED
      BY <1>7, <3>1, <3>2, <3>3
  <2>2. ASSUME NEW w \in Nodes' \ Nodes, Stage(w) \in 3..7
        PROVE  \E u \in Nodes : /\ Origin(w)' = u /\ Stage(u) = Stage(w) - 1
                                /\ graph[u].writes >= Writes[Stage(w) - 1]
    <3>1. w = v /\ k \in 3..7
      BY <1>4, <1>5, <2>2
    <3> QED
      BY <1>4, <2>1, <3>1 DEF Origin, Trail, Stage
  <2> QED
    BY <1>1, <1>5, <2>2, WholeKept
<1>9. ASSUME NEW j \in 2..6, j < k \/ (j >= 3 /\ <<j, c>> = v)
      PROVE  graph'[<<j, c>>].writes >= Writes[j]
  <2>1. CASE j < k
    BY <1>5, <1>7, <2>1
  <2>2. CASE j >= 3 /\ <<j, c>> = v
    <3>1. j = k
      BY <1>3, <2>2
    <3>2. graph'[v].writes = Writes[k] /\ Writes[k] \in 1..3
      BY <1>2, <1>5, <2>2, <3>1, WritesRange
    <3> QED
      BY <1>3, <3>1, <3>2
  <2> QED
    BY <1>9, <2>1, <2>2
<1> QED
  BY <1>6, <1>8, <1>9 DEF ClonesWhole

\* _link_upstream: the clone is complete with its edges.
LEMMA CloneLinkWhole ==
  ASSUME IdsAreNames, Structure, Structure', ClonesWhole, CloneLink
  PROVE  ClonesWhole'
<1>1. Types /\ Cloning /\ Bounded'
  BY DEF Structure
<1>2. PICK c \in Children, k \in 1..6, v \in Nodes :
           /\ c = resume.child /\ k = resume.at /\ v = resume.clone /\ c # NoNode
           /\ v = <<k, c>> /\ Nodes' = Nodes /\ Grows
           /\ resume'.child = c /\ resume'.at = k + 1 /\ resume'.clone = NoNode
           /\ k = 2 => graph'[v].writes >= Writes[k]
  BY CloneLinkIs
<1>3. ASSUME NEW j \in 2..6, j < k + 1 \/ <<j, c>> = NoNode
      PROVE  graph'[<<j, c>>].writes >= Writes[j]
  <2>1. <<j, c>> \in Places /\ Stage(<<j, c>>) = j /\ <<j, c>> # NoNode
    BY DEF Places, Names, IdsAreNames, Stage
  <2>2. CASE j = k /\ j = 2
    BY <1>2, <2>2
  <2>3. CASE j < k \/ (j = k /\ j >= 3)
    <3>1. <<j, c>> \in Nodes /\ graph[<<j, c>>].writes >= Writes[j]
      <4>1. CASE j < k
        <5>1. j \in 0..7 /\ j < resume.at /\ resume.child # NoNode
          BY <1>2, <4>1
        <5>2. <<j, resume.child>> \in Nodes
          BY <1>1, <5>1 DEF Cloning
        <5>3. graph[<<j, resume.child>>].writes >= Writes[j]
          BY <5>1 DEF ClonesWhole
        <5> QED
          BY <1>2, <5>2, <5>3
      <4>2. CASE j = k /\ j >= 3
        <5>1. <<j, resume.child>> = resume.clone /\ resume.child # NoNode
          BY <1>2, <4>2
        <5>2. graph[<<j, resume.child>>].writes >= Writes[j]
          BY <4>2, <5>1 DEF ClonesWhole
        <5> QED
          BY <1>2, <4>2, <5>2
      <4> QED
        BY <2>3, <4>1, <4>2
    <3>2. graph'[<<j, c>>].writes = Writes[j] /\ Writes[j] \in 1..3
      BY <1>1, <1>2, <2>1, <3>1, WholeNode, WritesRange
    <3> QED
      BY <3>2
  <2> QED
    BY <1>3, <2>1, <2>2, <2>3
<1> QED
  BY <1>2, <1>3 DEF ClonesWhole

\* Every step keeps it: an agent takes a node to compute from it only when the
\* payload that is written last is there.
LEMMA WholeStep ==
  ASSUME IdsAreNames, Structure, Structure', ComputedFromWhole, ClonesWhole, [Next]_vars
  PROVE  ComputedFromWhole' /\ ClonesWhole'
<1> USE DEF Agents
<1>1. Types /\ Trails /\ Bounded'
  BY DEF Structure
<1>2. ASSUME Grows, \A v \in Nodes' \ Nodes : Stage(v) = 0 PROVE ComputedFromWhole'
  BY <1>1, <1>2, WholeKept
<1>3. ASSUME Grows, \/ resume' = resume
                    \/ resume'.child = NoNode
                    \/ resume'.at \in {0, 1} /\ resume'.clone = NoNode
      PROVE  ClonesWhole'
  <2>1. CASE resume' = resume
    BY <1>1, <1>3, <2>1, ClonesWholeKept
  <2>2. CASE resume'.child = NoNode
    BY <2>2 DEF ClonesWhole
  <2>3. CASE resume'.at \in {0, 1} /\ resume'.clone = NoNode
    <3>1. PICK c : c = resume'.child
      OBVIOUS
    <3>2. c # NoNode => \A j \in 2..6 : <<j, c>> # NoNode
      <4>1. c # NoNode => c \in Children
        BY <3>1 DEF Structure, Types
      <4> QED
        BY <4>1 DEF IdsAreNames, Places, Names
    <3>3. \A j \in 2..6 : ~(j < resume'.at)
      BY <2>3
    <3> QED
      BY <2>3, <3>1, <3>2, <3>3 DEF ClonesWhole
  <2> QED
    BY <1>3, <2>1, <2>2, <2>3
<1>4. ASSUME graph' = graph PROVE Grows /\ ComputedFromWhole'
  <2>1. Nodes' = Nodes /\ Grows
    BY <1>1, <1>4, GraphSame
  <2> QED
    BY <1>2, <2>1
<1>5. ASSUME NEW k \in Agents, NEW u \in Nodes, NEW v, Took(k, u, v)
      PROVE  ComputedFromWhole' /\ ClonesWhole'
  <2>1. /\ Wrote(k, u, v) /\ Stage(u) = k - 1 /\ Grows /\ Nodes' = Nodes \cup {v} /\ Stage(v) = k
        /\ resume' = resume
        /\ k \in 3..7 => graph[u].writes >= Writes[k - 1]
    BY <1>5 DEF Took, Wrote
  <2>2. v \notin Nodes => Origin(v)' = u
    BY <1>1, <2>1, WroteTrail
  <2>3. ASSUME NEW w \in Nodes' \ Nodes, Stage(w) \in 3..7
        PROVE  \E x \in Nodes : /\ Origin(w)' = x /\ Stage(x) = Stage(w) - 1
                                /\ graph[x].writes >= Writes[Stage(w) - 1]
    <3>1. w = v /\ v \notin Nodes /\ Stage(w) = k
      BY <2>1
    <3>2. Origin(w)' = u
      BY <2>2, <3>1 DEF Origin, Trail, Stage
    <3> QED
      BY <2>1, <2>3, <3>1, <3>2
  <2>4. ComputedFromWhole'
    BY <1>1, <2>1, <2>3, WholeKept
  <2> QED
    BY <1>3, <2>1, <2>4
<1>6. ASSUME NEW k \in Agents, WriteMore(k) PROVE ComputedFromWhole' /\ ClonesWhole'
  <2>1. Nodes' = Nodes /\ Grows /\ resume' = resume
    BY <1>6, WriteMoreStructure DEF WriteMore
  <2> QED
    BY <1>2, <1>3, <2>1
<1>7. ASSUME CloneNode \/ CloneLink \/ LinkRegime PROVE ComputedFromWhole' /\ ClonesWhole'
  <2>1. CASE CloneNode
    BY <2>1, CloneNodeWhole
  <2>2. CASE CloneLink
    <3>1. Nodes' = Nodes /\ Grows
      BY <2>2, CloneLinkIs
    <3> QED
      BY <1>2, <2>2, <3>1, CloneLinkWhole
  <2>3. CASE LinkRegime
    <3>1. Nodes' = Nodes /\ Grows /\ resume'.child = NoNode
      BY <2>3, LinkRegimeStructure DEF LinkRegime, NoResume
    <3> QED
      BY <1>2, <1>3, <3>1
  <2> QED
    BY <1>7, <2>1, <2>2, <2>3
<1>8. ASSUME \/ \E r \in Runs : Place(r)
             \/ \E c \in Children, r \in Runs \cup Earlier, s \in ResumeFrom : ResumeRun(c, r, s)
      PROVE  ComputedFromWhole' /\ ClonesWhole'
  <2>1. Grows /\ \A w \in Nodes' \ Nodes : Stage(w) = 0
    BY <1>8, BegunIs
  <2>2. resume' = resume \/ (resume'.at = 0 /\ resume'.clone = NoNode)
    <3>1. CASE \E r \in Runs : Place(r)
      BY <3>1 DEF Place
    <3>2. ASSUME NEW c \in Children, NEW r \in Runs \cup Earlier, NEW s \in ResumeFrom,
                 ResumeRun(c, r, s)
          PROVE  resume'.at = 0 /\ resume'.clone = NoNode
      <4>1. resume' = [child |-> c, at |-> 0, clone |-> NoNode]
        BY <3>2 DEF ResumeRun
      <4> QED
        BY <4>1
    <3> QED
      BY <1>8, <3>1, <3>2
  <2> QED
    BY <1>2, <1>3, <2>1, <2>2
<1>9. ASSUME \/ \E u \in Nodes : Submit(u)
             \/ \E k \in Agents : Link(k) \/ Crash(k)
             \/ ResumeCrash \/ OnlyMarks \/ UNCHANGED vars
      PROVE  ComputedFromWhole' /\ ClonesWhole'
  <2>1. /\ graph' = graph
        /\ \/ resume' = resume
           \/ resume'.child = NoNode
           \/ resume'.at = 1 /\ resume'.clone = NoNode
    BY <1>9 DEF Submit, Link, Crash, ResumeCrash, OnlyMarks, NoResume, vars
  <2> QED
    BY <1>3, <1>4, <2>1
<1>10. CASE Next
  <2>1. StepKind
    BY <1>10, StepKinds
  <2> QED
    BY <1>5, <1>6, <1>7, <1>8, <1>9, <2>1 DEF StepKind
<1> QED
  BY <1>9, <1>10

\* From the AnalystRun on, every output was computed from a complete output of
\* the stage above, and every clone hangs on a complete clone, however early a
\* poll found its input and whatever was killed in between.
THEOREM WholeHolds == Spec => []ComputedFromWhole
<1>0. IdsAreNames
  BY NamesDiffer
<1>1. Init => ComputedFromWhole /\ ClonesWhole
  <2> SUFFICES ASSUME Init PROVE ComputedFromWhole /\ ClonesWhole
    OBVIOUS
  <2>1. ASSUME NEW v \in Nodes, Stage(v) \in 3..7
        PROVE  graph[Origin(v)].writes = Writes[Stage(v) - 1]
    <3>1. Trailed(v) /\ Stage(v) \in 1..Stage(v)
      BY <1>0, <2>1, InitStructure DEF Structure, Trails
    <3>2. PICK u, k : u = Origin(v) /\ k = Stage(v) - 1
      OBVIOUS
    <3>3. u \in Nodes /\ Stage(u) = k /\ k > 0
      BY <2>1, <3>1, <3>2 DEF Trailed, Origin
    <3>4. graph[u].writes = Writes[k]
      BY <1>0, <3>3, InitStructure
    <3> QED
      BY <3>2, <3>4
  <2>2. ClonesWhole
    BY DEF Init, NoResume, ClonesWhole
  <2> QED
    BY <2>1, <2>2 DEF ComputedFromWhole
<1>2. /\ Structure /\ Killed /\ (Structure /\ Killed)' /\ [Next]_vars
      /\ ComputedFromWhole /\ ClonesWhole
      => ComputedFromWhole' /\ ClonesWhole'
  BY <1>0, WholeStep
<1> QED
  BY <1>1, <1>2, ChainInvariant, PTL DEF Spec

----------------------------------------------------------------------------
(* The chain implements the pipeline *)

\* How far a run is never goes back.
LEMMA DepthGrows ==
  ASSUME Structure, Structure', Grows, edges \subseteq edges', NEW r
  PROVE  Depth(r) \in 0..7 /\ Depth(r)' \in Depth(r)..7
<1>1. Types /\ Trails /\ Edged /\ Types'
  BY DEF Structure
<1>2. Depth(r) \in 0..7 /\ \A j \in 1..Depth(r) : \E n \in Line(r) : Stage(n) = j
  BY <1>1, DepthIs
<1>3. Line(r) \subseteq Line(r)'
  BY <1>1, LineGrows
<1> DEFINE S == {0} \cup {Stage(v) : v \in Line(r)'}
<1>4. Line(r)' \subseteq Nodes' /\ \A v \in Nodes' : Stage(v) \in 0..7
  <2>1. \A v \in Line(r)' : \E e \in edges' : v = e[2]
    BY DEF Line
  <2>2. \A e \in edges' : e[2] \in Nodes'
    BY <1>1 DEF Types
  <2>3. \A v \in Nodes' : Stage(v) \in 0..7
    BY <1>1 DEF Types, Places, Stage
  <2> QED
    BY <2>1, <2>2, <2>3
<1>5. S \in SUBSET (0..7) /\ S # {}
  BY <1>4
<1>6. Depth(r)' = Max(S)
  BY DEF Depth, Stage
<1>7. Depth(r) \in S
  BY <1>2, <1>3
<1> HIDE DEF S
<1>8. Max(S) \in S /\ Max(S) >= Depth(r)
  BY <1>5, <1>7, GreatestStage
<1>9. Max(S) \in 0..7
  BY <1>5, <1>8
<1>10. Depth(r)' \in 0..7 /\ Depth(r)' >= Depth(r)
  BY <1>6, <1>8, <1>9
<1> QED
  BY <1>2, <1>10

\* Runs that get no edge are as far as they were.
LEMMA DepthSame ==
  ASSUME Structure, Grows, edges \subseteq edges', NEW r,
         \A e \in edges' \ edges : /\ e[1] \in Nodes /\ e[2] \in Nodes
                                   /\ RunOf(e[1]) # r /\ RunOf(e[2]) # r
  PROVE  Depth(r)' = Depth(r)
<1>1. Types /\ Trails /\ Edged
  BY DEF Structure
<1>2. Line(r)' = Line(r)
  BY <1>1, LineSame
<1> QED
  BY <1>2 DEF Depth, Stage

\* Decisions belong to their run for good.
LEMMA DecisionsSame ==
  ASSUME Structure, Grows, sent' = sent, NEW r
  PROVE  Decisions(r)' = Decisions(r)
<1>1. \A p \in sent : RunOf(p)' = RunOf(p)
  BY TrailKept DEF Structure, Types
<1> QED
  BY <1>1 DEF Decisions, RunOf, Trail

\* The next decision of a run is the first one, or a kill left one behind.
LEMMA DecisionAllowed ==
  ASSUME IdsAreNames, Structure, Killed, NEW u \in Nodes, Stage(u) = 4, u \notin sent,
         NEW r \in Runs, RunOf(u) = r
  PROVE  /\ IsFiniteSet(Decisions(r)) /\ Cardinality(Decisions(r)) \in Nat
         /\ Cardinality(Decisions(r)) <= crashes
<1>1. Types
  BY DEF Structure
<1>2. /\ IsFiniteSet(At(r, 4)) /\ Cardinality(At(r, 4)) \in Nat
      /\ Cardinality(Dead(r)) \in Nat
      /\ Cardinality(At(r, 4)) <= Cardinality(Dead(r)) + 1
  BY CountDecisions
<1>3. Decisions(r) \in SUBSET At(r, 4) /\ u \in At(r, 4) /\ u \notin Decisions(r)
  BY <1>1 DEF Decisions, At, Types
<1>4. IsFiniteSet(Decisions(r)) /\ Cardinality(Decisions(r)) \in Nat
  BY <1>2, <1>3, FS_Subset, FS_CardinalityType
<1>5. Cardinality(Decisions(r) \cup {u}) = Cardinality(Decisions(r)) + 1
  BY <1>3, <1>4, FS_AddElement
<1>6. Cardinality(Decisions(r) \cup {u}) <= Cardinality(At(r, 4))
  <2>1. Decisions(r) \cup {u} \in SUBSET At(r, 4)
    BY <1>3
  <2> QED
    BY <1>2, <2>1, FS_Subset
<1>7. Cardinality(Dead(r)) <= crashes /\ crashes \in Nat
  BY <1>1 DEF Killed, Types
<1> QED
  BY <1>2, <1>4, <1>5, <1>6, <1>7
\* A step that adds no edge and sends no orders is a stutter or a mishap.
LEMMA QuietStep ==
  ASSUME Structure, Grows, UNCHANGED <<edges, sent>>
  PROVE  /\ [r \in Runs |-> Depth(r)]' = [r \in Runs |-> Depth(r)]
         /\ [r \in Runs |-> Cardinality(Decisions(r))]'
              = [r \in Runs |-> Cardinality(Decisions(r))]
<1>1. ASSUME NEW r \in Runs PROVE Depth(r)' = Depth(r)
  BY DepthSame
<1>2. ASSUME NEW r \in Runs PROVE Decisions(r)' = Decisions(r)
  BY DecisionsSame
<1> QED
  BY <1>1, <1>2

\* A new edge moves its own run, and only that one.
LEMMA EdgeStep ==
  ASSUME IdsAreNames, Structure, Structure', Grows, NEW a \in Nodes, NEW b \in Nodes,
         edges' = edges \cup {<<a, b>>}, RunOf(a) = RunOf(b), UNCHANGED <<sent, crashes>>
  PROVE  [Abstract!AbsNext]_(Abstract!absVars)
<1>1. PICK x : x = RunOf(a)
  OBVIOUS
<1>2. ASSUME NEW r \in Runs, r # x PROVE Depth(r)' = Depth(r)
  BY <1>1, <1>2, DepthSame
<1>3. ASSUME NEW r \in Runs PROVE Decisions(r)' = Decisions(r)
  BY DecisionsSame
<1>4. [r \in Runs |-> Cardinality(Decisions(r))]'
        = [r \in Runs |-> Cardinality(Decisions(r))]
  BY <1>3
<1>5. CASE \A r \in Runs : Depth(r)' = Depth(r)
  <2>1. [r \in Runs |-> Depth(r)]' = [r \in Runs |-> Depth(r)]
    BY <1>5
  <2> QED
    BY <1>4, <2>1 DEF Abstract!absVars
<1>6. CASE ~ \A r \in Runs : Depth(r)' = Depth(r)
  <2>1. x \in Runs /\ Depth(x)' # Depth(x)
    BY <1>2, <1>6
  <2>2. Depth(x) \in 0..7 /\ Depth(x)' \in Depth(x)..7
    BY DepthGrows
  <2>3. PICK f, g : f = [r \in Runs |-> Depth(r)] /\ g = [r \in Runs |-> Depth(r)']
    OBVIOUS
  <2>4. g[x] \in (f[x] + 1)..7
    BY <2>1, <2>2, <2>3
  <2>5. g = [f EXCEPT ![x] = g[x]]
    BY <1>2, <2>3
  <2>6. Abstract!Advance(x)
    BY <1>4, <2>3, <2>4, <2>5 DEF Abstract!Advance
  <2> QED
    BY <2>1, <2>6 DEF Abstract!AbsNext
<1> QED
  BY <1>5, <1>6

\* Orders are sent for one decision of one run.
LEMMA SubmitStep ==
  ASSUME IdsAreNames, Structure, Killed, NEW u \in Nodes, Submit(u)
  PROVE  [Abstract!AbsNext]_(Abstract!absVars)
<1>1. Grows /\ Nodes' = Nodes
  BY SubmitStructure
<1>2. /\ UNCHANGED <<graph, edges, crashes>> /\ Stage(u) = 4
      /\ sent' = IF graph[u].sound THEN sent \cup {u} ELSE sent
  <2>1. Stage(u) = 5 - 1
    BY DEF Submit, Due, Pending
  <2> QED
    BY <2>1 DEF Submit
<1>3. CASE sent' = sent
  BY <1>1, <1>2, <1>3, QuietStep DEF Abstract!absVars
<1>4. CASE sent' # sent
  <2>1. sent' = sent \cup {u} /\ u \notin sent
    BY <1>2, <1>4
  <2>2. PICK x : x = RunOf(u)
    OBVIOUS
  <2>3. \A p \in Nodes : RunOf(p)' = RunOf(p)
    BY <1>1, TrailKept
  <2>4. sent \subseteq Nodes
    BY DEF Structure, Types
  <2>5. ASSUME NEW r \in Runs
        PROVE  Decisions(r)' = IF r = x THEN Decisions(r) \cup {u} ELSE Decisions(r)
    <3>1. Decisions(r)' = {p \in sent' : RunOf(p) = r}
      BY <1>2 DEF Decisions, RunOf, Trail
    <3> QED
      BY <2>1, <2>2, <3>1 DEF Decisions
  <2>6. ASSUME NEW r \in Runs PROVE Depth(r)' = Depth(r)
    BY <1>1, <1>2, DepthSame
  <2>7. [r \in Runs |-> Depth(r)]' = [r \in Runs |-> Depth(r)]
    BY <2>6
  <2>8. PICK f, g : /\ f = [r \in Runs |-> Cardinality(Decisions(r))]
                    /\ g = [r \in Runs |-> Cardinality(Decisions(r)')]
    OBVIOUS
  <2>9. CASE x \notin Runs
    <3>1. g = f
      BY <2>5, <2>8, <2>9
    <3> QED
      BY <1>2, <2>7, <2>8, <3>1 DEF Abstract!absVars
  <2>10. CASE x \in Runs
    <3>1. /\ IsFiniteSet(Decisions(x)) /\ Cardinality(Decisions(x)) \in Nat
          /\ Cardinality(Decisions(x)) <= crashes
      BY <1>2, <2>1, <2>2, <2>10, DecisionAllowed
    <3>2. u \notin Decisions(x)
      BY <2>1 DEF Decisions
    <3>3. Cardinality(Decisions(x) \cup {u}) = Cardinality(Decisions(x)) + 1
      BY <3>1, <3>2, FS_AddElement
    <3>4. f[x] <= crashes /\ f[x] = Cardinality(Decisions(x)) /\ g[x] = f[x] + 1
      BY <2>5, <2>8, <2>10, <3>1, <3>3
    <3>5. \A r \in Runs : r # x => g[r] = f[r]
      BY <2>5, <2>8
    <3>6. g = [f EXCEPT ![x] = f[x] + 1]
      BY <2>8, <3>4, <3>5
    <3>7. Abstract!Order(x)
      BY <1>2, <2>7, <2>8, <3>4, <3>6 DEF Abstract!Order
    <3> QED
      BY <2>10, <3>7 DEF Abstract!AbsNext
  <2> QED
    BY <2>9, <2>10
<1> QED
  BY <1>3, <1>4

\* Every step of the chain is a step of the pipeline, or none.
LEMMA RefineStep ==
  ASSUME IdsAreNames, Structure, Structure', Killed, [Next]_vars
  PROVE  [Abstract!AbsNext]_(Abstract!absVars)
<1> USE DEF Agents
<1>1. Types /\ Hands
  BY DEF Structure
<1>2. ASSUME Grows, UNCHANGED <<edges, sent, crashes>>
      PROVE  [Abstract!AbsNext]_(Abstract!absVars)
  BY <1>2, QuietStep DEF Abstract!absVars
<1>3. ASSUME UNCHANGED <<graph, edges, sent, crashes>>
      PROVE  [Abstract!AbsNext]_(Abstract!absVars)
  BY <1>1, <1>2, <1>3, GraphSame
<1>4. ASSUME UNCHANGED <<graph, edges, sent>>, crashes' = crashes + 1
      PROVE  [Abstract!AbsNext]_(Abstract!absVars)
  <2>1. Grows
    BY <1>1, <1>4, GraphSame
  <2>2. Abstract!Mishap
    BY <1>4, <2>1, QuietStep DEF Abstract!Mishap
  <2> QED
    BY <2>2 DEF Abstract!AbsNext
<1>5. ASSUME NEW k \in Agents, Link(k) PROVE [Abstract!AbsNext]_(Abstract!absVars)
  <2>1. PICK u, v : u = work[k].up /\ v = work[k].out
    OBVIOUS
  <2>2. /\ v # NoNode /\ edges' = edges \cup {<<u, v>>} /\ UNCHANGED <<graph, sent, crashes>>
    BY <1>5, <2>1 DEF Link
  <2>3. work[k] # Idle
    BY <2>1, <2>2 DEF Idle
  <2>4. u \in Nodes /\ v \in Nodes /\ RunOf(u) = RunOf(v)
    BY <1>1, <2>1, <2>2, <2>3 DEF Hands, InHand
  <2>5. Grows
    BY <1>1, <2>2, GraphSame
  <2> QED
    BY <2>2, <2>4, <2>5, EdgeStep
<1>6. ASSUME CloneLink PROVE [Abstract!AbsNext]_(Abstract!absVars)
  <2>1. PICK a \in Nodes, v \in Nodes :
          RunOf(a) = RunOf(v) /\ edges' = edges \cup {<<a, v>>} /\ Grows
    BY <1>6, CloneLinkIs
  <2>2. UNCHANGED <<sent, crashes>>
    BY <1>6 DEF CloneLink
  <2> QED
    BY <2>1, <2>2, EdgeStep
<1>7. ASSUME NEW k \in Agents, NEW u \in Nodes, NEW v, Took(k, u, v)
      PROVE  [Abstract!AbsNext]_(Abstract!absVars)
  <2>1. Grows /\ UNCHANGED <<edges, sent, crashes>>
    BY <1>7 DEF Took, Wrote
  <2> QED
    BY <1>2, <2>1
<1>8. ASSUME \/ \E k \in Agents : WriteMore(k)
             \/ CloneNode \/ LinkRegime
             \/ \E r \in Runs : Place(r)
             \/ \E c \in Children, r \in Runs \cup Earlier, s \in ResumeFrom : ResumeRun(c, r, s)
      PROVE  [Abstract!AbsNext]_(Abstract!absVars)
  <2>1. Grows
    BY <1>8, WriteMoreStructure, CloneNodeStructure, LinkRegimeStructure, BegunIs
  <2>2. UNCHANGED <<edges, sent, crashes>>
    BY <1>8 DEF WriteMore, CloneNode, LinkRegime, Place, ResumeRun
  <2> QED
    BY <1>2, <2>1, <2>2
<1>9. ASSUME ResumeCrash \/ \E k \in Agents : Crash(k)
      PROVE  [Abstract!AbsNext]_(Abstract!absVars)
  <2>1. UNCHANGED <<graph, edges, sent>> /\ crashes' = crashes + 1
    BY <1>9 DEF Crash, ResumeCrash
  <2> QED
    BY <1>4, <2>1
<1>10. ASSUME NEW u \in Nodes, Submit(u) PROVE [Abstract!AbsNext]_(Abstract!absVars)
  BY <1>10, SubmitStep
<1>11. CASE UNCHANGED vars
  BY <1>3, <1>11 DEF vars
<1>12. CASE Next
  <2>1. StepKind
    BY <1>12, StepKinds
  <2>2. ASSUME OnlyMarks PROVE [Abstract!AbsNext]_(Abstract!absVars)
    BY <1>3, <2>2 DEF OnlyMarks
  <2> QED
    BY <1>5, <1>6, <1>7, <1>8, <1>9, <1>10, <2>1, <2>2 DEF StepKind
<1> QED
  BY <1>11, <1>12

\* At the start no placed run has a line or a decision.
LEMMA RefineInit ==
  ASSUME IdsAreNames, Init
  PROVE  Abstract!AbsInit
<1>1. Structure /\ \A v \in Nodes : RunOf(v) \in Earlier
  BY InitStructure
<1>2. Types
  BY <1>1 DEF Structure
<1>3. ASSUME NEW r \in Runs PROVE Depth(r) = 0 /\ Decisions(r) = {}
  <2>1. r \notin Earlier
    BY BoundAssumption
  <2>2. \A e \in edges : RunOf(e[1]) # r
    BY <1>1, <1>2, <2>1 DEF Types
  <2>3. Line(r) = {}
    BY <2>2 DEF Line
  <2>4. Decisions(r) = {}
    BY <1>1, <1>2, <2>1 DEF Decisions, Types
  <2>5. Depth(r) = Max({0})
    BY <2>3 DEF Depth
  <2>6. Max({0}) \in {0}
    BY GreatestStage
  <2> QED
    BY <2>4, <2>5, <2>6
<1>4. [r \in Runs |-> Depth(r)] = [r \in Runs |-> 0]
  BY <1>3
<1>5. ASSUME NEW r \in Runs PROVE Cardinality(Decisions(r)) = 0
  BY <1>3, FS_EmptySet
<1>6. [r \in Runs |-> Cardinality(Decisions(r))] = [r \in Runs |-> 0]
  BY <1>5
<1> QED
  BY <1>4, <1>6 DEF Abstract!AbsInit, Init

\* The agents with their separate writes, their polls of a graph that is not
\* complete, the kills and the resumes implement Pipeline: a run never loses a
\* stage it has reached, and it sends one decision, and at most one more for
\* every process that was killed.
THEOREM ChainImplementsPipeline == Spec => ImplementsPipeline
<1>0. IdsAreNames
  BY NamesDiffer
<1>1. Init => Abstract!AbsInit
  BY <1>0, RefineInit
<1>2. Structure /\ Killed /\ (Structure /\ Killed)' /\ [Next]_vars
        => [Abstract!AbsNext]_(Abstract!absVars)
  BY <1>0, RefineStep
<1> QED
  BY <1>1, <1>2, ChainInvariant, PTL DEF Spec, ImplementsPipeline, Abstract!AbsSpec
==============================================================================
