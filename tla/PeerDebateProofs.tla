-------------------------- MODULE PeerDebateProofs --------------------------
(***************************************************************************)
(* Proofs about PeerDebate, for every set of orders and peers and every     *)
(* number of turns, candidates, attempts and faults.                        *)
(*                                                                          *)
(* The records th[o] have seven fields, and the provers are slow with an    *)
(* EXCEPT of several.  So the first lemmas say once what each step makes of *)
(* a thread (Becomes), and the rest of the proofs use only that.            *)
(***************************************************************************)
EXTENDS PeerDebate, Integers, SequenceTheorems, FiniteSetTheorems, WellFoundedInduction,
        TLAPS

Points == {"queued", "call", "publish", "wait", "stash", "resolve", "judge", "judging",
           "done"}
Rulings == {"none", "ruled", "failed_open"}

\* Thread t, field by field.
Fields(t, pc, turn, turns, orphans, event, candidate, ruling) ==
  /\ t \in Threads
  /\ t.pc = pc /\ t.turn = turn /\ t.turns = turns /\ t.orphans = orphans
  /\ t.event = event /\ t.candidate = candidate /\ t.ruling = ruling

\* A step leaves thread o with these fields and the other threads alone.
Becomes(o, pc, turn, turns, orphans, event, candidate, ruling) ==
  /\ th' \in [Orders -> Threads]
  /\ th'[o].pc = pc /\ th'[o].turn = turn /\ th'[o].turns = turns
  /\ th'[o].orphans = orphans /\ th'[o].event = event /\ th'[o].candidate = candidate
  /\ th'[o].ruling = ruling
  /\ \A x \in Orders \ {o} : th'[x] = th[x]

\* The types of a thread's fields.
LEMMA ThreadTypes ==
  ASSUME NEW t \in Threads
  PROVE  /\ t.pc \in Points /\ t.turn \in 1..Turns /\ t.turns \in Seq(Ids)
         /\ t.orphans \in Nat /\ t.event \in SUBSET Events
         /\ t.candidate \in 0..Candidates /\ t.ruling \in Rulings
BY DEF Threads, Points, Rulings

\* What one assignment to a field of a thread leaves.
LEMMA SetPc ==
  ASSUME NEW t \in Threads, NEW x \in Points
  PROVE  Fields([t EXCEPT !.pc = x], x, t.turn, t.turns, t.orphans, t.event, t.candidate,
                t.ruling)
BY DEF Threads, Points, Fields

\* An assignment to the turn's number.
LEMMA SetTurn ==
  ASSUME NEW t \in Threads, NEW x \in 1..Turns
  PROVE  Fields([t EXCEPT !.turn = x], t.pc, x, t.turns, t.orphans, t.event, t.candidate,
                t.ruling)
BY DEF Threads, Fields

\* An assignment to the transcript.
LEMMA SetTurns ==
  ASSUME NEW t \in Threads, NEW x \in Seq(Ids)
  PROVE  Fields([t EXCEPT !.turns = x], t.pc, t.turn, x, t.orphans, t.event, t.candidate,
                t.ruling)
BY DEF Threads, Fields

\* An assignment to the orphan count.
LEMMA SetOrphans ==
  ASSUME NEW t \in Threads, NEW x \in Nat
  PROVE  Fields([t EXCEPT !.orphans = x], t.pc, t.turn, t.turns, x, t.event, t.candidate,
                t.ruling)
BY DEF Threads, Fields

\* An assignment to the event received.
LEMMA SetEvent ==
  ASSUME NEW t \in Threads, NEW x \in SUBSET Events
  PROVE  Fields([t EXCEPT !.event = x], t.pc, t.turn, t.turns, t.orphans, x, t.candidate,
                t.ruling)
BY DEF Threads, Fields

\* An assignment to the candidate.
LEMMA SetCandidate ==
  ASSUME NEW t \in Threads, NEW x \in 0..Candidates
  PROVE  Fields([t EXCEPT !.candidate = x], t.pc, t.turn, t.turns, t.orphans, t.event, x,
                t.ruling)
BY DEF Threads, Fields

\* An assignment to the ruling.
LEMMA SetRuling ==
  ASSUME NEW t \in Threads, NEW x \in Rulings
  PROVE  Fields([t EXCEPT !.ruling = x], t.pc, t.turn, t.turns, t.orphans, t.event,
                t.candidate, x)
BY DEF Threads, Rulings, Fields

\* A thread in the place of another.
LEMMA SetThread ==
  ASSUME th \in [Orders -> Threads], NEW o \in Orders, NEW t,
         NEW pc, NEW turn, NEW turns, NEW orphans, NEW event, NEW candidate, NEW ruling,
         Fields(t, pc, turn, turns, orphans, event, candidate, ruling),
         th' = [th EXCEPT ![o] = t]
  PROVE  Becomes(o, pc, turn, turns, orphans, event, candidate, ruling)
BY DEF Fields, Becomes

\* An order that fails open.
LEMMA SetFailedOpen ==
  ASSUME DebateAssumption, th \in [Orders -> Threads], NEW o \in Orders,
         th' = [th EXCEPT ![o] = FailedOpen]
  PROVE  Becomes(o, "done", 1, <<>>, 0, {}, 0, "failed_open")
<1>1. Fields(FailedOpen, "done", 1, <<>>, 0, {}, 0, "failed_open")
  BY DEF Fields, FailedOpen, Threads, DebateAssumption, Turns
<1> HIDE DEF FailedOpen
<1> QED
  BY <1>1, SetThread

\* A step that moves a thread and changes no other field.
LEMMA Pc ==
  ASSUME th \in [Orders -> Threads], NEW o \in Orders, NEW x \in Points,
         th' = [th EXCEPT ![o].pc = x]
  PROVE  Becomes(o, x, th[o].turn, th[o].turns, th[o].orphans, th[o].event,
                 th[o].candidate, th[o].ruling)
<1>1. Fields([th[o] EXCEPT !.pc = x], x, th[o].turn, th[o].turns, th[o].orphans,
             th[o].event, th[o].candidate, th[o].ruling)
  BY SetPc
<1>2. th' = [th EXCEPT ![o] = [th[o] EXCEPT !.pc = x]]
  OBVIOUS
<1> QED
  BY <1>1, <1>2, SetThread

\* A step that moves a thread and takes or drops an event.
LEMMA PcEvent ==
  ASSUME th \in [Orders -> Threads], NEW o \in Orders, NEW x \in Points,
         NEW y \in SUBSET Events, th' = [th EXCEPT ![o].pc = x, ![o].event = y]
  PROVE  Becomes(o, x, th[o].turn, th[o].turns, th[o].orphans, y,
                 th[o].candidate, th[o].ruling)
<1> DEFINE u == [th[o] EXCEPT !.pc = x]
<1>1. Fields(u, x, th[o].turn, th[o].turns, th[o].orphans,
             th[o].event, th[o].candidate, th[o].ruling)
  BY SetPc
<1>2. th' = [th EXCEPT ![o] = [u EXCEPT !.event = y]]
  OBVIOUS
<1> HIDE DEF u
<1>3. Fields([u EXCEPT !.event = y], x, th[o].turn, th[o].turns, th[o].orphans,
             y, th[o].candidate, th[o].ruling)
  BY <1>1, SetEvent DEF Fields
<1> QED
  BY <1>2, <1>3, SetThread

\* The other forms of assignment that the actions use.
LEMMA Orphans ==
  ASSUME th \in [Orders -> Threads], NEW o \in Orders,
         th' = [th EXCEPT ![o].orphans = @ + 1]
  PROVE  Becomes(o, th[o].pc, th[o].turn, th[o].turns, th[o].orphans + 1, th[o].event,
                 th[o].candidate, th[o].ruling)
<1>1. th[o].orphans + 1 \in Nat
  BY DEF Threads
<1>2. Fields([th[o] EXCEPT !.orphans = th[o].orphans + 1], th[o].pc, th[o].turn,
             th[o].turns, th[o].orphans + 1, th[o].event, th[o].candidate, th[o].ruling)
  BY <1>1, SetOrphans
<1>3. th' = [th EXCEPT ![o] = [th[o] EXCEPT !.orphans = th[o].orphans + 1]]
  OBVIOUS
<1> QED
  BY <1>2, <1>3, SetThread

\* A step that gives a thread another candidate where it is.
LEMMA Candidate ==
  ASSUME th \in [Orders -> Threads], NEW o \in Orders, NEW x \in 0..Candidates,
         th' = [th EXCEPT ![o].candidate = x]
  PROVE  Becomes(o, th[o].pc, th[o].turn, th[o].turns, th[o].orphans, th[o].event,
                 x, th[o].ruling)
<1>1. Fields([th[o] EXCEPT !.candidate = x], th[o].pc, th[o].turn, th[o].turns,
             th[o].orphans, th[o].event, x, th[o].ruling)
  BY SetCandidate
<1>2. th' = [th EXCEPT ![o] = [th[o] EXCEPT !.candidate = x]]
  OBVIOUS
<1> QED
  BY <1>1, <1>2, SetThread

\* A step that moves a thread and gives it a candidate.
LEMMA PcCandidate ==
  ASSUME th \in [Orders -> Threads], NEW o \in Orders, NEW x \in Points,
         NEW y \in 0..Candidates, th' = [th EXCEPT ![o].pc = x, ![o].candidate = y]
  PROVE  Becomes(o, x, th[o].turn, th[o].turns, th[o].orphans, th[o].event, y,
                 th[o].ruling)
<1> DEFINE u == [th[o] EXCEPT !.pc = x]
<1>1. Fields(u, x, th[o].turn, th[o].turns, th[o].orphans,
             th[o].event, th[o].candidate, th[o].ruling)
  BY SetPc
<1>2. th' = [th EXCEPT ![o] = [u EXCEPT !.candidate = y]]
  OBVIOUS
<1> HIDE DEF u
<1>3. Fields([u EXCEPT !.candidate = y], x, th[o].turn, th[o].turns, th[o].orphans,
             th[o].event, y, th[o].ruling)
  BY <1>1, SetCandidate DEF Fields
<1> QED
  BY <1>2, <1>3, SetThread

\* A step that moves a thread, rules and gives it a candidate.
LEMMA PcRulingCandidate ==
  ASSUME th \in [Orders -> Threads], NEW o \in Orders, NEW x \in Points,
         NEW y \in Rulings, NEW z \in 0..Candidates,
         th' = [th EXCEPT ![o].pc = x, ![o].ruling = y, ![o].candidate = z]
  PROVE  Becomes(o, x, th[o].turn, th[o].turns, th[o].orphans, th[o].event, z, y)
<1> DEFINE u == [th[o] EXCEPT !.pc = x]
<1>1. Fields(u, x, th[o].turn, th[o].turns, th[o].orphans,
             th[o].event, th[o].candidate, th[o].ruling)
  BY SetPc
<1>2. th' = [th EXCEPT ![o] = [[u EXCEPT !.ruling = y] EXCEPT !.candidate = z]]
  OBVIOUS
<1> HIDE DEF u
<1> DEFINE v == [u EXCEPT !.ruling = y]
<1>3. Fields(v, x, th[o].turn, th[o].turns, th[o].orphans,
             th[o].event, th[o].candidate, y)
  BY <1>1, SetRuling DEF Fields
<1>4. th' = [th EXCEPT ![o] = [v EXCEPT !.candidate = z]]
  BY <1>2
<1> HIDE DEF v
<1>5. Fields([v EXCEPT !.candidate = z], x, th[o].turn, th[o].turns, th[o].orphans,
             th[o].event, z, y)
  BY <1>3, SetCandidate DEF Fields
<1> QED
  BY <1>4, <1>5, SetThread

\* What Resolve makes of a thread: an error fails the order open, a turn is
\* kept and the thread goes on to its next turn, or after the last to the judge.
Resolved(o, e) ==
  IF e.error THEN Becomes(o, "done", 1, <<>>, 0, {}, 0, "failed_open")
  ELSE IF th[o].turn < Turns
       THEN Becomes(o, "call", th[o].turn + 1, Append(th[o].turns, e.id), 0, {},
                    th[o].candidate, th[o].ruling)
       ELSE Becomes(o, "judge", th[o].turn, Append(th[o].turns, e.id), 0, {},
                    th[o].candidate, th[o].ruling)

\* What the end of a turn leaves of the thread: the next turn, the judge's, or a
\* debate that failed open.
LEMMA ResolveFields ==
  ASSUME DebateAssumption, TypeOK, NEW o \in Orders, Resolve(o)
  PROVE  \E e \in th[o].event : Resolved(o, e)
<1>0. th \in [Orders -> Threads]
  BY DEF TypeOK
<1> DEFINE u(e) == [th[o] EXCEPT !.turns = Append(@, e.id), !.orphans = 0, !.event = {}]
           t(e) == IF e.error THEN FailedOpen
                   ELSE IF th[o].turn < Turns
                        THEN [u(e) EXCEPT !.pc = "call", !.turn = @ + 1]
                        ELSE [u(e) EXCEPT !.pc = "judge"]
<1>1. PICK e \in th[o].event : th' = [th EXCEPT ![o] = t(e)]
  BY DEF Resolve
<1>2. e.id \in Ids
  BY <1>0 DEF Threads, Events
<1>3. Fields(u(e), th[o].pc, th[o].turn, Append(th[o].turns, e.id), 0, {},
             th[o].candidate, th[o].ruling)
  <2>1. Append(th[o].turns, e.id) \in Seq(Ids)
    BY <1>0, <1>2 DEF Threads
  <2> DEFINE y == Append(th[o].turns, e.id)
             a == [th[o] EXCEPT !.turns = y]
  <2>2. Fields(a, th[o].pc, th[o].turn, y, th[o].orphans, th[o].event,
               th[o].candidate, th[o].ruling)
    BY <1>0, <2>1, SetTurns
  <2>3. u(e) = [[a EXCEPT !.orphans = 0] EXCEPT !.event = {}]
    OBVIOUS
  <2> HIDE DEF a, y, u
  <2> DEFINE b == [a EXCEPT !.orphans = 0]
  <2>4. Fields(b, th[o].pc, th[o].turn, y, 0, th[o].event, th[o].candidate, th[o].ruling)
    BY <2>2, SetOrphans DEF Fields
  <2>5. u(e) = [b EXCEPT !.event = {}]
    BY <2>3
  <2> HIDE DEF b
  <2>6. Fields(u(e), th[o].pc, th[o].turn, y, 0, {}, th[o].candidate, th[o].ruling)
    BY <2>4, <2>5, SetEvent DEF Fields
  <2> QED
    BY <2>6 DEF y
<1> DEFINE w == u(e)
<1>4. CASE e.error
  BY <1>0, <1>1, <1>4, SetFailedOpen DEF Resolved
<1>5. CASE ~e.error /\ th[o].turn < Turns
  <2>1. Fields(w, th[o].pc, th[o].turn, Append(th[o].turns, e.id), 0, {},
               th[o].candidate, th[o].ruling)
    BY <1>3
  <2>2. th' = [th EXCEPT ![o] = [w EXCEPT !.pc = "call", !.turn = @ + 1]]
    BY <1>1, <1>5
  <2> HIDE DEF w, u, t
  <2> DEFINE a == [w EXCEPT !.pc = "call"]
  <2>3. Fields(a, "call", th[o].turn, Append(th[o].turns, e.id), 0, {},
               th[o].candidate, th[o].ruling)
    BY <2>1, SetPc DEF Fields, Points
  <2>4. [w EXCEPT !.pc = "call", !.turn = @ + 1] = [a EXCEPT !.turn = a.turn + 1]
    BY <2>1 DEF Fields, Threads
  <2> HIDE DEF a
  <2>5. th[o].turn + 1 \in 1..Turns
    BY <1>0, <1>5 DEF Threads, Turns, DebateAssumption
  <2>6. Fields([a EXCEPT !.turn = a.turn + 1], "call", th[o].turn + 1,
               Append(th[o].turns, e.id), 0, {}, th[o].candidate, th[o].ruling)
    BY <2>3, <2>5, SetTurn DEF Fields
  <2>7. Becomes(o, "call", th[o].turn + 1, Append(th[o].turns, e.id), 0, {},
                th[o].candidate, th[o].ruling)
    BY <1>0, <2>2, <2>4, <2>6, SetThread
  <2> QED
    BY <1>5, <2>7 DEF Resolved
<1>6. CASE ~e.error /\ ~(th[o].turn < Turns)
  <2>1. Fields(w, th[o].pc, th[o].turn, Append(th[o].turns, e.id), 0, {},
               th[o].candidate, th[o].ruling)
    BY <1>3
  <2>2. th' = [th EXCEPT ![o] = [w EXCEPT !.pc = "judge"]]
    BY <1>1, <1>6
  <2> HIDE DEF w, u, t
  <2>3. Fields([w EXCEPT !.pc = "judge"], "judge", th[o].turn, Append(th[o].turns, e.id),
               0, {}, th[o].candidate, th[o].ruling)
    BY <2>1, SetPc DEF Fields, Points
  <2>4. Becomes(o, "judge", th[o].turn, Append(th[o].turns, e.id), 0, {},
                th[o].candidate, th[o].ruling)
    BY <1>0, <2>2, <2>3, SetThread
  <2> QED
    BY <1>6, <2>4 DEF Resolved
<1> QED
  BY <1>4, <1>5, <1>6

-----------------------------------------------------------------------------
(* The inductive invariant *)

\* Threads run only under a review.  A thread holds an event only between
\* receiving it and stashing or resolving it, resolves its own reply only, and
\* its request is pending from before the publish to the end of the wait.
Shape ==
  \A o \in Orders :
    /\ manager # "review" => th[o].pc \in {"queued", "done"}
    /\ th[o].pc \notin {"stash", "resolve"} => th[o].event = {}
    /\ th[o].pc = "resolve" => \A e \in th[o].event : e.id = IdOf(o)
    /\ th[o].pc \in {"publish", "wait", "stash"} => IdOf(o) \in pending

\* The candidates: the ones left behind have refused, and no thread asks one
\* the process has not come to.
Chain ==
  /\ 1..(index - 1) \subseteq refused
  /\ \A o \in Orders : th[o].pc = "judging" => th[o].candidate \in 1..index

\* Where a request or its answer may be, one place at a time.
Asked(x) == \E p \in Peers : x \in requests[p] \/ x \in taken[p]
Coming(x) ==
  \/ \E e \in replies : e.id = x
  \/ \E e \in stashed : e.id = x
  \/ \E o \in Orders : \E e \in th[o].event : e.id = x
Kept(x) == \E o \in Orders : \E k \in 1..Len(th[o].turns) : th[o].turns[k] = x
Known(x) == Asked(x) \/ Coming(x) \/ x \in lost \/ Kept(x)

\* A thread's next request is new: what is known of its attempt are earlier
\* turns, and its present one once published.
Fresh(x) ==
  /\ x.attempt <= attempt
  /\ (manager = "review" /\ x.attempt = attempt) =>
       /\ th[x.order].pc \in {"queued", "call", "publish"} => x.turn < th[x.order].turn
       /\ th[x.order].pc \in {"wait", "stash", "resolve"} => x.turn <= th[x.order].turn

Bus ==
  /\ \A p \in Peers : \A x \in requests[p] \cup taken[p] : Recipient(x.turn) = p
  /\ \A p \in Peers : \A x \in requests[p] : x \notin taken[p]
  /\ \A x \in Ids : Known(x) => Fresh(x)
  /\ \A x \in Ids : ~(Asked(x) /\ (Coming(x) \/ x \in lost \/ Kept(x)))
  /\ \A o \in Orders :
       th[o].pc \in {"wait", "stash"} =>
         Asked(IdOf(o)) \/ Coming(IdOf(o)) \/ IdOf(o) \in lost

\* The transcript of a thread is its debate so far, reply by reply.
Upto(o, n) ==
  /\ Len(th[o].turns) = n
  /\ \A k \in 1..n : th[o].turns[k] = [attempt |-> attempt, order |-> o, turn |-> k]

Transcript ==
  \A o \in Orders :
    /\ th[o].ruling = "none" <=> th[o].pc # "done"
    /\ th[o].pc \in {"queued", "call", "publish", "wait", "stash", "resolve"} =>
         Upto(o, th[o].turn - 1)
    /\ th[o].pc \in {"judge", "judging"} \/ th[o].ruling = "ruled" => Upto(o, Turns)
    /\ th[o].ruling = "failed_open" => th[o].turns = <<>>

\* Orphans are a wait's own until it ends; s sums them over the threads.
Sums(s) ==
  /\ s \in [0..N -> Int] /\ s[0] = 0
  /\ \A i \in Orders : s[i] = s[i - 1] + th[i].orphans

\* Only a wait holds orphans; the recorded and the held ones are the letters
\* of the review; what is written is of this attempt only when it is over.
Held ==
  \A o \in Orders : th[o].pc \notin {"wait", "stash", "resolve"} => th[o].orphans = 0

Tally ==
  \E s \in [0..N -> Int] :
    /\ Sums(s)
    /\ client - before + s[N] <= dead
    /\ ~blind => client - before + s[N] = dead

Dated ==
  \A r \in record :
    /\ r.attempt \in Nat /\ r.attempt <= attempt
    /\ manager = "review" => r.attempt < attempt

Count == Held /\ (manager = "review" => Tally) /\ Dated

-----------------------------------------------------------------------------
(* What the actions do to the threads *)

\* Thread o moves to pc, with event e in hand, and is otherwise as before.
MovesTo(o, pc, e) ==
  Becomes(o, pc, th[o].turn, th[o].turns, th[o].orphans, e, th[o].candidate, th[o].ruling)

FailsOpen(o) == Becomes(o, "done", 1, <<>>, 0, {}, 0, "failed_open")

\* All threads start anew.
Reset == \A o \in Orders : th'[o] = NewThread

\* The events that a thread may take have ids of the debate, and so has IdOf.
LEMMA IdTypes ==
  ASSUME TypeOK, NEW o \in Orders
  PROVE  /\ IdOf(o) \in Ids
         /\ IdOf(o).attempt = attempt /\ IdOf(o).order = o /\ IdOf(o).turn = th[o].turn
         /\ Recipient(th[o].turn) \in Peers
         /\ \A e \in replies \cup stashed \cup th[o].event : e \in Events /\ e.id \in Ids
BY DEF TypeOK, IdOf, Ids, Threads, Recipient, Peers, Events

\* Each action of a thread, by the fields it leaves.
LEMMA ThreadEffects ==
  ASSUME DebateAssumption, TypeOK, NEW o \in Orders
  PROVE  /\ StartOrder(o) => MovesTo(o, "call", th[o].event)
         /\ Expect(o) => MovesTo(o, "publish", th[o].event)
         /\ PublishRequest(o) => MovesTo(o, "wait", th[o].event)
         /\ \A e \in Events : Matched(o, e) => MovesTo(o, "resolve", {e})
         /\ ReceiveSibling(o) =>
              \E e \in replies : /\ e.id # IdOf(o) /\ e.id \in pending
                                 /\ replies' = replies \ {e} /\ MovesTo(o, "stash", {e})
         /\ Stash(o) => MovesTo(o, "wait", {})
         /\ DeadLetter(o) =>
              Becomes(o, th[o].pc, th[o].turn, th[o].turns, th[o].orphans + 1,
                      th[o].event, th[o].candidate, th[o].ruling)
         /\ AskJudge(o) =>
              Becomes(o, "judging", th[o].turn, th[o].turns, th[o].orphans,
                      th[o].event, index, th[o].ruling)
         /\ JudgeRules(o) =>
              Becomes(o, "done", th[o].turn, th[o].turns, th[o].orphans,
                      th[o].event, 0, "ruled")
         /\ TimeOut(o) \/ ReviewRaises(o) \/ PublishRaises(o) \/ ReceiveRaises(o)
              => FailsOpen(o)
<1>0. th \in [Orders -> Threads]
  BY DEF TypeOK
<1>1. StartOrder(o) => MovesTo(o, "call", th[o].event)
  BY <1>0, Pc DEF StartOrder, MovesTo, Points
<1>2. Expect(o) => MovesTo(o, "publish", th[o].event)
  BY <1>0, Pc DEF Expect, MovesTo, Points
<1>3. PublishRequest(o) => MovesTo(o, "wait", th[o].event)
  BY <1>0, Pc DEF PublishRequest, MovesTo, Points
<1>4. ASSUME NEW e \in Events, Matched(o, e)
      PROVE  MovesTo(o, "resolve", {e})
  BY <1>0, <1>4, PcEvent DEF Matched, MovesTo, Points
<1>5. ASSUME ReceiveSibling(o)
      PROVE  \E e \in replies : /\ e.id # IdOf(o) /\ e.id \in pending
                                /\ replies' = replies \ {e} /\ MovesTo(o, "stash", {e})
  <2>1. PICK e \in replies : /\ ~IsOwn(o, e) /\ e.id \in pending
                             /\ replies' = replies \ {e}
                             /\ th' = [th EXCEPT ![o].pc = "stash", ![o].event = {e}]
    BY <1>5 DEF ReceiveSibling
  <2>2. {e} \in SUBSET Events
    BY DEF TypeOK
  <2>3. MovesTo(o, "stash", {e})
    BY <1>0, <2>1, <2>2, PcEvent DEF MovesTo, Points
  <2> QED
    BY <2>1, <2>3 DEF IsOwn
<1>6. Stash(o) => MovesTo(o, "wait", {})
  BY <1>0, PcEvent DEF Stash, MovesTo, Points
<1>7. DeadLetter(o) =>
        Becomes(o, th[o].pc, th[o].turn, th[o].turns, th[o].orphans + 1,
                th[o].event, th[o].candidate, th[o].ruling)
  BY <1>0, Orphans DEF DeadLetter
<1>8. AskJudge(o) =>
        Becomes(o, "judging", th[o].turn, th[o].turns, th[o].orphans,
                th[o].event, index, th[o].ruling)
  <2>1. index \in 0..Candidates
    BY DEF TypeOK
  <2> QED
    BY <1>0, <2>1, PcCandidate DEF AskJudge, Points
<1>9. JudgeRules(o) =>
        Becomes(o, "done", th[o].turn, th[o].turns, th[o].orphans,
                th[o].event, 0, "ruled")
  <2>1. 0 \in 0..Candidates
    BY DEF DebateAssumption
  <2> QED
    BY <1>0, <2>1, PcRulingCandidate DEF JudgeRules, Points, Rulings
<1>10. TimeOut(o) \/ ReviewRaises(o) \/ PublishRaises(o) \/ ReceiveRaises(o)
         => FailsOpen(o)
  BY <1>0, SetFailedOpen DEF TimeOut, ReviewRaises, PublishRaises, ReceiveRaises,
     FailsOpen
<1> QED
  BY <1>1, <1>2, <1>3, <1>4, <1>5, <1>6, <1>7, <1>8, <1>9, <1>10

\* A refusal: the thread goes to the candidate in use, or fails open.
LEMMA RefusedEffect ==
  ASSUME DebateAssumption, TypeOK, NEW o \in Orders, JudgeRefused(o)
  PROVE  /\ th[o].pc = "judging" /\ th[o].candidate \in 0..Candidates
         /\ refused' = refused \cup {th[o].candidate}
         /\ \/ FailsOpen(o) /\ index' = index
            \/ /\ th[o].candidate < Candidates
               /\ index' = After(th[o].candidate)
               /\ Becomes(o, th[o].pc, th[o].turn, th[o].turns, th[o].orphans, th[o].event,
                          index', th[o].ruling)
<1>0. th \in [Orders -> Threads] /\ th[o].candidate \in 0..Candidates
  BY DEF TypeOK, Threads
<1>1. CASE th[o].candidate = Candidates
  BY <1>0, <1>1, SetFailedOpen DEF JudgeRefused, FailsOpen
<1>2. CASE th[o].candidate # Candidates
  <2>1. After(th[o].candidate) \in 0..Candidates /\ th[o].candidate < Candidates
    BY <1>0, <1>2 DEF After, TypeOK, DebateAssumption
  <2>2. /\ index' = After(th[o].candidate)
        /\ th' = [th EXCEPT ![o].candidate = After(th[o].candidate)]
    BY <1>2 DEF JudgeRefused
  <2> HIDE DEF After
  <2>3. Becomes(o, th[o].pc, th[o].turn, th[o].turns, th[o].orphans, th[o].event,
                After(th[o].candidate), th[o].ruling)
    BY <1>0, <2>1, <2>2, Candidate
  <2> QED
    BY <1>0, <2>1, <2>2, <2>3 DEF JudgeRefused
<1> QED
  BY <1>1, <1>2

\* A new review, and a manager that is killed.
LEMMA ResetEffect ==
  ASSUME DebateAssumption, StartReview \/ ManagerDies
  PROVE  th' \in [Orders -> Threads] /\ Reset
<1>1. NewThread \in Threads
  BY DEF NewThread, Threads, DebateAssumption, Turns
<1> QED
  BY <1>1 DEF StartReview, ManagerDies, Reset

-----------------------------------------------------------------------------
(* Type correctness *)

\* The conjuncts of TypeOK that are neither about the threads nor about the bus.
Counters ==
  /\ manager \in {"idle", "review", "link"} /\ attempt \in Nat
  /\ pending \subseteq Ids /\ stashed \subseteq Events
  /\ index \in 1..Candidates /\ refused \subseteq 1..Candidates
  /\ client \in Nat /\ before \in Nat /\ dead \in Nat /\ failures \in Nat
  /\ replies \subseteq Events /\ lost \subseteq Ids

Subscriptions ==
  /\ requests \in [Peers -> SUBSET Ids]
  /\ taken \in [Peers -> SUBSET Ids]
  /\ \A p \in Peers : \A x, y \in taken[p] : x = y

Flags ==
  /\ blind \in BOOLEAN /\ linked \in BOOLEAN
  /\ routed \in BOOLEAN /\ quarantined \in BOOLEAN

\* What a receive that raises leaves of the replies: all of them, or one settled
\* by a call that took effect, lost if it was waited for and else dead-lettered.
LEMMA RaiseEffects ==
  ASSUME TypeOK, NEW o \in Orders, ReceiveRaises(o)
  PROVE  \/ replies' = replies /\ lost' = lost /\ dead' = dead
         \/ \E e \in replies :
              /\ replies' = replies \ {e} /\ e.id \in Ids
              /\ \/ lost' = lost \cup {e.id} /\ dead' = dead
                 \/ lost' = lost /\ dead' = dead + 1 /\ e.id \notin pending
BY IdTypes DEF ReceiveRaises, SettledAndRaised

\* A failed attempt is counted, or ends in the quarantine.
LEMMA FailureTypes ==
  ASSUME TypeOK, CountFailure
  PROVE  failures' \in Nat /\ quarantined' \in BOOLEAN
<1>1. CASE failures + 1 >= MaxAttempts
  <2>1. failures' = 0 /\ quarantined' = TRUE
    BY <1>1 DEF CountFailure
  <2> QED
    BY <2>1
<1>2. CASE ~(failures + 1 >= MaxAttempts)
  <2>1. failures' = failures + 1 /\ quarantined' = quarantined
    BY <1>2 DEF CountFailure
  <2>2. failures' \in Nat
    BY <2>1 DEF TypeOK
  <2>3. quarantined' \in BOOLEAN
    BY <2>1, Zenon DEF TypeOK
  <2> QED
    BY <2>2, <2>3
<1> QED
  BY <1>1, <1>2

\* A step of a thread keeps the types.
LEMMA TypeThread ==
  ASSUME DebateAssumption, TypeOK, Chain, NEW o \in Orders,
         OrderStep(o) \/ PublishRaises(o) \/ ReceiveRaises(o)
  PROVE  TypeOK'
<1> USE DEF Becomes
<1>0. /\ th \in [Orders -> Threads] /\ Counters /\ Subscriptions
      /\ faults \in 0..MaxFaults /\ MaxFaults \in Nat
  BY DEF TypeOK, Counters, Subscriptions, DebateAssumption
<1>i. /\ IdOf(o) \in Ids /\ Recipient(th[o].turn) \in Peers
      /\ th[o].orphans \in Nat /\ th[o].event \subseteq Events
  BY <1>0, IdTypes, ThreadTypes
<1>r. Announced(o) \in [Peers -> SUBSET Ids]
  BY <1>0, <1>i DEF Announced, Subscriptions
<1>l. LeaveInbox(o) => pending' \subseteq Ids /\ stashed' \subseteq Events
  BY <1>0 DEF LeaveInbox, Counters
<1>th. th' \in [Orders -> Threads]
  <2>1. CASE PopStashed(o) \/ ReceiveOwn(o)
    <3>1. \E e \in Events : Matched(o, e)
      BY <1>0, <2>1 DEF PopStashed, ReceiveOwn, Counters
    <3> QED
      BY <3>1, ThreadEffects DEF MovesTo
  <2>2. CASE Resolve(o)
    BY <2>2, ResolveFields DEF Resolved
  <2>3. CASE JudgeRefused(o)
    BY <2>3, RefusedEffect DEF FailsOpen
  <2> QED
    BY <2>1, <2>2, <2>3, ThreadEffects DEF OrderStep, MovesTo, FailsOpen
<1>co. Counters'
  <2>1. CASE Expect(o)
    BY <2>1, <1>0, <1>i DEF Expect, Counters, loopVars, chainVars, countVars
  <2>2. CASE PopStashed(o) \/ ReceiveOwn(o)
    BY <2>2, <1>0, <1>l DEF PopStashed, ReceiveOwn, Matched, Counters, loopVars,
       chainVars, countVars
  <2>3. CASE Stash(o)
    BY <2>3, <1>0, <1>i DEF Stash, Counters, loopVars, chainVars, countVars
  <2>4. CASE JudgeRefused(o)
    <3>1. refused' \subseteq 1..Candidates /\ index' \in 1..Candidates
      <4>1. th[o].candidate \in 1..Candidates
        BY <2>4, <1>0, RefusedEffect DEF Counters, loopVars, Chain
      <4>2. index' \in 1..Candidates
        BY <2>4, <4>1, <1>0, RefusedEffect DEF Counters, loopVars, After
      <4> QED
        BY <2>4, <4>1, <4>2, <1>0, RefusedEffect DEF Counters
    <3> QED
      BY <2>4, <3>1, <1>0 DEF JudgeRefused, Counters, loopVars, inboxVars, countVars
  <2>5. CASE TimeOut(o)
    BY <2>5, <1>0, <1>i, <1>l DEF TimeOut, Counters, loopVars, chainVars
  <2>6. CASE PublishRaises(o)
    BY <2>6, <1>0, <1>l DEF PublishRaises, Counters, loopVars, chainVars, countVars
  <2>10. CASE ReceiveRaises(o)
    <3>1. replies' \subseteq Events /\ lost' \subseteq Ids /\ dead' \in Nat
      BY <2>10, <1>0, RaiseEffects DEF Counters
    <3> QED
      BY <2>10, <3>1, <1>0, <1>l DEF ReceiveRaises, Counters, loopVars, chainVars
  <2>8. CASE Resolve(o)
    BY <2>8, <1>0, <1>i DEF Resolve, Counters, loopVars, inboxVars, chainVars
  <2>9. CASE DeadLetter(o) \/ ReceiveSibling(o)
    BY <2>9, <1>0 DEF DeadLetter, ReceiveSibling, Counters, loopVars, inboxVars,
       chainVars, countVars
  <2>7. CASE StartOrder(o) \/ PublishRequest(o) \/ AskJudge(o) \/ JudgeRules(o)
             \/ ReviewRaises(o)
    BY <2>7, <1>0 DEF StartOrder, PublishRequest, AskJudge, JudgeRules, ReviewRaises,
       Counters, loopVars, inboxVars, chainVars, countVars
  <2> QED
    BY <2>1, <2>2, <2>3, <2>4, <2>5, <2>6, <2>7, <2>8, <2>9, <2>10 DEF OrderStep
<1>su. Subscriptions'
  <2>1. CASE PublishRequest(o) \/ PublishRaises(o)
    BY <2>1, <1>0, <1>r DEF PublishRequest, PublishRaises, Subscriptions
  <2>2. CASE StartOrder(o) \/ Expect(o) \/ PopStashed(o) \/ ReceiveOwn(o) \/ ReceiveSibling(o)
             \/ Stash(o) \/ DeadLetter(o) \/ TimeOut(o) \/ ReceiveRaises(o)
    BY <2>2, <1>0 DEF StartOrder, Expect, PopStashed, ReceiveOwn, ReceiveSibling, Stash,
       DeadLetter, TimeOut, ReceiveRaises, Subscriptions
  <2>3. CASE Resolve(o) \/ AskJudge(o) \/ JudgeRules(o) \/ JudgeRefused(o) \/ ReviewRaises(o)
    BY <2>3, <1>0 DEF Resolve, AskJudge, JudgeRules, JudgeRefused, ReviewRaises,
       Subscriptions
  <2> QED
    BY <2>1, <2>2, <2>3 DEF OrderStep
<1>fl. Flags'
  <2>0. Flags
    BY Zenon DEF TypeOK, Flags
  <2>1. CASE ReceiveRaises(o)
    BY <2>0, <2>1, Zenon DEF ReceiveRaises, Flags, graphVars, loopVars
  <2>2. CASE ~ReceiveRaises(o)
    <3>1. /\ blind' = blind /\ linked' = linked
          /\ routed' = routed /\ quarantined' = quarantined
      <4>1. CASE PublishRequest(o) \/ StartOrder(o) \/ Expect(o) \/ PopStashed(o)
                 \/ ReceiveOwn(o) \/ ReceiveSibling(o) \/ Stash(o)
        BY <4>1 DEF PublishRequest, StartOrder, Expect, PopStashed, ReceiveOwn,
           ReceiveSibling, Stash, countVars, graphVars, loopVars
      <4>2. CASE DeadLetter(o) \/ TimeOut(o) \/ Resolve(o) \/ AskJudge(o) \/ JudgeRules(o)
                 \/ JudgeRefused(o) \/ ReviewRaises(o) \/ PublishRaises(o)
        BY <4>2 DEF DeadLetter, TimeOut, Resolve, AskJudge, JudgeRules, JudgeRefused,
           ReviewRaises, PublishRaises, countVars, graphVars, loopVars
      <4> QED
        BY <2>2, <4>1, <4>2 DEF OrderStep
    <3> QED
      BY <2>0, <3>1, Zenon DEF Flags
  <2> QED
    BY <2>1, <2>2
<1>fa. faults' \in 0..MaxFaults
  <2>1. CASE PublishRequest(o) \/ StartOrder(o) \/ Expect(o) \/ PopStashed(o)
             \/ ReceiveOwn(o) \/ ReceiveSibling(o) \/ Stash(o)
    BY <1>0, <2>1 DEF PublishRequest, StartOrder, Expect, PopStashed, ReceiveOwn,
       ReceiveSibling, Stash
  <2>2. CASE DeadLetter(o) \/ TimeOut(o) \/ Resolve(o) \/ AskJudge(o) \/ JudgeRules(o)
             \/ JudgeRefused(o) \/ ReviewRaises(o)
    BY <1>0, <2>2 DEF DeadLetter, TimeOut, Resolve, AskJudge, JudgeRules, JudgeRefused,
       ReviewRaises
  <2>3. CASE PublishRaises(o) \/ ReceiveRaises(o)
    <3>1. faults < MaxFaults /\ faults' = faults + 1
      BY <2>3 DEF PublishRaises, ReceiveRaises, Fault
    <3> QED
      BY <1>0, <3>1
  <2> QED
    BY <2>1, <2>2, <2>3 DEF OrderStep
<1> QED
  BY <1>th, <1>co, <1>su, <1>fl, <1>fa, Zenon
     DEF TypeOK, Counters, Subscriptions, Flags

\* So does a step of the manager or of a peer.
LEMMA TypeManager ==
  ASSUME DebateAssumption, TypeOK,
         \/ PreflightFails \/ StartReview \/ WriteRun \/ LinkRun \/ WriteRaises
         \/ ManagerDies
  PROVE  TypeOK'
<1>0. /\ th \in [Orders -> Threads] /\ Counters /\ Subscriptions
      /\ faults \in 0..MaxFaults /\ MaxFaults \in Nat /\ Candidates \in Nat \ {0}
  BY DEF TypeOK, Counters, Subscriptions, DebateAssumption
<1>th. th' \in [Orders -> Threads]
  BY <1>0, ResetEffect DEF PreflightFails, WriteRun, LinkRun, WriteRaises
<1>co. Counters'
  <2>1. CASE StartReview
    <3>1. UNCHANGED <<pending, stashed, index, refused, client, replies, lost, failures>>
      BY <2>1 DEF StartReview, inboxVars, chainVars, loopVars
    <3>2. manager' = "review" /\ attempt' = attempt + 1 /\ before' = client /\ dead' = 0
      BY <2>1 DEF StartReview
    <3> QED
      BY <1>0, <3>1, <3>2 DEF Counters
  <2>2. CASE WriteRun \/ LinkRun
    <3>1. UNCHANGED <<attempt, pending, stashed, index, refused, client, before, dead,
                      replies, lost>>
      BY <2>2 DEF WriteRun, LinkRun, inboxVars, chainVars, countVars
    <3>2. manager' \in {"link", "idle"} /\ failures' \in {failures, 0}
      BY <2>2 DEF WriteRun, LinkRun, loopVars
    <3> QED
      BY <1>0, <3>1, <3>2 DEF Counters
  <2>4. CASE PreflightFails \/ WriteRaises
    <3>1. failures' \in Nat
      BY <2>4, FailureTypes DEF PreflightFails, WriteRaises
    <3> QED
      BY <1>0, <2>4, <3>1 DEF PreflightFails, WriteRaises, Counters, inboxVars, chainVars,
         countVars
  <2>3. CASE ManagerDies
    BY <1>0, <2>3 DEF ManagerDies, Counters
  <2> QED
    BY <2>1, <2>2, <2>3, <2>4
<1>su. Subscriptions'
  BY <1>0 DEF PreflightFails, Ready, StartReview, WriteRun, LinkRun, WriteRaises,
     ManagerDies, Subscriptions
<1>fl. Flags'
  <2>0. Flags
    BY Zenon DEF TypeOK, Flags
  <2>1. CASE StartReview \/ WriteRun
    BY <2>0, <2>1, Zenon DEF Flags, StartReview, WriteRun, countVars, graphVars, loopVars
  <2>2. CASE LinkRun \/ ManagerDies
    BY <2>0, <2>2, Zenon DEF Flags, LinkRun, ManagerDies, countVars, graphVars
  <2>3. CASE PreflightFails \/ WriteRaises
    <3>1. quarantined' \in BOOLEAN
      BY <2>3, FailureTypes DEF PreflightFails, WriteRaises
    <3> QED
      BY <2>0, <2>3, <3>1, Zenon DEF Flags, PreflightFails, WriteRaises, countVars,
         graphVars
  <2> QED
    BY <2>1, <2>2, <2>3
<1>fa. faults' \in 0..MaxFaults
  BY <1>0 DEF PreflightFails, Ready, StartReview, WriteRun, LinkRun, WriteRaises,
     ManagerDies, Fault
<1> QED
  BY <1>th, <1>co, <1>su, <1>fl, <1>fa, Zenon
     DEF TypeOK, Counters, Subscriptions, Flags

\* A peer's steps keep the types.
LEMMA TypePeer ==
  ASSUME DebateAssumption, TypeOK, NEW p \in Peers, Take(p) \/ Serve(p) \/ PeerDies(p)
  PROVE  TypeOK'
<1>0. /\ th \in [Orders -> Threads] /\ Counters /\ Subscriptions
      /\ faults \in 0..MaxFaults /\ MaxFaults \in Nat
  BY DEF TypeOK, Counters, Subscriptions, DebateAssumption
<1>th. th' \in [Orders -> Threads]
  BY <1>0 DEF Take, Serve, PeerDies
<1>co. Counters'
  <2>1. CASE Take(p) \/ PeerDies(p)
    BY <1>0, <2>1 DEF Take, PeerDies, Counters, Subscriptions, inboxVars, chainVars,
       countVars,
       loopVars
  <2>2. CASE Serve(p)
    <3>1. PICK error \in BOOLEAN : Answer(p, error)
      BY <2>2 DEF Serve
    <3>2. PICK id \in taken[p] :
            \/ replies' = replies \cup {[id |-> id, error |-> error]} /\ lost' = lost
            \/ lost' = lost \cup {id} /\ replies' = replies
      BY <3>1 DEF Answer
    <3>3. [id |-> id, error |-> error] \in Events
      BY <1>0, Zenon DEF Subscriptions, Events
    <3>4. replies' \subseteq Events /\ lost' \subseteq Ids
      BY <1>0, <3>2, <3>3 DEF Counters, Subscriptions
    <3> QED
      BY <1>0, <2>2, <3>4 DEF Serve, Counters, inboxVars, chainVars, countVars, loopVars
  <2> QED
    BY <2>1, <2>2
<1>su. Subscriptions'
  BY <1>0 DEF Take, Serve, Answer, PeerDies, Subscriptions
<1>fl. Flags'
  BY Zenon DEF TypeOK, Flags, Take, Serve, PeerDies, countVars, graphVars, loopVars
<1>fa. faults' \in 0..MaxFaults
  BY <1>0 DEF Take, Serve, Answer, PeerDies, Fault
<1> QED
  BY <1>th, <1>co, <1>su, <1>fl, <1>fa, Zenon
     DEF TypeOK, Counters, Subscriptions, Flags

-----------------------------------------------------------------------------
(* The shape of the threads *)

\* What no step of a thread touches.
LEMMA ThreadFrame ==
  ASSUME DebateAssumption, TypeOK, NEW o \in Orders,
         OrderStep(o) \/ PublishRaises(o) \/ ReceiveRaises(o)
  PROVE  /\ manager' = manager /\ attempt' = attempt /\ before' = before
         /\ record' = record /\ taken' = taken
         /\ ReceiveRaises(o) \/ lost' = lost
         /\ lost \subseteq lost'
         /\ faults' = faults \/ Fault
         /\ pending \ {IdOf(o)} \subseteq pending'
         /\ th' \in [Orders -> Threads]
         /\ \A x \in Orders \ {o} : /\ th'[x] = th[x] /\ IdOf(x)' = IdOf(x)
                                    /\ IdOf(x) # IdOf(o)
<1>1. /\ manager' = manager /\ attempt' = attempt /\ before' = before
      /\ record' = record /\ taken' = taken
      /\ ReceiveRaises(o) \/ lost' = lost
      /\ faults' = faults \/ Fault
      /\ pending \ {IdOf(o)} \subseteq pending'
  <2>1. CASE PublishRequest(o) \/ StartOrder(o) \/ Expect(o) \/ PopStashed(o)
             \/ ReceiveOwn(o) \/ ReceiveSibling(o) \/ Stash(o)
    BY <2>1 DEF PublishRequest, StartOrder, Expect, PopStashed, ReceiveOwn,
       ReceiveSibling, Stash, Matched, LeaveInbox, inboxVars, countVars, graphVars
  <2>2. CASE DeadLetter(o) \/ TimeOut(o) \/ Resolve(o) \/ AskJudge(o) \/ JudgeRules(o)
    BY <2>2 DEF DeadLetter, TimeOut, Resolve, AskJudge, JudgeRules, LeaveInbox, inboxVars,
       countVars, graphVars
  <2>3. CASE JudgeRefused(o) \/ ReviewRaises(o) \/ PublishRaises(o) \/ ReceiveRaises(o)
    BY <2>3 DEF JudgeRefused, ReviewRaises, PublishRaises, ReceiveRaises, LeaveInbox,
       inboxVars, countVars, graphVars
  <2> QED
    BY <2>1, <2>2, <2>3 DEF OrderStep
<1>2. th' \in [Orders -> Threads] /\ \A x \in Orders \ {o} : th'[x] = th[x]
  <2> USE DEF Becomes
  <2>1. CASE PopStashed(o) \/ ReceiveOwn(o)
    <3>1. \E e \in Events : Matched(o, e)
      BY <2>1 DEF PopStashed, ReceiveOwn, TypeOK
    <3> QED
      BY <3>1, ThreadEffects DEF MovesTo
  <2>2. CASE Resolve(o)
    BY <2>2, ResolveFields DEF Resolved
  <2>3. CASE JudgeRefused(o)
    BY <2>3, RefusedEffect DEF FailsOpen
  <2> QED
    BY <2>1, <2>2, <2>3, ThreadEffects DEF OrderStep, MovesTo, FailsOpen
<1>3. ASSUME NEW x \in Orders \ {o}
      PROVE  IdOf(x)' = IdOf(x) /\ IdOf(x) # IdOf(o)
  BY <1>1, <1>2 DEF IdOf
<1>4. lost \subseteq lost'
  BY <1>1, RaiseEffects
<1> QED
  BY <1>1, <1>2, <1>3, <1>4

\* A thread steps only under a review.
LEMMA ThreadRuns ==
  ASSUME Shape, NEW o \in Orders, OrderStep(o) \/ PublishRaises(o) \/ ReceiveRaises(o)
  PROVE  manager = "review"
<1>1. CASE PublishRequest(o) \/ StartOrder(o) \/ Expect(o) \/ PopStashed(o)
           \/ ReceiveOwn(o) \/ ReceiveSibling(o) \/ Stash(o)
  BY <1>1 DEF PublishRequest, StartOrder, Expect, PopStashed, ReceiveOwn, ReceiveSibling,
     Stash, Shape
<1>2. CASE DeadLetter(o) \/ TimeOut(o) \/ Resolve(o) \/ AskJudge(o) \/ JudgeRules(o)
           \/ JudgeRefused(o) \/ ReviewRaises(o) \/ PublishRaises(o) \/ ReceiveRaises(o)
  BY <1>2 DEF DeadLetter, TimeOut, Resolve, AskJudge, JudgeRules, JudgeRefused,
     ReviewRaises,
     PublishRaises, ReceiveRaises, Shape
<1> QED
  BY <1>1, <1>2 DEF OrderStep

\* One thread's part of Shape.
InShape(o) ==
  /\ manager # "review" => th[o].pc \in {"queued", "done"}
  /\ th[o].pc \notin {"stash", "resolve"} => th[o].event = {}
  /\ th[o].pc = "resolve" => \A e \in th[o].event : e.id = IdOf(o)
  /\ th[o].pc \in {"publish", "wait", "stash"} => IdOf(o) \in pending

\* A thread keeps its shape along its turn.
LEMMA ShapeThread ==
  ASSUME DebateAssumption, TypeOK, Shape, NEW o \in Orders,
         OrderStep(o) \/ PublishRaises(o) \/ ReceiveRaises(o)
  PROVE  Shape'
<1>0. manager = "review" /\ manager' = "review" /\ attempt' = attempt
  BY ThreadRuns, ThreadFrame
<1>1. InShape(o)
  BY DEF Shape, InShape
<1>2. InShape(o)'
  <2> USE DEF Becomes, InShape
  <2>1. CASE StartOrder(o)
    BY <1>0, <1>1, <2>1, ThreadEffects DEF StartOrder, MovesTo
  <2>2. CASE Expect(o)
    BY <1>0, <1>1, <2>2, ThreadEffects DEF Expect, MovesTo, IdOf
  <2>3. CASE PublishRequest(o)
    BY <1>0, <1>1, <2>3, ThreadEffects DEF PublishRequest, MovesTo, IdOf, inboxVars
  <2>4. CASE PopStashed(o) \/ ReceiveOwn(o)
    <3>1. PICK e \in Events : Matched(o, e) /\ e.id = IdOf(o)
      BY <2>4 DEF PopStashed, ReceiveOwn, IsOwn, TypeOK
    <3>2. MovesTo(o, "resolve", {e})
      BY <3>1, ThreadEffects
    <3> QED
      BY <1>0, <3>1, <3>2 DEF MovesTo, IdOf
  <2>5. CASE ReceiveSibling(o)
    BY <1>0, <1>1, <2>5, ThreadEffects DEF ReceiveSibling, MovesTo, IdOf, inboxVars
  <2>6. CASE Stash(o)
    <3>1. MovesTo(o, "wait", {}) /\ th[o].pc = "stash" /\ pending' = pending
      BY <2>6, ThreadEffects DEF Stash
    <3> QED
      BY <1>0, <1>1, <3>1 DEF MovesTo, IdOf
  <2>7. CASE DeadLetter(o)
    BY <1>0, <1>1, <2>7, ThreadEffects DEF DeadLetter, IdOf, inboxVars
  <2>8. CASE TimeOut(o) \/ ReviewRaises(o) \/ PublishRaises(o) \/ ReceiveRaises(o)
    BY <1>0, <2>8, ThreadEffects DEF FailsOpen
  <2>9. CASE Resolve(o)
    BY <1>0, <2>9, ResolveFields DEF Resolved
  <2>10. CASE AskJudge(o)
    BY <1>0, <1>1, <2>10, ThreadEffects DEF AskJudge
  <2>11. CASE JudgeRules(o)
    BY <1>0, <1>1, <2>11, ThreadEffects DEF JudgeRules
  <2>12. CASE JudgeRefused(o)
    BY <1>0, <1>1, <2>12, RefusedEffect DEF FailsOpen
  <2> QED
    BY <2>1, <2>2, <2>3, <2>4, <2>5, <2>6, <2>7, <2>8, <2>9, <2>10, <2>11,
       <2>12 DEF OrderStep
<1>3. ASSUME NEW x \in Orders \ {o}
      PROVE  InShape(x)'
  BY <1>0, ThreadFrame DEF InShape, Shape
<1>4. \A x \in Orders : InShape(x)'
  BY <1>2, <1>3
<1> QED
  BY <1>4 DEF Shape, InShape

\* The manager's steps and the peers'.
LEMMA ShapeOther ==
  ASSUME DebateAssumption, TypeOK, Shape,
         \/ PreflightFails \/ StartReview \/ WriteRun \/ LinkRun
         \/ WriteRaises \/ ManagerDies
         \/ \E p \in Peers : Take(p) \/ Serve(p) \/ PeerDies(p)
  PROVE  Shape'
<1>1. CASE StartReview \/ ManagerDies
  BY <1>1, ResetEffect DEF Reset, NewThread, Shape
<1>2. CASE PreflightFails \/ WriteRun \/ LinkRun \/ WriteRaises
  BY <1>2 DEF PreflightFails, WriteRun, LinkRun, WriteRaises, Done, Shape, IdOf,
     inboxVars, countVars
<1>3. CASE \E p \in Peers : Take(p) \/ Serve(p) \/ PeerDies(p)
  BY <1>3 DEF Take, Serve, PeerDies, Shape, IdOf, inboxVars
<1> QED
  BY <1>1, <1>2, <1>3

-----------------------------------------------------------------------------
(* The chain of candidates *)

\* A thread's candidate is refused before the next is asked.
LEMMA ChainThread ==
  ASSUME DebateAssumption, TypeOK, Chain, NEW o \in Orders,
         OrderStep(o) \/ PublishRaises(o) \/ ReceiveRaises(o)
  PROVE  Chain'
<1> USE DEF Becomes
<1>0. index \in 1..Candidates /\ Candidates \in Nat /\ o \in Orders
  BY DEF TypeOK, DebateAssumption
<1>1. CASE JudgeRefused(o)
  <2>1. th[o].candidate \in 1..index
    BY <1>1, RefusedEffect DEF Chain
  <2>2. CASE FailsOpen(o) /\ index' = index
    BY <1>1, <2>1, <2>2, RefusedEffect DEF FailsOpen, Chain
  <2>3. CASE ~(FailsOpen(o) /\ index' = index)
    <3>1. /\ index' = After(th[o].candidate) /\ refused' = refused \cup {th[o].candidate}
          /\ th'[o].candidate = index'
          /\ \A x \in Orders \ {o} : th'[x] = th[x]
      BY <1>1, <2>3, RefusedEffect
    <3>2. /\ index' \in Int /\ index <= index'
          /\ index' # index => th[o].candidate = index /\ index' = index + 1
      BY <1>0, <2>1, <3>1 DEF After
    <3>3. 1..(index' - 1) \subseteq refused'
      BY <1>0, <2>1, <3>1, <3>2 DEF Chain
    <3>4. \A x \in Orders : th'[x].pc = "judging" => th'[x].candidate \in 1..index'
      BY <1>0, <3>1, <3>2 DEF Chain
    <3> QED
      BY <3>3, <3>4 DEF Chain
  <2> QED
    BY <2>2, <2>3
<1>2. CASE ~JudgeRefused(o)
  <2>1. index' = index /\ refused' = refused
    <3>1. CASE PublishRequest(o) \/ StartOrder(o) \/ Expect(o) \/ PopStashed(o)
               \/ ReceiveOwn(o) \/ ReceiveSibling(o) \/ Stash(o)
      BY <3>1 DEF PublishRequest, StartOrder, Expect, PopStashed, ReceiveOwn,
         ReceiveSibling, Stash, chainVars
    <3>2. CASE DeadLetter(o) \/ TimeOut(o) \/ Resolve(o) \/ AskJudge(o) \/ JudgeRules(o)
               \/ ReviewRaises(o) \/ PublishRaises(o) \/ ReceiveRaises(o)
      BY <3>2 DEF DeadLetter, TimeOut, Resolve, AskJudge, JudgeRules, ReviewRaises,
         PublishRaises, ReceiveRaises, chainVars
    <3> QED
      BY <1>2, <3>1, <3>2 DEF OrderStep
  <2>2. th'[o].pc = "judging" => th'[o].candidate \in 1..index
    <3>1. CASE PopStashed(o) \/ ReceiveOwn(o)
      <4>1. \E e \in Events : Matched(o, e)
        BY <3>1 DEF PopStashed, ReceiveOwn, TypeOK
      <4> QED
        BY <4>1, ThreadEffects DEF MovesTo
    <3>2. CASE Resolve(o)
      BY <3>2, ResolveFields DEF Resolved
    <3>3. CASE AskJudge(o)
      BY <1>0, <3>3, ThreadEffects
    <3>4. CASE DeadLetter(o)
      BY <3>4, ThreadEffects DEF DeadLetter
    <3> QED
      BY <1>2, <3>1, <3>2, <3>3, <3>4, ThreadEffects DEF OrderStep, MovesTo, FailsOpen
  <2> QED
    BY <2>1, <2>2, ThreadFrame DEF Chain
<1> QED
  BY <1>1, <1>2

\* The manager and the peers refuse no candidate; a restart begins the chain anew.
LEMMA ChainOther ==
  ASSUME DebateAssumption, TypeOK, Chain,
         \/ PreflightFails \/ StartReview \/ WriteRun \/ LinkRun
         \/ WriteRaises \/ ManagerDies
         \/ \E p \in Peers : Take(p) \/ Serve(p) \/ PeerDies(p)
  PROVE  Chain'
<1>1. CASE StartReview \/ ManagerDies
  BY <1>1, ResetEffect DEF StartReview, ManagerDies, Reset, NewThread, Chain, chainVars
<1>2. CASE PreflightFails \/ WriteRun \/ LinkRun \/ WriteRaises
  BY <1>2 DEF PreflightFails, WriteRun, LinkRun, WriteRaises, Chain, chainVars
<1>3. CASE \E p \in Peers : Take(p) \/ Serve(p) \/ PeerDies(p)
  BY <1>3 DEF Take, Serve, PeerDies, Chain, chainVars
<1> QED
  BY <1>1, <1>2, <1>3

-----------------------------------------------------------------------------
(* The transcripts *)

\* One thread's part of Transcript.
InTranscript(o) ==
  /\ th[o].ruling = "none" <=> th[o].pc # "done"
  /\ th[o].pc \in {"queued", "call", "publish", "wait", "stash", "resolve"} =>
       Upto(o, th[o].turn - 1)
  /\ (th[o].pc \in {"judge", "judging"} \/ th[o].ruling = "ruled") => Upto(o, Turns)
  /\ th[o].ruling = "failed_open" => th[o].turns = <<>>

\* Only the reply to its own turn lengthens a transcript.
LEMMA TranscriptThread ==
  ASSUME DebateAssumption, TypeOK, Shape, Transcript, NEW o \in Orders,
         OrderStep(o) \/ PublishRaises(o) \/ ReceiveRaises(o)
  PROVE  Transcript'
<1>0. attempt' = attempt
  BY ThreadFrame
<1>1. InTranscript(o)
  BY DEF Transcript, InTranscript
<1>2. InTranscript(o)'
  <2> USE DEF Becomes, InTranscript
  <2>1. CASE StartOrder(o)
    BY <1>0, <1>1, <2>1, ThreadEffects DEF StartOrder, MovesTo, Upto
  <2>2. CASE Expect(o)
    BY <1>0, <1>1, <2>2, ThreadEffects DEF Expect, MovesTo, Upto
  <2>3. CASE PublishRequest(o)
    BY <1>0, <1>1, <2>3, ThreadEffects DEF PublishRequest, MovesTo, Upto
  <2>4. CASE PopStashed(o) \/ ReceiveOwn(o)
    <3>1. PICK e \in Events : Matched(o, e)
      BY <2>4 DEF PopStashed, ReceiveOwn, IsOwn, TypeOK
    <3>2. MovesTo(o, "resolve", {e}) /\ th[o].pc = "wait"
      BY <2>4, <3>1, ThreadEffects DEF PopStashed, ReceiveOwn
    <3> QED
      BY <1>0, <1>1, <3>2 DEF MovesTo, Upto
  <2>5. CASE ReceiveSibling(o)
    <3>1. PICK e \in replies : MovesTo(o, "stash", {e}) /\ th[o].pc = "wait"
      BY <2>5, ThreadEffects DEF ReceiveSibling
    <3> QED
      BY <1>0, <1>1, <3>1 DEF MovesTo, Upto
  <2>6. CASE Stash(o)
    <3>1. MovesTo(o, "wait", {}) /\ th[o].pc = "stash"
      BY <2>6, ThreadEffects DEF Stash
    <3> QED
      BY <1>0, <1>1, <3>1 DEF MovesTo, Upto
  <2>7. CASE DeadLetter(o)
    BY <1>0, <1>1, <2>7, ThreadEffects DEF DeadLetter, Upto
  <2>8. CASE TimeOut(o) \/ ReviewRaises(o) \/ PublishRaises(o) \/ ReceiveRaises(o)
    BY <1>0, <2>8, ThreadEffects DEF FailsOpen
  <2>9. CASE Resolve(o)
    <3>1. PICK e \in th[o].event : Resolved(o, e)
      BY <2>9, ResolveFields
    <3>2. th[o].pc = "resolve" /\ e.id = IdOf(o)
      BY <2>9 DEF Resolve, Shape
    <3>3. /\ th[o].turns \in Seq(Ids) /\ th[o].turn \in 1..Turns /\ Turns \in Nat
          /\ e.id \in Ids
      BY <3>2, IdTypes DEF TypeOK, Threads, Turns, DebateAssumption
    <3>4. PICK n \in 1..Turns : n = th[o].turn
      BY <3>3
    <3> DEFINE new == Append(th[o].turns, e.id)
    <3>5. th'[o].turns = new => Upto(o, n)'
      <4>1. th[o].turns \in Seq(Ids) /\ Len(th[o].turns) = n - 1 /\ n \in Nat \ {0}
        BY <1>1, <3>2, <3>3, <3>4 DEF Upto
      <4>2. Len(new) = n /\ new[n] = e.id /\ \A k \in 1..(n - 1) : new[k] = th[o].turns[k]
        BY <3>3, <4>1
      <4>3. e.id = [attempt |-> attempt, order |-> o, turn |-> n]
        BY <3>2, <3>4 DEF IdOf
      <4> HIDE DEF new
      <4>4. ASSUME NEW k \in 1..n
            PROVE  new[k] = [attempt |-> attempt, order |-> o, turn |-> k]
        <5>1. CASE k = n
          BY <4>2, <4>3, <5>1
        <5>2. CASE k \in 1..(n - 1)
          BY <1>1, <3>2, <3>4, <4>2, <5>2 DEF Upto
        <5> QED
          BY <4>1, <5>1, <5>2
      <4> QED
        BY <1>0, <4>2, <4>4 DEF Upto
    <3> HIDE DEF new
    <3>6. CASE e.error
      BY <3>1, <3>6 DEF Resolved
    <3>7. CASE ~e.error /\ th[o].turn < Turns
      <4>1. Becomes(o, "call", n + 1, new, 0, {}, th[o].candidate, th[o].ruling)
        BY <3>1, <3>4, <3>7 DEF Resolved, new
      <4>2. th'[o].turn - 1 = n
        BY <4>1
      <4> QED
        BY <1>1, <3>2, <3>5, <4>1, <4>2
    <3>8. CASE ~e.error /\ ~(th[o].turn < Turns)
      <4>1. Becomes(o, "judge", n, new, 0, {}, th[o].candidate, th[o].ruling)
        BY <3>1, <3>4, <3>8 DEF Resolved, new
      <4>2. n = Turns
        BY <3>3, <3>4, <3>8
      <4> QED
        BY <1>1, <3>2, <3>5, <4>1, <4>2
    <3> QED
      BY <3>6, <3>7, <3>8
  <2>10. CASE AskJudge(o)
    <3>1. /\ th[o].pc = "judge"
          /\ Becomes(o, "judging", th[o].turn, th[o].turns, th[o].orphans, th[o].event,
                     index, th[o].ruling)
      BY <2>10, ThreadEffects DEF AskJudge
    <3> QED
      BY <1>0, <1>1, <3>1 DEF Upto, Turns
  <2>11. CASE JudgeRules(o)
    <3>1. /\ th[o].pc = "judging"
          /\ Becomes(o, "done", th[o].turn, th[o].turns, th[o].orphans, th[o].event,
                     0, "ruled")
      BY <2>11, ThreadEffects DEF JudgeRules
    <3> QED
      BY <1>0, <1>1, <3>1 DEF Upto, Turns
  <2>12. CASE JudgeRefused(o)
    BY <1>0, <1>1, <2>12, RefusedEffect DEF FailsOpen, Upto
  <2> QED
    BY <2>1, <2>2, <2>3, <2>4, <2>5, <2>6, <2>7, <2>8, <2>9, <2>10, <2>11,
       <2>12 DEF OrderStep
<1>3. ASSUME NEW x \in Orders \ {o}
      PROVE  InTranscript(x)'
  BY <1>0, ThreadFrame DEF InTranscript, Transcript, Upto
<1>4. \A x \in Orders : InTranscript(x)'
  BY <1>2, <1>3
<1> QED
  BY <1>4 DEF Transcript, InTranscript

\* No other step touches a transcript that a review has begun.
LEMMA TranscriptOther ==
  ASSUME DebateAssumption, TypeOK, Transcript,
         \/ PreflightFails \/ StartReview \/ WriteRun \/ LinkRun
         \/ WriteRaises \/ ManagerDies
         \/ \E p \in Peers : Take(p) \/ Serve(p) \/ PeerDies(p)
  PROVE  Transcript'
<1>1. CASE StartReview \/ ManagerDies
  BY <1>1, ResetEffect DEF Reset, NewThread, Transcript, Upto
<1>2. CASE PreflightFails \/ WriteRun \/ LinkRun \/ WriteRaises
  BY <1>2 DEF PreflightFails, WriteRun, LinkRun, WriteRaises, Transcript, Upto
<1>3. CASE \E p \in Peers : Take(p) \/ Serve(p) \/ PeerDies(p)
  BY <1>3 DEF Take, Serve, PeerDies, Transcript, Upto
<1> QED
  BY <1>1, <1>2, <1>3

\* The record a review writes rests on the transcripts.
LEMMA WrittenFromOwnDebate ==
  ASSUME DebateAssumption, TypeOK, Transcript, RulingFromOwnDebate, WriteRun
  PROVE  RulingFromOwnDebate'
<1>1. ASSUME NEW o \in Orders
      PROVE  Result.turns[o] = IF Result.rulings[o] = "failed_open" THEN <<>>
                               ELSE [k \in 1..Turns |->
                                      [attempt |-> Result.attempt, order |-> o, turn |-> k]]
  <2>1. /\ Result.turns[o] = th[o].turns /\ Result.rulings[o] = th[o].ruling
        /\ Result.attempt = attempt
    BY DEF Result
  <2>2. th[o].pc = "done" /\ th[o].ruling \in Rulings /\ th[o].turns \in Seq(Ids)
        /\ Turns \in Nat
    BY ThreadTypes DEF WriteRun, Done, TypeOK, Turns, DebateAssumption
  <2>3. CASE th[o].ruling = "failed_open"
    BY <2>1, <2>3 DEF Transcript
  <2>4. CASE th[o].ruling # "failed_open"
    <3>1. Upto(o, Turns)
      BY <2>2, <2>4 DEF Transcript, Rulings
    <3> DEFINE t == [k \in 1..Turns |-> [attempt |-> attempt, order |-> o, turn |-> k]]
    <3>2. th[o].turns = t
      <4>0. attempt \in Nat
        BY DEF TypeOK
      <4>1. t \in Seq(Ids) /\ Len(t) = Turns
        <5>1. \A k \in 1..Turns : [attempt |-> attempt, order |-> o, turn |-> k] \in Ids
          BY <4>0, Zenon DEF Ids
        <5>2. t \in [1..Turns -> Ids]
          BY <5>1, Zenon
        <5> HIDE DEF t
        <5>3. t \in Seq(Ids)
          <6>1. t \in UNION {[1..n -> Ids] : n \in Nat}
            BY <2>2, <5>2
          <6> QED
            BY <6>1, SeqDef, Zenon
        <5> QED
          BY <2>2, <5>2, <5>3
      <4> QED
        BY <2>2, <3>1, <4>1, SeqEqual DEF Upto
    <3> QED
      BY <2>1, <2>4, <3>2
  <2> QED
    BY <2>3, <2>4
<1>2. record' = {Result} \/ record' = record
  BY DEF WriteRun
<1> HIDE DEF Result
<1> QED
  BY <1>1, <1>2 DEF RulingFromOwnDebate

-----------------------------------------------------------------------------
(* The orphan count *)

\* One thread's orphans change by d: so does the sum.
LEMMA SumShift ==
  ASSUME DebateAssumption, th \in [Orders -> Threads], th' \in [Orders -> Threads],
         NEW s \in [0..N -> Int], Sums(s), NEW o \in Orders, NEW d \in Int,
         th'[o].orphans = th[o].orphans + d, \A x \in Orders \ {o} : th'[x] = th[x]
  PROVE  \E z \in [0..N -> Int] : Sums(z)' /\ z[N] = s[N] + d
<1> DEFINE z == [i \in 0..N |-> IF i < o THEN s[i] ELSE s[i] + d]
<1>0. N \in Nat /\ N > 0 /\ o \in 1..N
  BY DEF Orders, DebateAssumption
<1>1. z \in [0..N -> Int] /\ z[0] = 0 /\ z[N] = s[N] + d
  BY <1>0 DEF Sums
<1>2. ASSUME NEW i \in Orders
      PROVE  z[i] = z[i - 1] + th'[i].orphans
  <2>0. /\ i \in 1..N /\ i - 1 \in 0..N /\ s[i] \in Int /\ s[i - 1] \in Int
        /\ s[i] = s[i - 1] + th[i].orphans
        /\ th[i].orphans \in Int /\ th[o].orphans \in Int
    <3>1. i \in 1..N /\ i - 1 \in 0..N /\ s[i] \in Int /\ s[i - 1] \in Int
      BY <1>0 DEF Orders
    <3>2. s[i] = s[i - 1] + th[i].orphans
      BY DEF Sums
    <3>3. th[i].orphans \in Int /\ th[o].orphans \in Int
      BY ThreadTypes
    <3> QED
      BY <3>1, <3>2, <3>3
  <2>1. CASE i < o
    <3>1. i \in 0..N /\ i - 1 < o /\ i # o
      BY <1>0, <2>0, <2>1
    <3>2. z[i] = s[i] /\ z[i - 1] = s[i - 1]
      BY <2>0, <2>1, <3>1
    <3>3. th'[i] = th[i]
      BY <3>1
    <3> HIDE DEF z
    <3> QED
      BY <2>0, <3>2, <3>3
  <2>2. CASE i = o
    <3>1. z[i] = s[i] + d /\ z[i - 1] = s[i - 1]
      BY <1>0, <2>0, <2>2
    <3> HIDE DEF z
    <3> QED
      BY <2>0, <2>2, <3>1
  <2>3. CASE i > o
    <3>0. ~(i < o) /\ ~(i - 1 < o) /\ i \in 0..N
      BY <1>0, <2>0, <2>3
    <3>1. z[i] = s[i] + d /\ z[i - 1] = s[i - 1] + d
      BY <2>0, <3>0
    <3>2. th'[i] = th[i]
      BY <1>0, <2>0, <2>3
    <3> HIDE DEF z
    <3> QED
      BY <2>0, <3>1, <3>2
  <2> QED
    BY <1>0, <2>0, <2>1, <2>2, <2>3
<1> HIDE DEF z
<1> QED
  BY <1>1, <1>2 DEF Sums

\* Nobody holds an orphan: the sum is zero.
LEMMA SumZero ==
  ASSUME DebateAssumption, NEW s \in [0..N -> Int], Sums(s),
         \A o \in Orders : th[o].orphans = 0
  PROVE  s[N] = 0
<1> DEFINE R == {ss \in Nat \X Nat : ss[1] < ss[2]}
           Bad == {i \in 0..N : s[i] # 0}
<1>0. N \in Nat
  BY DEF DebateAssumption
<1>1. SUFFICES ASSUME Bad # {} PROVE FALSE
  BY <1>0
<1>2. PICK x \in Bad : \A y \in Bad : ~(<<y, x>> \in R)
  <2>1. IsWellFoundedOn(R, Nat)
    BY NatLessThanWellFounded, Zenon DEF OpToRel
  <2>2. Bad \subseteq Nat
    BY <1>0
  <2> HIDE DEF R, Bad
  <2> QED
    BY <1>1, <2>1, <2>2, WFMin
<1>3. x \in 1..N /\ x - 1 \in 0..N
  BY <1>0, <1>2 DEF Sums
<1>4. s[x - 1] = 0
  <2>1. <<x - 1, x>> \in Nat \X Nat /\ <<x - 1, x>>[1] = x - 1 /\ <<x - 1, x>>[2] = x
    BY <1>0, <1>3
  <2>2. <<x - 1, x>> \in Nat \X Nat =>
          (<<x - 1, x>> \in R <=> <<x - 1, x>>[1] < <<x - 1, x>>[2])
    BY Zenon
  <2>3. <<x - 1, x>> \in R
    BY <1>0, <1>3, <2>1, <2>2
  <2>4. x - 1 \notin Bad
    BY <1>2, <2>3
  <2> QED
    BY <1>3, <2>4
<1>5. s[x] = 0
  BY <1>3, <1>4 DEF Sums, Orders
<1> QED
  BY <1>2, <1>5

\* A step moves the tally by what it counts.
LEMMA TallyShift ==
  ASSUME DebateAssumption, TypeOK, TypeOK', Tally, NEW o \in Orders,
         before' = before, \A x \in Orders \ {o} : th'[x] = th[x],
         client' + th'[o].orphans - dead' <= client + th[o].orphans - dead,
         ~blind' => /\ ~blind
                    /\ client' + th'[o].orphans - dead' = client + th[o].orphans - dead
  PROVE  Tally'
<1>0. /\ client \in Int /\ before \in Int /\ dead \in Int /\ N \in Nat
      /\ client' \in Int /\ dead' \in Int
      /\ th \in [Orders -> Threads] /\ th' \in [Orders -> Threads]
  BY DEF TypeOK, DebateAssumption
<1>t. th[o].orphans \in Int /\ th'[o].orphans \in Int
  BY <1>0, ThreadTypes
<1>1. PICK s \in [0..N -> Int] :
        /\ Sums(s)
        /\ client - before + s[N] <= dead
        /\ ~blind => client - before + s[N] = dead
  BY DEF Tally
<1> DEFINE d == th'[o].orphans - th[o].orphans
<1>2. d \in Int /\ th'[o].orphans = th[o].orphans + d
  BY <1>t
<1>3. s[N] \in Int
  BY <1>0
<1> HIDE DEF d
<1>4. PICK z \in [0..N -> Int] : Sums(z)' /\ z[N] = s[N] + d
  BY <1>0, <1>1, <1>2, SumShift
<1>b. /\ (client - before + s[N] <= dead
          /\ client' + th'[o].orphans - dead' <= client + th[o].orphans - dead)
           => client' - before + (s[N] + (th'[o].orphans - th[o].orphans)) <= dead'
      /\ (client - before + s[N] = dead
          /\ client' + th'[o].orphans - dead' = client + th[o].orphans - dead)
           => client' - before + (s[N] + (th'[o].orphans - th[o].orphans)) = dead'
  <2>1. before \in Int /\ client \in Int /\ client' \in Int /\ dead \in Int /\ dead' \in Int
    BY <1>0
  <2>2. th[o].orphans \in Int /\ th'[o].orphans \in Int /\ s[N] \in Int
    BY <1>t, <1>3
  <2> QED
    <3>1. PICK h \in Int, h2 \in Int, n \in Int :
            h = th[o].orphans /\ h2 = th'[o].orphans /\ n = s[N]
      BY <2>2
    <3>2. PICK b \in Int, c \in Int, c2 \in Int, k \in Int, k2 \in Int :
            b = before /\ c = client /\ c2 = client' /\ k = dead /\ k2 = dead'
      BY <2>1
    <3>3. /\ (c - b + n <= k /\ c2 + h2 - k2 <= c + h - k) => c2 - b + (n + (h2 - h)) <= k2
          /\ (c - b + n = k /\ c2 + h2 - k2 = c + h - k) => c2 - b + (n + (h2 - h)) = k2
      BY ONLY TRUE
    <3> QED
      BY <3>1, <3>2, <3>3, Zenon
<1>5. client' - before + z[N] <= dead'
  BY <1>b, <1>1, <1>4, Zenon DEF d
<1>6. ASSUME ~blind' PROVE client' - before + z[N] = dead'
  BY <1>b, <1>1, <1>4, <1>6, Zenon DEF d
<1> QED
  BY <1>4, <1>5, <1>6 DEF Tally

\* A thread counts the letters that it stashes, and no letter is counted twice.
LEMMA CountThread ==
  ASSUME DebateAssumption, TypeOK, TypeOK', Held, Tally, NEW o \in Orders,
         OrderStep(o) \/ PublishRaises(o) \/ ReceiveRaises(o)
  PROVE  Held' /\ Tally'
<1> USE DEF Becomes
<1>0. /\ th[o].orphans \in Nat /\ client \in Int /\ dead \in Int /\ before' = before
      /\ \A x \in Orders \ {o} : th'[x] = th[x]
  <2>1. th[o].orphans \in Nat /\ client \in Int /\ dead \in Int
    BY ThreadTypes DEF TypeOK
  <2>2. before' = before /\ \A x \in Orders \ {o} : th'[x] = th[x]
    BY ThreadFrame
  <2> QED
    BY <2>1, <2>2
<1>q. ASSUME th'[o].pc \notin {"wait", "stash", "resolve"} => th'[o].orphans = 0
      PROVE  Held'
  BY <1>q, <1>0 DEF Held
<1>s. ASSUME th'[o].orphans = th[o].orphans, client' = client, dead' = dead, blind' = blind
      PROVE  Tally'
  BY <1>s, <1>0, TallyShift
<1>1. CASE StartOrder(o) \/ Expect(o) \/ PublishRequest(o) \/ Stash(o) \/ ReceiveSibling(o)
  <2>1. /\ client' = client /\ dead' = dead /\ blind' = blind
        /\ th[o].pc \in {"queued", "call", "publish", "wait", "stash"}
    BY <1>1 DEF StartOrder, Expect, PublishRequest, Stash, ReceiveSibling, countVars
  <2>2. /\ th'[o].orphans = th[o].orphans
        /\ th'[o].pc \in {"wait", "stash"} \/ th[o].pc \in {"queued", "call"}
    BY <1>1, ThreadEffects DEF StartOrder, Expect, MovesTo
  <2> QED
    BY <1>q, <1>s, <2>1, <2>2 DEF Held
<1>2. CASE PopStashed(o) \/ ReceiveOwn(o)
  <2>1. PICK e \in Events : Matched(o, e)
    BY <1>2 DEF PopStashed, ReceiveOwn, TypeOK
  <2>2. MovesTo(o, "resolve", {e})
    BY <2>1, ThreadEffects
  <2>3. client' = client /\ dead' = dead /\ blind' = blind
    BY <1>2 DEF PopStashed, ReceiveOwn, countVars
  <2> QED
    BY <1>q, <1>s, <2>2, <2>3 DEF MovesTo
<1>3. CASE DeadLetter(o)
  <2>1. client' = client /\ dead' = dead + 1 /\ blind' = blind /\ th[o].pc = "wait"
    BY <1>3 DEF DeadLetter
  <2>2. th'[o].orphans = th[o].orphans + 1 /\ th'[o].pc = th[o].pc
    BY <1>3, ThreadEffects
  <2>3. Tally'
    <3>1. client' + th'[o].orphans - dead' = client + th[o].orphans - dead
      BY <1>0, <2>1, <2>2
    <3> QED
      BY <1>0, <2>1, <3>1, TallyShift
  <2> QED
    BY <1>q, <2>1, <2>2, <2>3
<1>4. CASE TimeOut(o) \/ Resolve(o)
  <2>0. client' = client + th[o].orphans /\ dead' = dead /\ blind' = blind
    BY <1>4 DEF TimeOut, Resolve
  <2>2. th'[o].orphans = 0
    BY <1>4, ThreadEffects, ResolveFields DEF FailsOpen, Resolved
  <2>3. client' + th'[o].orphans - dead' = client + th[o].orphans - dead
    BY <1>0, <2>0, <2>2
  <2>4. Tally'
    BY <1>0, <2>0, <2>3, TallyShift
  <2> QED
    BY <1>q, <2>2, <2>4
<1>5. CASE ReceiveRaises(o)
  <2>1. client' = client /\ dead' \in {dead, dead + 1} /\ blind' = TRUE
    BY <1>5, RaiseEffects DEF ReceiveRaises
  <2>2. th'[o].orphans = 0
    BY <1>5, ThreadEffects DEF FailsOpen
  <2>3. client' + th'[o].orphans - dead' <= client + th[o].orphans - dead
    BY <1>0, <2>1, <2>2
  <2>4. Tally'
    BY <1>0, <2>1, <2>3, TallyShift
  <2> QED
    BY <1>q, <2>2, <2>4
<1>6. CASE AskJudge(o) \/ JudgeRules(o) \/ JudgeRefused(o) \/ ReviewRaises(o) \/ PublishRaises(o)
  <2>1. /\ client' = client /\ dead' = dead /\ blind' = blind
        /\ th[o].pc \in {"judge", "judging", "call", "publish"}
    BY <1>6 DEF AskJudge, JudgeRules, JudgeRefused, ReviewRaises, PublishRaises, countVars
  <2>2. th[o].orphans = 0
    BY <2>1 DEF Held
  <2>3. th'[o].orphans = 0
    BY <1>6, <2>2, ThreadEffects, RefusedEffect DEF FailsOpen
  <2> QED
    BY <1>q, <1>s, <2>1, <2>2, <2>3
<1> QED
  BY <1>1, <1>2, <1>3, <1>4, <1>5, <1>6 DEF OrderStep


\* The manager's steps and the peers'.
LEMMA CountOther ==
  ASSUME DebateAssumption, TypeOK, Count,
         \/ PreflightFails \/ StartReview \/ WriteRun \/ LinkRun
         \/ WriteRaises \/ ManagerDies
         \/ \E p \in Peers : Take(p) \/ Serve(p) \/ PeerDies(p)
  PROVE  Held' /\ (manager' = "review" => Tally')
<1>0. client \in Int /\ N \in Nat /\ N > 0
  BY DEF TypeOK, DebateAssumption
<1>1. CASE StartReview
  <2>1. /\ th' \in [Orders -> Threads]
        /\ \A o \in Orders : th'[o].orphans = 0
    BY <1>1, ResetEffect DEF Reset, NewThread
  <2>2. client' = client /\ before' = client /\ dead' = 0
    BY <1>1 DEF StartReview
  <2> DEFINE z == [i \in 0..N |-> 0]
  <2>3. z \in [0..N -> Int] /\ Sums(z)' /\ z[N] = 0
    BY <1>0, <2>1 DEF Sums, Orders
  <2> HIDE DEF z
  <2>4. client' - before' + z[N] = 0
    BY <1>0, <2>2, <2>3
  <2> QED
    BY <2>1, <2>2, <2>3, <2>4 DEF Held, Tally
<1>2. CASE ManagerDies
  BY <1>2, ResetEffect DEF ManagerDies, Reset, NewThread, Held
<1>3. CASE PreflightFails \/ WriteRun \/ LinkRun \/ WriteRaises
  BY <1>3 DEF PreflightFails, Ready, WriteRun, LinkRun, WriteRaises, Count, Held
<1>4. CASE \E p \in Peers : Take(p) \/ Serve(p) \/ PeerDies(p)
  <2>1. UNCHANGED <<manager, th, client, before, dead, blind>>
    BY <1>4 DEF Take, Serve, PeerDies, countVars
  <2> QED
    BY <2>1 DEF Count, Held, Tally, Sums
<1> QED
  BY <1>1, <1>2, <1>3, <1>4

\* A step that does not write leaves the record, and its dates, as they are.
LEMMA DatedStep ==
  ASSUME DebateAssumption, TypeOK, Shape, Dated, Next
  PROVE  Dated'
<1>0. attempt \in Nat
  BY DEF TypeOK
<1>1. CASE WriteRun
  <2>1. record' = {Result} \/ record' = record
    BY <1>1 DEF WriteRun
  <2>2. Result.attempt = attempt /\ attempt' = attempt /\ manager' = "link"
    BY <1>1 DEF Result, WriteRun
  <2> HIDE DEF Result
  <2> QED
    BY <1>0, <2>1, <2>2 DEF Dated
<1>2. CASE StartReview
  <2>1. record' = record /\ attempt' = attempt + 1
    BY <1>2 DEF StartReview, graphVars
  <2> QED
    BY <1>0, <2>1 DEF Dated
<1>3. CASE PreflightFails \/ LinkRun \/ WriteRaises \/ ManagerDies
  <2>1. record' = record /\ attempt' = attempt /\ manager' = "idle"
    BY <1>3 DEF PreflightFails, Ready, LinkRun, WriteRaises, ManagerDies, graphVars
  <2> QED
    BY <2>1 DEF Dated
<1>4. CASE \E o \in Orders : OrderStep(o) \/ PublishRaises(o) \/ ReceiveRaises(o)
  <2>1. record' = record /\ attempt' = attempt /\ manager' = manager
    BY <1>4, ThreadFrame
  <2> QED
    BY <2>1 DEF Dated
<1>5. CASE \E p \in Peers : Take(p) \/ Serve(p) \/ PeerDies(p)
  <2>1. record' = record /\ attempt' = attempt /\ manager' = manager
    BY <1>5 DEF Take, Serve, PeerDies, graphVars
  <2> QED
    BY <2>1 DEF Dated
<1> QED
  BY <1>1, <1>2, <1>3, <1>4, <1>5 DEF Next, ManagerStep

\* The count that is written is right, and no later step of its attempt
\* dead-letters anything.
LEMMA OrphansStep ==
  ASSUME DebateAssumption, TypeOK, Shape, Count, OrphansCounted, Next
  PROVE  OrphansCounted'
<1>0. attempt \in Nat /\ client \in Nat /\ before \in Nat /\ dead \in Nat
  BY DEF TypeOK
<1>1. CASE WriteRun
  <2>1. UNCHANGED <<attempt, dead, blind>> /\ manager = "review" /\ Done
    BY <1>1 DEF WriteRun, countVars
  <2>2. CASE record' = record
    BY <2>1, <2>2 DEF OrphansCounted
  <2>3. CASE record' = {Result}
    <3>1. PICK s \in [0..N -> Int] :
            /\ Sums(s)
            /\ client - before + s[N] <= dead
            /\ ~blind => client - before + s[N] = dead
      BY <2>1 DEF Count, Tally
    <3>2. \A o \in Orders : th[o].orphans = 0
      BY <2>1 DEF Count, Held, Done
    <3>3. s[N] = 0
      BY <3>1, <3>2, SumZero
    <3>4. Result.orphans = client - before
      BY DEF Result
    <3>5. Result.orphans <= dead /\ (~blind => Result.orphans = dead)
      BY <1>0, <3>1, <3>3, <3>4
    <3> HIDE DEF Result
    <3> QED
      BY <2>1, <2>3, <3>5 DEF OrphansCounted
  <2> QED
    BY <1>1, <2>2, <2>3 DEF WriteRun
<1>2. CASE StartReview
  <2>1. record' = record /\ attempt' = attempt + 1
    BY <1>2 DEF StartReview, graphVars
  <2> QED
    BY <1>0, <2>1 DEF Count, Dated, OrphansCounted
<1>3. CASE PreflightFails \/ LinkRun \/ WriteRaises \/ ManagerDies
  <2>1. record' = record /\ attempt' = attempt /\ dead' = dead /\ blind' = blind
    BY <1>3 DEF PreflightFails, Ready, LinkRun, WriteRaises, ManagerDies, graphVars,
       countVars
  <2> QED
    BY <2>1 DEF OrphansCounted
<1>4. CASE \E o \in Orders : OrderStep(o) \/ PublishRaises(o) \/ ReceiveRaises(o)
  <2>1. record' = record /\ attempt' = attempt /\ manager = "review"
    BY <1>4, ThreadFrame, ThreadRuns
  <2> QED
    BY <1>0, <2>1 DEF Count, Dated, OrphansCounted
<1>5. CASE \E p \in Peers : Take(p) \/ Serve(p) \/ PeerDies(p)
  <2>1. record' = record /\ attempt' = attempt /\ dead' = dead /\ blind' = blind
    BY <1>5 DEF Take, Serve, PeerDies, graphVars, countVars
  <2> QED
    BY <2>1 DEF OrphansCounted
<1> QED
  BY <1>1, <1>2, <1>3, <1>4, <1>5 DEF Next, ManagerStep

-----------------------------------------------------------------------------
(* Requests and replies *)

Before == {"queued", "call", "publish"}
During == {"wait", "stash", "resolve"}

\* The answer to a request exists, or was lost with its peer.
Settled(x) == Coming(x) \/ x \in lost \/ Kept(x)

\* What a step of thread o does to requests and answers: it publishes its own
\* request at most, makes no answer, and takes nothing from a thread that waits.
LEMMA ThreadAsks ==
  ASSUME DebateAssumption, TypeOK, NEW o \in Orders,
         OrderStep(o) \/ PublishRaises(o) \/ ReceiveRaises(o)
  PROVE  \/ requests' = requests
         \/ th[o].pc = "publish" /\ requests' = Announced(o)
<1>1. CASE PublishRequest(o) \/ PublishRaises(o)
  BY <1>1 DEF PublishRequest, PublishRaises
<1>2. CASE StartOrder(o) \/ Expect(o) \/ PopStashed(o) \/ ReceiveOwn(o) \/ ReceiveSibling(o)
           \/ Stash(o) \/ DeadLetter(o) \/ TimeOut(o) \/ ReceiveRaises(o)
  BY <1>2 DEF StartOrder, Expect, PopStashed, ReceiveOwn, ReceiveSibling, Stash,
     DeadLetter, TimeOut, ReceiveRaises
<1>3. CASE Resolve(o) \/ AskJudge(o) \/ JudgeRules(o) \/ JudgeRefused(o) \/ ReviewRaises(o)
  BY <1>3 DEF Resolve, AskJudge, JudgeRules, JudgeRefused, ReviewRaises
<1> QED
  BY <1>1, <1>2, <1>3 DEF OrderStep

\* Where a step of thread o leads.
LEMMA ThreadProgress ==
  ASSUME DebateAssumption, TypeOK, NEW o \in Orders,
         OrderStep(o) \/ PublishRaises(o) \/ ReceiveRaises(o)
  PROVE  /\ th'[o].pc \in Before =>
              \/ th[o].pc \in {"queued", "call"} /\ th'[o].turn = th[o].turn
              \/ th[o].pc = "resolve" /\ th'[o].turn = th[o].turn + 1
         /\ th'[o].pc \in During =>
              th'[o].turn = th[o].turn /\ th[o].pc \in {"publish", "wait", "stash"}
         /\ th'[o].pc \in {"wait", "stash"} =>
              \/ th[o].pc \in {"wait", "stash"}
              \/ th[o].pc = "publish" /\ requests' = Announced(o)
<1> USE DEF Becomes, Before, During
<1>1. CASE StartOrder(o)
  BY <1>1, ThreadEffects DEF MovesTo, StartOrder
<1>2. CASE Expect(o)
  BY <1>2, ThreadEffects DEF MovesTo, Expect
<1>3. CASE PublishRequest(o)
  BY <1>3, ThreadEffects DEF MovesTo, PublishRequest
<1>4. CASE PopStashed(o) \/ ReceiveOwn(o)
  <2>1. PICK e \in Events : Matched(o, e) /\ th[o].pc = "wait"
    BY <1>4 DEF PopStashed, ReceiveOwn, TypeOK
  <2> QED
    BY <2>1, ThreadEffects DEF MovesTo
<1>5. CASE ReceiveSibling(o)
  BY <1>5, ThreadEffects DEF MovesTo, ReceiveSibling
<1>6. CASE Stash(o)
  <2>1. MovesTo(o, "wait", {}) /\ th[o].pc = "stash"
    BY <1>6, ThreadEffects DEF Stash
  <2> QED
    BY <2>1 DEF MovesTo
<1>7. CASE DeadLetter(o)
  BY <1>7, ThreadEffects DEF DeadLetter
<1>8. CASE TimeOut(o) \/ ReviewRaises(o) \/ PublishRaises(o) \/ ReceiveRaises(o)
  BY <1>8, ThreadEffects DEF FailsOpen
<1>9. CASE Resolve(o)
  <2>1. th[o].pc = "resolve"
    BY <1>9 DEF Resolve
  <2> QED
    BY <1>9, <2>1, ResolveFields DEF Resolved
<1>10. CASE AskJudge(o) \/ JudgeRules(o)
  BY <1>10, ThreadEffects
<1>11. CASE JudgeRefused(o)
  BY <1>11, RefusedEffect DEF FailsOpen
<1> QED
  BY <1>1, <1>2, <1>3, <1>4, <1>5, <1>6, <1>7, <1>8, <1>9, <1>10, <1>11 DEF OrderStep

\* The events on their way, before and after a step of thread o.
LEMMA ThreadSettles ==
  ASSUME DebateAssumption, TypeOK, Shape, NEW o \in Orders,
         OrderStep(o) \/ PublishRaises(o) \/ ReceiveRaises(o), NEW y \in Ids
  PROVE  /\ Settled(y)' => Settled(y)
         /\ (Coming(y) /\ y \in pending) =>
              \/ Coming(y)' \/ y \in lost'
              \/ (y = IdOf(o) /\ th'[o].pc \notin {"wait", "stash"})
<1> USE DEF Becomes
<1>0. /\ \A x \in Orders \ {o} : th'[x] = th[x]
      /\ ReceiveRaises(o) \/ lost' = lost
      /\ th[o].pc \notin {"stash", "resolve"} => th[o].event = {}
      /\ th[o].pc = "resolve" => \A e \in th[o].event : e.id = IdOf(o)
  BY ThreadFrame DEF Shape
<1>1. CASE ~ReceiveRaises(o) /\ (StartOrder(o) \/ Expect(o) \/ PublishRequest(o)
                                   \/ AskJudge(o) \/ JudgeRules(o))
  <2>0. lost' = lost
    BY <1>0, <1>1
  <2>1. replies' = replies /\ stashed' = stashed
    BY <1>1 DEF StartOrder, Expect, PublishRequest, AskJudge, JudgeRules, inboxVars
  <2>2. th'[o].event = th[o].event /\ th'[o].turns = th[o].turns
    BY <1>1, ThreadEffects DEF MovesTo
  <2> QED
    BY <1>0, <2>0, <2>1, <2>2 DEF Settled, Coming, Kept
<1>2. CASE ~ReceiveRaises(o) /\ DeadLetter(o)
  <2>0. lost' = lost
    BY <1>0, <1>2
  <2>1. PICK e \in replies : e.id \notin pending /\ replies' = replies \ {e}
    BY <1>2 DEF DeadLetter
  <2>2. stashed' = stashed
    BY <1>2 DEF DeadLetter, inboxVars
  <2>3. th'[o].event = th[o].event /\ th'[o].turns = th[o].turns
    BY <1>2, ThreadEffects
  <2> QED
    BY <1>0, <2>0, <2>1, <2>2, <2>3 DEF Settled, Coming, Kept
<1>3. CASE ~ReceiveRaises(o) /\ (PopStashed(o) \/ ReceiveOwn(o))
  <2>0. lost' = lost
    BY <1>0, <1>3
  <2>1. PICK e \in Events :
          /\ e.id = IdOf(o) /\ e \in replies \cup stashed /\ Matched(o, e)
          /\ replies' \subseteq replies /\ replies \ {e} \subseteq replies'
    BY <1>3 DEF PopStashed, ReceiveOwn, IsOwn, TypeOK
  <2>2. /\ stashed' \subseteq stashed
        /\ \A d \in stashed : d.id # IdOf(o) => d \in stashed'
    BY <2>1 DEF Matched, LeaveInbox
  <2>3. th'[o].event = {e} /\ th'[o].turns = th[o].turns /\ th'[o].pc = "resolve"
    BY <2>1, ThreadEffects DEF MovesTo
  <2>4. th[o].event = {}
    BY <1>0, <1>3 DEF PopStashed, ReceiveOwn
  <2>5. Settled(y)' => Settled(y)
    BY <1>0, <2>0, <2>1, <2>2, <2>3 DEF Settled, Coming, Kept
  <2>6. Coming(y) => Coming(y)' \/ y = IdOf(o)
    BY <1>0, <2>1, <2>2, <2>3, <2>4 DEF Coming
  <2> QED
    BY <2>3, <2>5, <2>6
<1>4. CASE ~ReceiveRaises(o) /\ ReceiveSibling(o)
  <2>0. lost' = lost
    BY <1>0, <1>4
  <2>1. PICK e \in replies : replies' = replies \ {e} /\ MovesTo(o, "stash", {e})
    BY <1>4, ThreadEffects
  <2>2. stashed' = stashed /\ th[o].event = {}
    BY <1>0, <1>4 DEF ReceiveSibling, inboxVars
  <2> QED
    BY <1>0, <2>0, <2>1, <2>2 DEF Settled, Coming, Kept, MovesTo
<1>5. CASE ~ReceiveRaises(o) /\ Stash(o)
  <2>0. lost' = lost
    BY <1>0, <1>5
  <2>1. stashed' = stashed \cup th[o].event /\ replies' = replies
    BY <1>5 DEF Stash
  <2>2. th'[o].event = {} /\ th'[o].turns = th[o].turns
    BY <1>5, ThreadEffects DEF MovesTo
  <2> QED
    BY <1>0, <2>0, <2>1, <2>2 DEF Settled, Coming, Kept
<1>6. CASE ~ReceiveRaises(o) /\ (TimeOut(o) \/ PublishRaises(o))
  <2>0. lost' = lost
    BY <1>0, <1>6
  <2>1. /\ stashed' \subseteq stashed
        /\ \A d \in stashed : d.id # IdOf(o) => d \in stashed'
    BY <1>6 DEF TimeOut, PublishRaises, LeaveInbox
  <2>2. replies' = replies /\ th[o].event = {}
    BY <1>0, <1>6 DEF TimeOut, PublishRaises
  <2>3. th'[o].event = {} /\ th'[o].turns = <<>> /\ th'[o].pc = "done"
    BY <1>6, ThreadEffects DEF FailsOpen
  <2>4. Len(<<>>) = 0 /\ 1..0 = {}
    OBVIOUS
  <2>5. Settled(y)' => Settled(y)
    BY <1>0, <2>0, <2>1, <2>2, <2>3, <2>4 DEF Settled, Coming, Kept
  <2>6. Coming(y) => Coming(y)' \/ y = IdOf(o)
    BY <1>0, <2>1, <2>2, <2>3 DEF Coming
  <2> QED
    BY <2>3, <2>5, <2>6
<1>7. CASE ~ReceiveRaises(o) /\ Resolve(o)
  <2>0. lost' = lost
    BY <1>0, <1>7
  <2>1. replies' = replies /\ stashed' = stashed /\ th[o].pc = "resolve"
    BY <1>7 DEF Resolve, inboxVars
  <2>2. PICK e \in th[o].event : Resolved(o, e)
    BY <1>7, ResolveFields
  <2>3. /\ th'[o].event = {} /\ th'[o].pc \in {"call", "judge", "done"}
        /\ th'[o].turns \in {<<>>, Append(th[o].turns, e.id)}
    BY <2>2 DEF Resolved
  <2>4. th[o].turns \in Seq(Ids) /\ e.id \in Ids
    BY IdTypes DEF TypeOK, Threads
  <2>5. ASSUME NEW k \in 1..Len(th'[o].turns)
        PROVE  \/ th'[o].turns[k] = e.id
               \/ k \in 1..Len(th[o].turns) /\ th'[o].turns[k] = th[o].turns[k]
    <3>1. CASE th'[o].turns = <<>>
      <4>1. Len(<<>>) = 0 /\ 1..0 = {}
        OBVIOUS
      <4> QED
        BY <3>1, <4>1
    <3>2. CASE th'[o].turns = Append(th[o].turns, e.id)
      <4> DEFINE t == th[o].turns
      <4>1. t \in Seq(Ids) /\ th'[o].turns = Append(t, e.id)
        BY <2>4, <3>2
      <4> HIDE DEF t
      <4>2. k \in 1..(Len(t) + 1) /\ (k = Len(t) + 1 => Append(t, e.id)[k] = e.id)
        BY <2>4, <4>1
      <4>3. k \in 1..Len(t) => Append(t, e.id)[k] = t[k]
        BY <2>4, <4>1
      <4>4. k = Len(t) + 1 \/ k \in 1..Len(t)
        BY <4>1, <4>2
      <4> QED
        BY <4>1, <4>2, <4>3, <4>4 DEF t
    <3> QED
      BY <2>3, <3>1, <3>2
  <2>6. Settled(y)' => Settled(y)
    <3>1. Coming(y)' => Coming(y)
      BY <1>0, <2>1, <2>3 DEF Coming
    <3>2. Kept(y)' => Kept(y) \/ y = e.id
      BY <1>0, <2>5 DEF Kept
    <3>3. Coming(e.id)
      BY DEF Coming
    <3> QED
      BY <2>0, <3>1, <3>2, <3>3 DEF Settled
  <2>7. Coming(y) => Coming(y)' \/ y = IdOf(o)
    BY <1>0, <2>1, <2>3 DEF Coming
  <2> QED
    BY <2>3, <2>6, <2>7
<1>8. CASE ~ReceiveRaises(o) /\ (ReviewRaises(o) \/ JudgeRefused(o))
  <2>0. lost' = lost
    BY <1>0, <1>8
  <2>1. replies' = replies /\ stashed' = stashed /\ th[o].pc \in {"judging", "call"}
    BY <1>8 DEF ReviewRaises, JudgeRefused, inboxVars
  <2>2. /\ th'[o].event = {} /\ th[o].event = {}
        /\ th'[o].turns \in {<<>>, th[o].turns}
    BY <1>0, <1>8, <2>1, ThreadEffects, RefusedEffect DEF FailsOpen
  <2>3. Len(<<>>) = 0 /\ 1..0 = {}
    OBVIOUS
  <2> QED
    BY <1>0, <2>0, <2>1, <2>2, <2>3 DEF Settled, Coming, Kept
<1>9. CASE ReceiveRaises(o)
  <2>1. /\ stashed' \subseteq stashed
        /\ \A d \in stashed : d.id # IdOf(o) => d \in stashed'
        /\ th[o].event = {}
    BY <1>0, <1>9 DEF ReceiveRaises, LeaveInbox
  <2>2. th'[o].event = {} /\ th'[o].turns = <<>> /\ th'[o].pc = "done"
    BY <1>9, ThreadEffects DEF FailsOpen
  <2>3. Len(<<>>) = 0 /\ 1..0 = {}
    OBVIOUS
  <2>4. Kept(y)' => Kept(y)
    BY <1>0, <2>2, <2>3 DEF Kept
  <2>5. CASE replies' = replies /\ lost' = lost
    <3>1. Coming(y)' => Coming(y)
      BY <1>0, <2>1, <2>2, <2>5 DEF Coming
    <3>2. Coming(y) => Coming(y)' \/ y = IdOf(o)
      BY <1>0, <2>1, <2>2, <2>5 DEF Coming
    <3> QED
      BY <2>2, <2>4, <2>5, <3>1, <3>2 DEF Settled
  <2>6. CASE ~(replies' = replies /\ lost' = lost)
    <3>1. PICK e \in replies :
            /\ replies' = replies \ {e}
            /\ \/ lost' = lost \cup {e.id}
               \/ lost' = lost /\ e.id \notin pending
      BY <1>9, <2>6, RaiseEffects
    <3>2. Coming(e.id)
      BY DEF Coming
    <3>3. Coming(y)' => Coming(y)
      BY <1>0, <2>1, <2>2, <3>1 DEF Coming
    <3>4. Coming(y) => Coming(y)' \/ y = IdOf(o) \/ y = e.id
      BY <1>0, <2>1, <2>2, <3>1 DEF Coming
    <3>5. Settled(y)' => Settled(y)
      BY <2>4, <3>1, <3>2, <3>3 DEF Settled
    <3> QED
      BY <2>2, <3>1, <3>4, <3>5
  <2> QED
    BY <2>5, <2>6
<1> QED
  BY <1>1, <1>2, <1>3, <1>4, <1>5, <1>6, <1>7, <1>8, <1>9 DEF OrderStep

\* A thread about to publish has not been heard of at its present turn.
LEMMA NewRequest ==
  ASSUME TypeOK, Bus, manager = "review", NEW o \in Orders, th[o].pc = "publish"
  PROVE  ~Known(IdOf(o))
<1>1. /\ IdOf(o) \in Ids /\ IdOf(o).attempt = attempt /\ IdOf(o).order = o
      /\ IdOf(o).turn = th[o].turn /\ th[o].turn \in Nat
  BY IdTypes, ThreadTypes DEF TypeOK
<1>2. Known(IdOf(o)) => Fresh(IdOf(o))
  BY <1>1 DEF Bus
<1>3. ~Fresh(IdOf(o))
  BY <1>1 DEF Fresh
<1> QED
  BY <1>2, <1>3

\* A thread's request is on the bus once, and so is its reply.
LEMMA BusThread ==
  ASSUME DebateAssumption, TypeOK, Shape, Bus, NEW o \in Orders,
         OrderStep(o) \/ PublishRaises(o) \/ ReceiveRaises(o)
  PROVE  Bus'
<1>0. /\ manager = "review" /\ manager' = manager /\ attempt' = attempt
      /\ taken' = taken /\ lost \subseteq lost'
      /\ \A x \in Orders \ {o} : /\ th'[x] = th[x] /\ IdOf(x)' = IdOf(x)
                                 /\ IdOf(x) # IdOf(o)
  BY ThreadRuns, ThreadFrame
<1>i. /\ IdOf(o) \in Ids /\ IdOf(o).attempt = attempt /\ IdOf(o).order = o
      /\ IdOf(o).turn = th[o].turn /\ Recipient(th[o].turn) \in Peers
      /\ requests \in [Peers -> SUBSET Ids]
  BY IdTypes DEF TypeOK
<1>r. /\ \A p \in Peers : \A y \in requests'[p] :
           \/ y \in requests[p]
           \/ y = IdOf(o) /\ th[o].pc = "publish" /\ p = Recipient(th[o].turn)
      /\ \A p \in Peers : \A y \in requests[p] : y \in requests'[p]
      /\ requests' = Announced(o) => IdOf(o) \in requests'[Recipient(th[o].turn)]
  BY <1>i, ThreadAsks DEF Announced
<1>a. ASSUME NEW y \in Ids
      PROVE  /\ Asked(y) => Asked(y)'
             /\ Asked(y)' => Asked(y) \/ (y = IdOf(o) /\ th[o].pc = "publish")
  BY <1>0, <1>r DEF Asked
<1>1. \A p \in Peers : \A x \in requests'[p] \cup taken'[p] : Recipient(x.turn) = p
  BY <1>0, <1>i, <1>r DEF Bus
<1>2. \A p \in Peers : \A x \in requests'[p] : x \notin taken'[p]
  <2>1. ASSUME NEW p \in Peers, th[o].pc = "publish"
        PROVE  IdOf(o) \notin taken[p]
    BY <1>0, <2>1, NewRequest DEF Known, Asked
  <2> QED
    BY <1>0, <1>r, <2>1 DEF Bus
<1>3. ASSUME NEW y \in Ids, Known(y)'
      PROVE  Fresh(y)'
  <2>1. Known(y) \/ (y = IdOf(o) /\ th[o].pc = "publish")
    BY <1>a, <1>3, ThreadSettles DEF Known, Settled
  <2>2. /\ y.attempt \in Nat /\ attempt \in Nat /\ y.order \in Orders /\ y.turn \in Nat
        /\ th[o].turn \in Nat
    BY ThreadTypes DEF Ids, TypeOK
  <2>3. CASE Known(y)
    <3>1. Fresh(y)
      BY <2>3 DEF Bus
    <3>2. CASE y.order # o
      BY <1>0, <2>2, <3>1, <3>2 DEF Fresh
    <3>3. CASE y.order = o
      <4>1. CASE th'[o].pc \in Before
        <5>1. \/ th[o].pc \in {"queued", "call"} /\ th'[o].turn = th[o].turn
              \/ th[o].pc = "resolve" /\ th'[o].turn = th[o].turn + 1
          BY <4>1, ThreadProgress
        <5>2. th'[o].pc \notin {"wait", "stash", "resolve"}
          BY <4>1 DEF Before
        <5>3. y.attempt = attempt => y.turn < th'[o].turn
          BY <1>0, <2>2, <3>1, <3>3, <5>1 DEF Fresh
        <5> QED
          BY <1>0, <3>1, <3>3, <5>2, <5>3 DEF Fresh
      <4>2. CASE th'[o].pc \in During
        <5>1. th'[o].turn = th[o].turn /\ th[o].pc \in {"publish", "wait", "stash"}
          BY <4>2, ThreadProgress
        <5>2. th'[o].pc \notin {"queued", "call", "publish"}
          BY <4>2 DEF During
        <5>3. y.attempt = attempt => y.turn <= th'[o].turn
          BY <1>0, <2>2, <3>1, <3>3, <5>1 DEF Fresh
        <5> QED
          BY <1>0, <3>1, <3>3, <5>2, <5>3 DEF Fresh
      <4>3. CASE th'[o].pc \notin Before \cup During
        BY <1>0, <3>1, <3>3, <4>3 DEF Fresh, Before, During
      <4> QED
        BY <4>1, <4>2, <4>3
    <3> QED
      BY <3>2, <3>3
  <2>4. CASE y = IdOf(o) /\ th[o].pc = "publish"
    <3>1. th'[o].pc \notin Before
      BY <2>4, ThreadProgress
    <3>2. th'[o].pc \in During => th'[o].turn = y.turn
      BY <1>i, <2>4, ThreadProgress
    <3> QED
      BY <1>0, <1>i, <2>2, <2>4, <3>1, <3>2 DEF Fresh, Before, During
  <2> QED
    BY <2>1, <2>3, <2>4
<1>4. ASSUME NEW y \in Ids, Asked(y)', Settled(y)'
      PROVE  FALSE
  <2>1. Settled(y) /\ (Asked(y) \/ (y = IdOf(o) /\ th[o].pc = "publish"))
    BY <1>a, <1>4, ThreadSettles
  <2>2. ~Asked(y)
    BY <2>1 DEF Bus, Settled
  <2> QED
    BY <1>0, <2>1, <2>2, NewRequest DEF Known, Settled
<1>5. ASSUME NEW x \in Orders, th'[x].pc \in {"wait", "stash"}
      PROVE  (Asked(IdOf(x)) \/ Coming(IdOf(x)) \/ IdOf(x) \in lost)'
  <2>1. CASE x # o
    <3>1. /\ IdOf(x)' = IdOf(x) /\ IdOf(x) # IdOf(o) /\ IdOf(x) \in Ids
          /\ th[x].pc \in {"wait", "stash"} /\ IdOf(x) \in pending
      BY <1>0, <1>5, <2>1, IdTypes DEF Shape
    <3>2. PICK y \in Ids : y = IdOf(x)
      BY <3>1
    <3>3. Asked(y) \/ Coming(y) \/ y \in lost
      BY <3>1, <3>2 DEF Bus
    <3>4. Asked(y)' \/ Coming(y)' \/ y \in lost'
      BY <1>0, <1>a, <3>1, <3>2, <3>3, ThreadSettles
    <3> QED
      BY <3>1, <3>2, <3>4
  <2>2. CASE x = o
    <3>1. IdOf(o)' = IdOf(o)
      BY <1>0, <1>5, <2>2, ThreadProgress DEF IdOf, During
    <3>2. PICK y \in Ids : y = IdOf(o)
      BY <1>i
    <3>3. CASE th[o].pc \in {"wait", "stash"}
      <4>1. (Asked(y) \/ Coming(y) \/ y \in lost) /\ y \in pending
        BY <3>2, <3>3 DEF Bus, Shape
      <4>2. Asked(y)' \/ Coming(y)' \/ y \in lost'
        BY <1>0, <1>5, <1>a, <2>2, <4>1, ThreadSettles
      <4> QED
        BY <2>2, <3>1, <3>2, <4>2
    <3>4. CASE requests' = Announced(o)
      <4>1. Asked(y)'
        BY <1>i, <1>r, <3>2, <3>4 DEF Asked
      <4> QED
        BY <2>2, <3>1, <3>2, <4>1
    <3> QED
      BY <1>5, <2>2, <3>3, <3>4, ThreadProgress
  <2> QED
    BY <2>1, <2>2
<1> QED
  BY <1>1, <1>2, <1>3, <1>4, <1>5 DEF Bus, Settled

\* The manager's own steps: threads start anew or rest, and nothing is sent.
LEMMA BusManager ==
  ASSUME DebateAssumption, TypeOK, Shape, Bus,
         \/ PreflightFails \/ StartReview \/ WriteRun \/ LinkRun \/ WriteRaises
         \/ ManagerDies
  PROVE  Bus'
<1>1. /\ requests' = requests /\ taken' = taken /\ replies' = replies /\ lost' = lost
      /\ stashed' \subseteq stashed
  BY DEF PreflightFails, Ready, StartReview, WriteRun, LinkRun, WriteRaises,
     ManagerDies, inboxVars
<1>2. \A o \in Orders :
        /\ th'[o].pc \in {"queued", "done"}
        /\ th'[o].event \subseteq th[o].event
        /\ \A k \in 1..Len(th'[o].turns) :
             k \in 1..Len(th[o].turns) /\ th'[o].turns[k] = th[o].turns[k]
  <2>1. CASE StartReview \/ ManagerDies
    <3>1. NewThread.event = {} /\ NewThread.pc = "queued" /\ 1..Len(NewThread.turns) = {}
      BY DEF NewThread
    <3> QED
      BY <2>1, <3>1, ResetEffect DEF Reset
  <2>2. CASE PreflightFails \/ WriteRun \/ LinkRun \/ WriteRaises
    BY <2>2 DEF PreflightFails, Ready, WriteRun, LinkRun, WriteRaises, Shape, Done
  <2> QED
    BY <2>1, <2>2
<1>3. \A y \in Ids : /\ Asked(y)' <=> Asked(y)
                     /\ Settled(y)' => Settled(y)
  BY <1>1, <1>2 DEF Asked, Settled, Coming, Kept
<1>4. ASSUME NEW y \in Ids, Known(y)'
      PROVE  Fresh(y)'
  <2>1. Fresh(y) /\ y.attempt \in Nat /\ attempt \in Nat
    BY <1>3, <1>4 DEF Known, Settled, Bus, Ids, TypeOK
  <2>2. attempt' = attempt + 1 \/ (attempt' = attempt /\ manager' # "review")
    BY DEF PreflightFails, Ready, StartReview, WriteRun, LinkRun, WriteRaises, ManagerDies
  <2> QED
    BY <2>1, <2>2 DEF Fresh
<1> QED
  BY <1>1, <1>2, <1>3, <1>4 DEF Bus, Settled

\* A peer takes a request: it is asked as before.
LEMMA BusTake ==
  ASSUME DebateAssumption, TypeOK, Bus, NEW p \in Peers, Take(p)
  PROVE  Bus'
<1>1. PICK id \in requests[p] :
        /\ requests' = [requests EXCEPT ![p] = @ \ {id}]
        /\ taken' = [taken EXCEPT ![p] = {id}]
        /\ taken[p] = {}
  BY DEF Take
<1>2. /\ requests \in [Peers -> SUBSET Ids] /\ taken \in [Peers -> SUBSET Ids]
      /\ UNCHANGED <<manager, attempt, th, stashed, replies, lost>>
  BY DEF TypeOK, Take, inboxVars
<1>3. /\ requests'[p] = requests[p] \ {id} /\ taken'[p] = {id}
      /\ \A q \in Peers \ {p} : requests'[q] = requests[q] /\ taken'[q] = taken[q]
  BY <1>1, <1>2
<1>4. \A y \in Ids : Asked(y)' <=> Asked(y)
  BY <1>1, <1>3 DEF Asked
<1>5. \A y \in Ids : /\ Coming(y)' <=> Coming(y)
                     /\ Kept(y)' <=> Kept(y)
                     /\ Fresh(y)' <=> Fresh(y)
  BY <1>2 DEF Coming, Kept, Fresh
<1>6. \A o \in Orders : IdOf(o)' = IdOf(o) /\ IdOf(o) \in Ids
  BY <1>2, IdTypes DEF IdOf
<1>7. /\ \A q \in Peers : \A x \in requests'[q] \cup taken'[q] : Recipient(x.turn) = q
      /\ \A q \in Peers : \A x \in requests'[q] : x \notin taken'[q]
  BY <1>1, <1>3 DEF Bus
<1>8. \A y \in Ids : Known(y)' <=> Known(y)
  BY <1>2, <1>4, <1>5 DEF Known
<1>9. ASSUME NEW o \in Orders, th'[o].pc \in {"wait", "stash"}
      PROVE  (Asked(IdOf(o)) \/ Coming(IdOf(o)) \/ IdOf(o) \in lost)'
  <2>1. PICK y \in Ids : y = IdOf(o)
    BY <1>6
  <2>2. Asked(y)' \/ Coming(y)' \/ y \in lost'
    BY <1>2, <1>4, <1>5, <1>9, <2>1 DEF Bus
  <2> QED
    BY <1>6, <2>1, <2>2
<1> QED
  BY <1>2, <1>4, <1>5, <1>7, <1>8, <1>9 DEF Bus

\* A peer answers, or loses, the request it has taken: it is settled, once.
LEMMA BusAnswer ==
  ASSUME DebateAssumption, TypeOK, Bus, NEW p \in Peers, Serve(p) \/ PeerDies(p)
  PROVE  Bus'
<1>1. /\ requests \in [Peers -> SUBSET Ids] /\ taken \in [Peers -> SUBSET Ids]
      /\ UNCHANGED <<manager, attempt, th, stashed, requests>>
      /\ \A x, y \in taken[p] : x = y
  BY DEF TypeOK, Serve, PeerDies, inboxVars
<1>2. PICK id \in taken[p] :
        /\ taken' = [taken EXCEPT ![p] = {}]
        /\ \/ /\ \E error \in BOOLEAN : replies' = replies \cup {[id |-> id, error |-> error]}
              /\ lost' = lost
           \/ lost' = lost \cup {id} /\ replies' = replies
  <2>1. CASE Serve(p)
    BY <2>1 DEF Serve, Answer
  <2>2. CASE PeerDies(p)
    <3>1. PICK id \in taken[p] : TRUE
      BY <2>2 DEF PeerDies
    <3>2. taken[p] = {id}
      BY <1>1
    <3> QED
      BY <2>2, <3>2 DEF PeerDies
  <2> QED
    BY <2>1, <2>2
<1>3. /\ taken'[p] = {} /\ taken[p] = {id} /\ id \in Ids
      /\ \A q \in Peers \ {p} : taken'[q] = taken[q]
  BY <1>1, <1>2
<1>4. \A q \in Peers : id \notin requests[q] /\ (q # p => id \notin taken[q])
  BY <1>3 DEF Bus
<1>5. \A y \in Ids : Asked(y)' <=> Asked(y) /\ y # id
  BY <1>1, <1>3, <1>4 DEF Asked
<1>6. \A y \in Ids : (Coming(y)' \/ y \in lost') <=> (Coming(y) \/ y \in lost \/ y = id)
  <2>1. CASE lost' = lost \cup {id} /\ replies' = replies
    BY <1>1, <2>1 DEF Coming
  <2>2. CASE ~(lost' = lost \cup {id} /\ replies' = replies)
    <3>1. PICK r : r.id = id /\ replies' = replies \cup {r} /\ lost' = lost
      <4>1. PICK error \in BOOLEAN :
              replies' = replies \cup {[id |-> id, error |-> error]} /\ lost' = lost
        BY <1>2, <2>2
      <4>2. [id |-> id, error |-> error].id = id
        OBVIOUS
      <4> QED
        BY <4>1, <4>2
    <3> QED
      BY <1>1, <3>1 DEF Coming
  <2> QED
    BY <2>1, <2>2
<1>7. \A y \in Ids : /\ Kept(y)' <=> Kept(y)
                     /\ Fresh(y)' <=> Fresh(y)
  BY <1>1 DEF Kept, Fresh
<1>8. \A o \in Orders : IdOf(o)' = IdOf(o) /\ IdOf(o) \in Ids
  BY <1>1, IdTypes DEF IdOf
<1>9. Asked(id)
  BY <1>3 DEF Asked
<1>10. \A y \in Ids : Known(y)' <=> Known(y)
  BY <1>5, <1>6, <1>7, <1>9 DEF Known
<1>11. /\ \A q \in Peers : \A x \in requests'[q] \cup taken'[q] : Recipient(x.turn) = q
       /\ \A q \in Peers : \A x \in requests'[q] : x \notin taken'[q]
  BY <1>1, <1>3 DEF Bus
<1>12. ASSUME NEW o \in Orders, th'[o].pc \in {"wait", "stash"}
       PROVE  (Asked(IdOf(o)) \/ Coming(IdOf(o)) \/ IdOf(o) \in lost)'
  <2>1. PICK y \in Ids : y = IdOf(o)
    BY <1>8
  <2>2. Asked(y) \/ Coming(y) \/ y \in lost
    BY <1>1, <1>12, <2>1 DEF Bus
  <2>3. Asked(y)' \/ Coming(y)' \/ y \in lost'
    BY <1>5, <1>6, <2>2
  <2> QED
    BY <1>8, <2>1, <2>3
<1>13. ASSUME NEW y \in Ids, Asked(y)', Coming(y)' \/ y \in lost' \/ Kept(y)'
       PROVE  FALSE
  BY <1>5, <1>6, <1>7, <1>13 DEF Bus
<1> QED
  BY <1>7, <1>10, <1>11, <1>12, <1>13 DEF Bus

-----------------------------------------------------------------------------
(* The losses *)

\* Every loss has a fault of its own.
Paid == IsFiniteSet(lost) /\ Cardinality(lost) <= faults

\* A fault pays for one more loss.
LEMMA PaidGrows ==
  ASSUME Paid, faults \in Nat, NEW x, lost' = lost \/ lost' = lost \cup {x},
         faults' = faults + 1
  PROVE  Paid'
<1>1. IsFiniteSet(lost) /\ Cardinality(lost) <= faults /\ Cardinality(lost) \in Nat
  BY FS_CardinalityType DEF Paid
<1>2. CASE lost' = lost
  BY <1>1, <1>2 DEF Paid
<1>3. CASE lost' = lost \cup {x}
  <2>1. /\ IsFiniteSet(lost \cup {x})
        /\ Cardinality(lost \cup {x}) = Cardinality(lost)
           \/ Cardinality(lost \cup {x}) = Cardinality(lost) + 1
    BY <1>1, FS_AddElement
  <2>2. Cardinality(lost \cup {x}) <= faults + 1
    BY <1>1, <2>1
  <2> QED
    BY <1>3, <2>1, <2>2 DEF Paid
<1> QED
  BY <1>2, <1>3

\* A step loses one request or reply at most, and none without a fault.
LEMMA PaidStep ==
  ASSUME DebateAssumption, TypeOK, Paid, Next
  PROVE  Paid'
<1>0. faults \in Nat /\ IsFiniteSet(lost) /\ Cardinality(lost) \in Nat
  BY FS_CardinalityType DEF TypeOK, Paid, DebateAssumption
<1>s. ASSUME lost' = lost, faults' = faults \/ Fault
      PROVE  Paid'
  <2>1. faults' = faults \/ faults' = faults + 1
    BY <1>s DEF Fault
  <2> QED
    BY <1>0, <1>s, <2>1 DEF Paid
<1>1. CASE \E o \in Orders : OrderStep(o) \/ PublishRaises(o) \/ ReceiveRaises(o)
  <2>1. PICK o \in Orders : OrderStep(o) \/ PublishRaises(o) \/ ReceiveRaises(o)
    BY <1>1
  <2>2. CASE ReceiveRaises(o)
    <3>1. PICK x : lost' = lost \/ lost' = lost \cup {x}
      BY <2>2, RaiseEffects
    <3>2. faults' = faults + 1
      BY <2>2 DEF ReceiveRaises, Fault
    <3> QED
      BY <1>0, <3>1, <3>2, PaidGrows, Zenon
  <2>3. CASE ~ReceiveRaises(o)
    <3>1. lost' = lost /\ (faults' = faults \/ Fault)
      BY <2>1, <2>3, ThreadFrame
    <3> QED
      BY <1>s, <3>1
  <2> QED
    BY <2>2, <2>3
<1>2. CASE \/ PreflightFails \/ StartReview \/ WriteRun \/ LinkRun \/ WriteRaises
           \/ ManagerDies
  BY <1>s, <1>2 DEF PreflightFails, StartReview, WriteRun, LinkRun, WriteRaises,
     ManagerDies
<1>3. CASE \E p \in Peers : Take(p) \/ Serve(p) \/ PeerDies(p)
  <2>1. PICK p \in Peers : Take(p) \/ Serve(p) \/ PeerDies(p)
    BY <1>3
  <2>2. CASE Take(p)
    BY <1>s, <2>2 DEF Take
  <2>3. CASE Serve(p)
    <3>1. PICK error \in BOOLEAN : Answer(p, error)
      BY <2>3 DEF Serve
    <3>2. \/ lost' = lost /\ faults' = faults
          \/ faults' = faults + 1 /\ \E id \in taken[p] : lost' = lost \cup {id}
      BY <3>1 DEF Answer, Fault
    <3> QED
      BY <1>0, <1>s, <3>2, PaidGrows
  <2>4. CASE PeerDies(p)
    <3>1. PICK id \in taken[p] : TRUE
      BY <2>4 DEF PeerDies
    <3>2. taken[p] = {id}
      BY DEF TypeOK
    <3>3. lost' = lost \cup {id} /\ faults' = faults + 1
      BY <2>4, <3>2 DEF PeerDies, Fault
    <3> QED
      BY <1>0, <3>3, PaidGrows
  <2> QED
    BY <2>1, <2>2, <2>3, <2>4
<1> QED
  BY <1>1, <1>2, <1>3 DEF Next, ManagerStep

-----------------------------------------------------------------------------
(* The theorems *)

\* All of it together: a transcript is a debate's own (Transcript) because a
\* thread resolves its own reply only (Shape) and a request is served once
\* (Bus); the counts hold (Count) because letters are of ended waits; what is
\* lost was lost by a fault (Paid).
Inductive ==
  /\ TypeOK /\ Shape /\ Chain /\ Bus /\ Transcript /\ Count /\ Paid
  /\ RulingFromOwnDebate /\ OrphansCounted

\* The inductive invariant holds before the first review.
LEMMA InitInductive == DebateAssumption /\ Init => Inductive
<1> SUFFICES ASSUME DebateAssumption, Init PROVE Inductive
  OBVIOUS
<1>0. /\ NewThread \in Threads /\ NewThread.pc = "queued" /\ NewThread.event = {}
      /\ NewThread.turn = 1 /\ NewThread.turns = <<>> /\ NewThread.orphans = 0
      /\ NewThread.ruling = "none" /\ Len(<<>>) = 0
  BY DEF NewThread, Threads, DebateAssumption, Turns
<1> HIDE DEF NewThread
<1>1. th \in [Orders -> Threads] /\ \A o \in Orders : th[o] = NewThread
  BY <1>0 DEF Init
<1>2. TypeOK
  <2>1. /\ blind \in BOOLEAN /\ linked \in BOOLEAN
        /\ routed \in BOOLEAN /\ quarantined \in BOOLEAN
    BY Zenon DEF Init
  <2>2. /\ manager \in {"idle", "review", "link"} /\ attempt \in Nat
        /\ pending \subseteq Ids /\ stashed \subseteq Events
        /\ index \in 1..Candidates /\ refused \subseteq 1..Candidates
        /\ client \in Nat /\ before \in Nat /\ dead \in Nat /\ failures \in Nat
        /\ replies \subseteq Events /\ lost \subseteq Ids
        /\ faults \in 0..MaxFaults
    BY DEF Init, DebateAssumption
  <2>3. /\ requests \in [Peers -> SUBSET Ids]
        /\ taken \in [Peers -> SUBSET Ids]
        /\ \A p \in Peers : \A x, y \in taken[p] : x = y
    BY DEF Init
  <2> QED
    BY <1>1, <2>1, <2>2, <2>3, Zenon DEF TypeOK
<1>3. Shape /\ Chain
  BY <1>0, <1>1 DEF Init, Shape, Chain
<1>4. Bus
  <2>1. \A y \in Ids : ~Asked(y) /\ ~Coming(y) /\ y \notin lost /\ ~Kept(y)
    BY <1>0, <1>1 DEF Init, Asked, Coming, Kept
  <2>2. \A p \in Peers : requests[p] = {} /\ taken[p] = {}
    BY DEF Init
  <2> QED
    BY <1>0, <1>1, <2>1, <2>2 DEF Bus, Known
<1>5. Transcript
  BY <1>0, <1>1 DEF Transcript, Upto
<1>6. Count /\ RulingFromOwnDebate /\ OrphansCounted
  BY <1>0, <1>1 DEF Init, Count, Held, Dated, RulingFromOwnDebate, OrphansCounted
<1>7. Paid
  BY FS_EmptySet DEF Init, Paid
<1> QED
  BY <1>2, <1>3, <1>4, <1>5, <1>6, <1>7 DEF Inductive

\* Each step keeps it.
LEMMA StepInductive ==
  ASSUME DebateAssumption, Inductive, [Next]_vars
  PROVE  Inductive'
<1>0. /\ TypeOK /\ Shape /\ Chain /\ Bus /\ Transcript /\ Count /\ Paid
      /\ RulingFromOwnDebate /\ OrphansCounted
  BY DEF Inductive
<1>1. CASE \E o \in Orders : OrderStep(o) \/ PublishRaises(o) \/ ReceiveRaises(o)
  <2>1. PICK o \in Orders : OrderStep(o) \/ PublishRaises(o) \/ ReceiveRaises(o)
    BY <1>1
  <2>2. Next
    BY <1>1 DEF Next, ManagerStep
  <2>3. TypeOK' /\ Shape' /\ Chain' /\ Bus' /\ Transcript'
    BY <1>0, <2>1, TypeThread, ShapeThread, ChainThread, BusThread, TranscriptThread
  <2>4. Tally /\ Held /\ Dated /\ manager' = manager /\ record' = record /\ attempt' = attempt
    BY <1>0, <2>1, ThreadRuns, ThreadFrame DEF Count
  <2>5. Count'
    BY <1>0, <2>1, <2>2, <2>3, <2>4, CountThread, DatedStep DEF Count
  <2>6. RulingFromOwnDebate' /\ OrphansCounted'
    BY <1>0, <2>2, <2>4, OrphansStep DEF RulingFromOwnDebate
  <2>7. Paid'
    BY <1>0, <2>2, PaidStep
  <2> QED
    BY <2>3, <2>5, <2>6, <2>7 DEF Inductive
<1>2. CASE \/ PreflightFails \/ StartReview \/ WriteRun \/ LinkRun \/ WriteRaises
           \/ ManagerDies
           \/ \E p \in Peers : Take(p) \/ Serve(p) \/ PeerDies(p)
  <2>1. Next
    BY <1>2 DEF Next, ManagerStep
  <2>2. TypeOK' /\ Shape' /\ Chain' /\ Bus' /\ Transcript'
    BY <1>0, <1>2, TypeManager, TypePeer, ShapeOther, ChainOther, BusManager, BusTake,
       BusAnswer, TranscriptOther
  <2>3. Count'
    BY <1>0, <1>2, <2>1, CountOther, DatedStep DEF Count
  <2>4. RulingFromOwnDebate'
    <3>1. CASE WriteRun
      BY <1>0, <3>1, WrittenFromOwnDebate
    <3>2. CASE ~WriteRun
      <4>1. record' = record
        BY <1>2, <3>2 DEF PreflightFails, StartReview, LinkRun, WriteRaises,
           ManagerDies, Take, Serve,
           PeerDies, graphVars
      <4> QED
        BY <1>0, <4>1 DEF RulingFromOwnDebate
    <3> QED
      BY <3>1, <3>2
  <2>5. OrphansCounted'
    BY <1>0, <2>1, OrphansStep
  <2>6. Paid'
    BY <1>0, <2>1, PaidStep
  <2> QED
    BY <2>2, <2>3, <2>4, <2>5, <2>6 DEF Inductive
<1>3. CASE UNCHANGED vars
  <2>1. UNCHANGED <<manager, attempt, th, pending, stashed, index, refused, client, before,
                    dead, blind, requests, taken, replies, lost, record, linked, routed,
                    failures, quarantined, faults>>
    BY <1>3 DEF vars, inboxVars, chainVars, countVars, graphVars, loopVars
  <2>2. TypeOK'
    BY <1>0, <2>1, Zenon DEF TypeOK
  <2>3. Shape' /\ Chain'
    BY <1>0, <2>1 DEF Shape, Chain, IdOf
  <2>4. Bus'
    BY <1>0, <2>1 DEF Bus, Asked, Coming, Kept, Known, Fresh, IdOf
  <2>5. Transcript' /\ Count'
    BY <1>0, <2>1 DEF Transcript, Upto, Count, Held, Tally, Sums, Dated
  <2>6. RulingFromOwnDebate' /\ OrphansCounted'
    BY <1>0, <2>1 DEF RulingFromOwnDebate, OrphansCounted
  <2>7. Paid'
    BY <1>0, <2>1 DEF Paid
  <2> QED
    BY <2>2, <2>3, <2>4, <2>5, <2>6, <2>7 DEF Inductive
<1> QED
  BY <1>1, <1>2, <1>3 DEF Next, ManagerStep

\* A request is where Asked says, and answered as Settled says.
LEMMA Places ==
  ASSUME TypeOK
  PROVE  /\ \A x \in Ids : x \in ToBeAnswered <=> Asked(x)
         /\ \A x \in Ids : x \in UnderWay <=> Coming(x)
         /\ \A x \in Ids : x \in Recorded <=> Kept(x)
         /\ ToBeAnswered \subseteq Ids
<1>1. \A x \in Ids : x \in ToBeAnswered <=> Asked(x)
  BY DEF ToBeAnswered, Asked
<1>2. \A x \in Ids : x \in UnderWay <=> Coming(x)
  BY DEF UnderWay, Coming
<1>3. \A x \in Ids : x \in Recorded <=> Kept(x)
  <2>1. \A o \in Orders : DOMAIN th[o].turns = 1..Len(th[o].turns)
    BY DEF TypeOK, Threads
  <2> QED
    BY <2>1 DEF Recorded, Kept
<1>4. ToBeAnswered \subseteq Ids
  BY DEF ToBeAnswered, TypeOK
<1> QED
  BY <1>1, <1>2, <1>3, <1>4

\* The invariant the theorems follow from.
THEOREM DebateInvariant == Spec => []Inductive
<1>1. Init => Inductive
  BY DebateAssumption, InitInductive
<1>2. Inductive /\ [Next]_vars => Inductive'
  BY DebateAssumption, StepInductive
<1> QED
  BY <1>1, <1>2, PTL DEF Spec

\* Types of the review protocol, for every number of orders, rounds, workers,
\* candidates and faults.
THEOREM DebateTypes == Spec => []TypeOK
<1>1. Inductive => TypeOK
  BY DEF Inductive
<1> QED
  BY <1>1, DebateInvariant, PTL

\* A ruling rests on the whole of its own debate.
THEOREM DebateRulings == Spec => []RulingFromOwnDebate
<1>1. Inductive => RulingFromOwnDebate
  BY DEF Inductive
<1> QED
  BY <1>1, DebateInvariant, PTL

\* The DeliberationRun's orphan count is the number of its attempt's letters.
THEOREM DebateOrphans == Spec => []OrphansCounted
<1>1. Inductive => OrphansCounted
  BY DEF Inductive
<1> QED
  BY <1>1, DebateInvariant, PTL

\* The chain of candidates skips none.
THEOREM DebateCandidates == Spec => []NoCandidateSkipped
<1>1. Inductive => NoCandidateSkipped
  BY DEF Inductive, Chain, NoCandidateSkipped
<1> QED
  BY <1>1, DebateInvariant, PTL

\* A delivery is served at most once.
THEOREM DebateServedOnce == Spec => []ServedAtMostOnce
<1>1. ASSUME Inductive PROVE ServedAtMostOnce
  <2>1. TypeOK /\ Bus
    BY <1>1 DEF Inductive
  <2>2. ASSUME NEW x \in ToBeAnswered, x \in Answered
        PROVE  FALSE
    <3>1. x \in Ids /\ Asked(x)
      BY <2>1, Places
    <3>2. Coming(x) \/ x \in lost \/ Kept(x)
      BY <2>1, <2>2, <3>1, Places DEF Answered
    <3> QED
      BY <2>1, <3>1, <3>2 DEF Bus
  <2> QED
    BY <2>2 DEF ServedAtMostOnce
<1> QED
  BY <1>1, DebateInvariant, PTL

\* A waiting thread's request, or its reply, is somewhere, or was lost by a
\* fault that lost nothing else: a peer's kill, a failed publish of the answer,
\* or a settlement of the reply that took effect and raised.
THEOREM DebateReplies == Spec => []ReplyReachesItsWaiter
<1>1. ASSUME Inductive PROVE ReplyReachesItsWaiter
  <2>1. TypeOK /\ Bus /\ Paid
    BY <1>1 DEF Inductive
  <2>2. ASSUME NEW o \in Orders, th[o].pc = "wait"
        PROVE  IdOf(o) \in ToBeAnswered \cup UnderWay \cup lost
    <3>1. IdOf(o) \in Ids
      BY <2>1, IdTypes
    <3>2. Asked(IdOf(o)) \/ Coming(IdOf(o)) \/ IdOf(o) \in lost
      BY <2>1, <2>2 DEF Bus
    <3> QED
      BY <2>1, <3>1, <3>2, Places
  <2> QED
    BY <2>1, <2>2 DEF ReplyReachesItsWaiter, Paid
<1> QED
  BY <1>1, DebateInvariant, PTL

=============================================================================
