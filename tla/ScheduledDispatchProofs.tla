----------------------- MODULE ScheduledDispatchProofs -----------------------
(***************************************************************************)
(* The holds of a session, for any number of overlapping fires.            *)
(*                                                                         *)
(* OneActiveHold is not inductive: a fire writes the next hold long after  *)
(* it listed them, so each fire in flight carries its own claim (Claim):   *)
(* if it saw no active hold and no hold was written since, there is none   *)
(* now.  NotifiedMeansDelivered needs to count the notices that were sent  *)
(* and are not recorded yet (Told).  SkipStands follows from Skipped: the  *)
(* skip comes before every other answer, those still to come too, and no   *)
(* fire under way has read anything else.                                  *)
(***************************************************************************)
EXTENDS ScheduledDispatch, SequenceTheorems, FiniteSetTheorems, TLAPS

Holds == [released : Nat, answered : Answers \cup {"none"}, notified : BOOLEAN]

Steps == {"off", "poll", "answer", "check", "override", "readiness", "settle",
          "place", "posture", "tell", "notice", "noted"}
Runnings == [pc : Steps, now : Nat, hold : Nat, known : BOOLEAN,
             answer : Answers \cup {"none"}, fleet : Readiness, count : Nat]

\* What a fire may rely on when the graph has n holds, those in active active.
Claim(x, n, active) ==
  /\ x \in Runnings
  /\ x.pc # "off" => x.now # 0
  /\ x.hold <= n
  /\ x.pc = "settle" => x.count <= n
  /\ x.pc = "settle" /\ x.hold = NoHold /\ x.count = n => active = {}
  /\ x.pc \in {"notice", "noted"} => x.hold # NoHold

Facts ==
  /\ clock \in Nat \ {0} /\ fleet \in Readiness
  /\ holds \in Seq(Holds)
  /\ \A a \in answers : a.answer \in Answers
  /\ \A u \in inbox : u.answer \in Answers

Shape == Facts /\ fire = [f \in Fires |-> fire[f]]

\* The inductive invariant of the holds.
HoldInv ==
  /\ Shape
  /\ \A f \in Fires : Claim(fire[f], Len(holds), ActiveHolds)
  /\ OneActiveHold

----------------------------------------------------------------------------
(* Facts about the operators *)

\* A claim survives when holds are only added, or are only released.
LEMMA ClaimKept ==
  ASSUME NEW x, NEW n \in Nat, NEW m \in Nat, NEW A, NEW B,
         Claim(x, n, A), n <= m, n = m => B \subseteq A
  PROVE  Claim(x, m, B)
BY DEF Claim, Runnings, NoHold

\* An ended fire claims nothing.
LEMMA OffClaim ==
  ASSUME NEW n \in Nat, NEW A
  PROVE  Claim(Off, n, A)
BY DEF Claim, Off, Runnings, Steps, Readiness, NoHold

\* Moving a fire on leaves its claim, unless it moves to a step that claims more.
LEMMA MovedClaim ==
  ASSUME NEW x, NEW n \in Nat, NEW A, Claim(x, n, A), x.pc # "off",
         NEW p \in Steps, p # "settle",
         p \in {"notice", "noted"} => x.hold # NoHold
  PROVE  Claim([x EXCEPT !.pc = p], n, A)
BY DEF Claim, Runnings, Steps

\* The effective answer is an answer or none.
LEMMA EffectiveType ==
  ASSUME Shape
  PROVE  EffectiveAnswer \in Answers \cup {"none"}
<1> DEFINE first == {a \in answers : \A b \in answers \ {a} : Precedes(a, b)}
<1>1. first # {} => (CHOOSE a \in first : TRUE) \in first
  BY Zenon
<1>2. \A a \in first : a.answer \in Answers
  BY DEF Shape, Facts
<1>3. EffectiveAnswer = IF first = {} THEN "none" ELSE (CHOOSE a \in first : TRUE).answer
  BY Zenon DEF EffectiveAnswer
<1> HIDE DEF first
<1> QED
  BY <1>1, <1>2, <1>3

\* The active hold a fire reads is one of the graph's, or none.
LEMMA ActiveHoldType ==
  ASSUME Shape, OneActiveHold
  PROVE  /\ ActiveHold \in Nat /\ ActiveHold <= Len(holds)
         /\ ActiveHold = NoHold => ActiveHolds = {}
         /\ ActiveHold # NoHold => ActiveHold \in DOMAIN holds
<1>1. ActiveHolds \in SUBSET Nat /\ Len(holds) \in Nat
      /\ \A n \in ActiveHolds : n \in DOMAIN holds /\ n # 0 /\ n <= Len(holds)
  BY DEF Shape, Facts, ActiveHolds
<1>2. CASE ActiveHolds = {}
  BY <1>1, <1>2 DEF ActiveHold, NoHold
<1>3. CASE ActiveHolds # {}
  <2>1. ActiveHolds = {Len(holds)}
    BY <1>3 DEF OneActiveHold
  <2>2. Min(ActiveHolds) = Len(holds)
    BY <1>1, <2>1 DEF Min
  <2> QED
    BY <1>1, <1>3, <2>1, <2>2 DEF ActiveHold, NoHold
<1> QED
  BY <1>2, <1>3

\* A fire that starts knows the time and the hold it read.
LEMMA StartClaim ==
  ASSUME NEW p \in {"answer", "poll"}, NEW t \in Nat \ {0}, NEW n \in Nat, NEW A,
         NEW h \in Nat, h <= n, NEW k \in BOOLEAN
  PROVE  Claim([Off EXCEPT !.pc = p, !.now = t, !.hold = h, !.known = k], n, A)
BY DEF Claim, Runnings, Off, Steps, Readiness, NoHold

\* A fire that has read the answer keeps its claim.
LEMMA AnswerClaim ==
  ASSUME NEW x, NEW n \in Nat, NEW A, Claim(x, n, A), x.pc # "off",
         NEW a \in Answers \cup {"none"}
  PROVE  Claim([x EXCEPT !.pc = "check", !.answer = a], n, A)
BY DEF Claim, Runnings, Steps

\* A fire that has listed the holds knows whether one is active.
LEMMA ReadinessClaim ==
  ASSUME NEW x, NEW n \in Nat, NEW A, Claim(x, n, A), x.pc # "off",
         NEW r \in Readiness, NEW h \in Nat, h <= n, h = NoHold => A = {}
  PROVE  Claim([x EXCEPT !.pc = "settle", !.fleet = r, !.hold = h, !.count = n], n, A)
<1> DEFINE y == [x EXCEPT !.pc = "settle", !.fleet = r, !.hold = h, !.count = n]
<1>1. x \in Runnings /\ x.now # 0
  BY DEF Claim
<1>2. y \in Runnings
  BY <1>1 DEF Runnings, Steps
<1>3. y.pc = "settle" /\ y.now = x.now /\ y.hold = h /\ y.count = n
  BY <1>1 DEF Runnings
<1> HIDE DEF y
<1>4. Claim(y, n, A)
  BY <1>1, <1>2, <1>3 DEF Claim
<1> QED
  BY <1>4 DEF y

\* A fire that wrote or found the hold it announces.
LEMMA NoticeClaim ==
  ASSUME NEW x, NEW n \in Nat, NEW A, NEW m \in Nat, NEW B, Claim(x, n, A),
         x.pc # "off", NEW h \in Nat \ {0}, h <= m
  PROVE  Claim([x EXCEPT !.pc = "notice", !.hold = h], m, B)
BY DEF Claim, Runnings, Steps, NoHold

----------------------------------------------------------------------------
(* How a step changes the fires and the holds *)

\* One fire moves, and holds are added or released but never made active.
LEMMA FireMoves ==
  ASSUME HoldInv, Facts', OneActiveHold',
         Len(holds') >= Len(holds),
         Len(holds') = Len(holds) => ActiveHolds' \subseteq ActiveHolds,
         NEW f \in Fires, NEW x, Claim(x, Len(holds'), ActiveHolds'),
         fire' = [fire EXCEPT ![f] = x]
  PROVE  HoldInv'
<1>1. Len(holds) \in Nat /\ Len(holds') \in Nat
  BY DEF HoldInv, Shape, Facts
<1>2. fire' = [g \in Fires |-> fire'[g]]
      /\ \A g \in Fires : fire'[g] = IF g = f THEN x ELSE fire[g]
  BY DEF HoldInv, Shape
<1>3. ASSUME NEW g \in Fires PROVE Claim(fire'[g], Len(holds'), ActiveHolds')
  <2>1. CASE g = f
    BY <1>2, <2>1
  <2>2. CASE g # f
    <3>1. Claim(fire[g], Len(holds), ActiveHolds)
      BY DEF HoldInv
    <3>2. Claim(fire[g], Len(holds'), ActiveHolds')
      BY <1>1, <3>1, ClaimKept
    <3> QED
      BY <1>2, <2>2, <3>2
  <2> QED
    BY <2>1, <2>2
<1> QED
  BY <1>2, <1>3 DEF HoldInv, Shape

\* One fire moves and the holds stay as they are.
LEMMA OnlyFireMoves ==
  ASSUME HoldInv, Facts', holds' = holds,
         NEW f \in Fires, NEW x, Claim(x, Len(holds), ActiveHolds),
         fire' = [fire EXCEPT ![f] = x]
  PROVE  HoldInv'
<1>1. ActiveHolds' = ActiveHolds /\ Len(holds') = Len(holds)
  BY DEF ActiveHolds
<1>2. OneActiveHold'
  BY <1>1 DEF HoldInv, OneActiveHold
<1>3. Len(holds) \in Nat
  BY DEF HoldInv, Shape, Facts
<1>4. Claim(x, Len(holds'), ActiveHolds')
  BY <1>1
<1>5. Len(holds') >= Len(holds) /\ ActiveHolds' \subseteq ActiveHolds
  BY <1>1, <1>3
<1> QED
  BY <1>2, <1>4, <1>5, FireMoves, Zenon

\* A hold is changed, and is not made active by it.
LEMMA HoldChanges ==
  ASSUME holds \in Seq(Holds), OneActiveHold, NEW h \in DOMAIN holds, NEW e \in Holds,
         Active(e) => Active(holds[h]), holds' = [holds EXCEPT ![h] = e]
  PROVE  /\ holds' \in Seq(Holds) /\ Len(holds') = Len(holds)
         /\ ActiveHolds' \subseteq ActiveHolds /\ OneActiveHold'
<1>1. h \in 1..Len(holds)
  OBVIOUS
<1>2. /\ holds' \in Seq(Holds) /\ Len(holds') = Len(holds)
      /\ \A n \in 1..Len(holds) : holds'[n] = IF n = h THEN e ELSE holds[n]
  BY <1>1, ExceptSeq
<1>3. DOMAIN holds' = DOMAIN holds /\ DOMAIN holds = 1..Len(holds)
  BY <1>2
<1>4. ASSUME NEW n \in DOMAIN holds', Active(holds'[n]) PROVE n \in ActiveHolds
  <2>1. n \in DOMAIN holds /\ holds'[n] = IF n = h THEN e ELSE holds[n]
    BY <1>2, <1>3
  <2>2. Active(holds[n])
    BY <1>4, <2>1, Zenon
  <2> QED
    BY <2>1, <2>2 DEF ActiveHolds
<1>5. ActiveHolds' \subseteq ActiveHolds
  BY <1>4 DEF ActiveHolds
<1> QED
  BY <1>2, <1>5 DEF OneActiveHold

\* A hold is written while none is active.
LEMMA HoldAdded ==
  ASSUME holds \in Seq(Holds), ActiveHolds = {}, holds' = Append(holds, NewHold)
  PROVE  /\ holds' \in Seq(Holds) /\ Len(holds') = Len(holds) + 1 /\ OneActiveHold'
<1>1. NewHold \in Holds
  BY DEF NewHold, Holds
<1>2. /\ holds' \in Seq(Holds) /\ Len(holds') = Len(holds) + 1
      /\ \A n \in 1..Len(holds) : holds'[n] = holds[n]
  BY <1>1, AppendProperties
<1>3. ASSUME NEW n \in DOMAIN holds', Active(holds'[n]) PROVE n = Len(holds')
  <2>1. n \in 1..Len(holds') /\ Len(holds) \in Nat
    BY <1>2
  <2>2. ASSUME n # Len(holds') PROVE FALSE
    <3>1. n \in 1..Len(holds) /\ n \in DOMAIN holds
      BY <1>2, <2>1, <2>2
    <3>2. Active(holds[n])
      BY <1>2, <1>3, <3>1
    <3> QED
      BY <3>1, <3>2 DEF ActiveHolds
  <2> QED
    BY <2>2
<1> QED
  BY <1>2, <1>3 DEF OneActiveHold, ActiveHolds

----------------------------------------------------------------------------
(* The invariant *)

\* No fire runs and there is no hold.
LEMMA HoldInit == Init => HoldInv
<1> SUFFICES ASSUME Init PROVE HoldInv
  OBVIOUS
<1>1. Len(holds) = 0 /\ ActiveHolds = {}
  BY DEF Init, ActiveHolds
<1>2. Shape
  BY DEF Init, Shape, Facts, Readiness
<1>3. ASSUME NEW f \in Fires PROVE Claim(fire[f], Len(holds), ActiveHolds)
  <2>1. fire[f] = Off
    BY DEF Init
  <2> QED
    BY <1>1, <2>1, OffClaim
<1> QED
  BY <1>1, <1>2, <1>3 DEF HoldInv, OneActiveHold

\* What a fire holds in its own claim.
LEMMA OwnClaim ==
  ASSUME HoldInv, NEW f \in Fires
  PROVE  /\ Claim(fire[f], Len(holds), ActiveHolds) /\ fire[f] \in Runnings
         /\ Len(holds) \in Nat /\ DOMAIN fire = Fires
         /\ fire[f].pc # "off" => fire[f].now \in Nat \ {0}
         /\ fire[f].hold \in 0..Len(holds)
<1>1. Claim(fire[f], Len(holds), ActiveHolds)
  BY DEF HoldInv
<1> QED
  BY <1>1 DEF HoldInv, Shape, Facts, Claim, Runnings

\* A fire ends and the holds stay.
LEMMA EndKeeps ==
  ASSUME HoldInv, Facts', holds' = holds, NEW f \in Fires, Ends(f)
  PROVE  HoldInv'
<1>1. Claim(Off, Len(holds), ActiveHolds)
  BY OwnClaim, OffClaim
<1> QED
  BY <1>1, OnlyFireMoves DEF Ends

\* A fire moves on to a step that claims nothing new and the holds stay.
LEMMA GotoKeeps ==
  ASSUME HoldInv, Facts', holds' = holds, NEW f \in Fires, fire[f].pc # "off",
         NEW p \in Steps, p # "settle",
         p \in {"notice", "noted"} => fire[f].hold # NoHold, Goto(f, p)
  PROVE  HoldInv'
<1>1. Claim([fire[f] EXCEPT !.pc = p], Len(holds), ActiveHolds)
  BY OwnClaim, MovedClaim
<1>2. fire' = [fire EXCEPT ![f] = [fire[f] EXCEPT !.pc = p]]
  BY DEF Goto
<1> QED
  BY <1>1, <1>2, OnlyFireMoves

\* A fire that starts claims only the time and the hold it read.
LEMMA StartKeeps ==
  ASSUME HoldInv, NEW f \in Fires, Start(f)
  PROVE  HoldInv'
<1> DEFINE k == ActiveHold # NoHold /\ holds[ActiveHold].answered # "none"
           p == IF ActiveHold = NoHold THEN "answer" ELSE "poll"
<1>1. Facts' /\ holds' = holds
  BY DEF HoldInv, Shape, Facts, Start, graph
<1>2. ActiveHold \in Nat /\ ActiveHold <= Len(holds) /\ Len(holds) \in Nat
  BY ActiveHoldType, OwnClaim DEF HoldInv
<1>3. k \in BOOLEAN
  BY Zenon
<1>4. p \in {"answer", "poll"} /\ clock \in Nat \ {0}
  BY DEF HoldInv, Shape, Facts
<1>5. fire' = [fire EXCEPT ![f] =
                 [Off EXCEPT !.pc = p, !.now = clock, !.hold = ActiveHold, !.known = k]]
  BY DEF Start
<1> HIDE DEF k, p
<1>6. Claim([Off EXCEPT !.pc = p, !.now = clock, !.hold = ActiveHold, !.known = k],
            Len(holds), ActiveHolds)
  BY <1>2, <1>3, <1>4, StartClaim
<1> QED
  BY <1>1, <1>5, <1>6, OnlyFireMoves

\* Recording the pressed buttons leaves the holds to later steps.
LEMMA PollKeeps ==
  ASSUME HoldInv, NEW f \in Fires, Poll(f)
  PROVE  HoldInv'
<1>1. holds' = holds /\ clock' = clock /\ fleet' = fleet
  BY DEF Poll
<1>2. \A u \in Unrecorded : u.answer \in Answers
  BY DEF HoldInv, Shape, Facts, Unrecorded
<1>3. (\A a \in answers' : a.answer \in Answers) /\ (\A u \in inbox' : u.answer \in Answers)
  BY <1>2 DEF HoldInv, Shape, Facts, Poll
<1>4. Facts'
  BY <1>1, <1>3 DEF HoldInv, Shape, Facts
<1> QED
  BY <1>1, <1>4, GotoKeeps DEF Poll, Steps

\* Marking the answer of a hold neither releases it nor makes it active.
LEMMA ReadAnswerKeeps ==
  ASSUME HoldInv, NEW f \in Fires, ReadAnswer(f)
  PROVE  HoldInv'
<1> DEFINE h == fire[f].hold
           e == [holds[h] EXCEPT !.answered = EffectiveAnswer]
           x == [fire[f] EXCEPT !.pc = "check", !.answer = EffectiveAnswer]
<1>1. /\ clock' = clock /\ fleet' = fleet /\ answers' = answers /\ inbox' = inbox
      /\ fire[f].pc = "answer"
  BY DEF ReadAnswer, outside
<1>2. EffectiveAnswer \in Answers \cup {"none"}
  BY EffectiveType DEF HoldInv
<1>3. Claim(x, Len(holds), ActiveHolds)
  BY <1>1, <1>2, OwnClaim, AnswerClaim
<1>4. CASE holds' = holds
  <2>1. Facts'
    BY <1>1, <1>4 DEF HoldInv, Shape, Facts
  <2>2. Ends(f) \/ fire' = [fire EXCEPT ![f] = x]
    BY DEF ReadAnswer
  <2> QED
    BY <1>3, <1>4, <2>1, <2>2, OnlyFireMoves, EndKeeps
<1>5. CASE h # NoHold /\ holds' = [holds EXCEPT ![h] = e] /\ fire' = [fire EXCEPT ![f] = x]
  <2>1. h \in DOMAIN holds /\ holds \in Seq(Holds) /\ holds[h] \in Holds
    BY <1>5, OwnClaim DEF HoldInv, Shape, Facts, NoHold
  <2>2. e \in Holds /\ (Active(e) => Active(holds[h]))
    BY <1>2, <2>1 DEF Holds, Active
  <2>3. /\ holds' \in Seq(Holds) /\ Len(holds') = Len(holds)
        /\ ActiveHolds' \subseteq ActiveHolds /\ OneActiveHold'
    BY <1>5, <2>1, <2>2, HoldChanges DEF HoldInv
  <2>4. Facts'
    BY <1>1, <2>3 DEF HoldInv, Shape, Facts
  <2>5. Claim(x, Len(holds'), ActiveHolds')
    BY <1>3, <2>3, OwnClaim, ClaimKept
  <2>6. Len(holds') >= Len(holds)
    BY <2>3, OwnClaim
  <2> HIDE DEF x
  <2> QED
    BY <1>5, <2>3, <2>4, <2>5, <2>6, FireMoves
<1> QED
  BY <1>4, <1>5 DEF ReadAnswer

\* A fire that lists the holds takes its claim here.
LEMMA ReadReadinessKeeps ==
  ASSUME HoldInv, NEW f \in Fires, ReadReadiness(f)
  PROVE  HoldInv'
<1> DEFINE x == [fire[f] EXCEPT !.pc = "settle", !.fleet = fleet,
                                !.hold = ActiveHold, !.count = Len(holds)]
<1>1. Facts' /\ holds' = holds /\ fire[f].pc = "readiness" /\ fire' = [fire EXCEPT ![f] = x]
  BY DEF HoldInv, Shape, Facts, ReadReadiness, graph, outside
<1>2. /\ ActiveHold \in Nat /\ ActiveHold <= Len(holds) /\ fleet \in Readiness
      /\ ActiveHold = NoHold => ActiveHolds = {}
  BY ActiveHoldType DEF HoldInv, Shape, Facts
<1>3. Claim(x, Len(holds), ActiveHolds)
  BY <1>1, <1>2, OwnClaim, ReadinessClaim
<1> HIDE DEF x
<1> QED
  BY <1>1, <1>3, OnlyFireMoves

\* A fire changes a hold it knows of and then moves on or ends.
LEMMA HoldChangeKeeps ==
  ASSUME HoldInv, NEW f \in Fires, fire[f].pc # "off", fire[f].hold # NoHold,
         NEW e \in Holds, Active(e) => Active(holds[fire[f].hold]),
         holds' = [holds EXCEPT ![fire[f].hold] = e],
         Goto(f, "place") \/ Ends(f), UNCHANGED <<answers, request, told, outside>>
  PROVE  HoldInv'
<1> DEFINE h == fire[f].hold
           x == [fire[f] EXCEPT !.pc = "place"]
<1>1. h \in DOMAIN holds /\ holds \in Seq(Holds)
  BY OwnClaim DEF HoldInv, Shape, Facts, NoHold
<1>2. /\ holds' \in Seq(Holds) /\ Len(holds') = Len(holds)
      /\ ActiveHolds' \subseteq ActiveHolds /\ OneActiveHold'
  BY <1>1, HoldChanges DEF HoldInv
<1>3. Facts'
  BY <1>2 DEF HoldInv, Shape, Facts, outside
<1>4. Claim(x, Len(holds), ActiveHolds) /\ Claim(Off, Len(holds), ActiveHolds)
  BY OwnClaim, MovedClaim, OffClaim DEF Steps
<1>5. Claim(x, Len(holds'), ActiveHolds') /\ Claim(Off, Len(holds'), ActiveHolds')
  BY <1>2, <1>4, OwnClaim, ClaimKept
<1>6. fire' = [fire EXCEPT ![f] = x] \/ fire' = [fire EXCEPT ![f] = Off]
  BY DEF Goto, Ends
<1>7. Len(holds') >= Len(holds)
  BY <1>2, OwnClaim
<1> HIDE DEF x
<1> QED
  BY <1>2, <1>3, <1>5, <1>6, <1>7, FireMoves

\* A release is at the time the fire began, which is never zero.
LEMMA ReleaseKeeps ==
  ASSUME HoldInv, NEW f \in Fires, Release(f)
  PROVE  HoldInv'
<1> DEFINE h == fire[f].hold
           e == [holds[h] EXCEPT !.released = fire[f].now]
<1>1. fire[f].pc = "settle" /\ UNCHANGED <<answers, request, told, outside>>
  BY DEF Release
<1>2. CASE holds' = holds
  <2>1. Facts'
    BY <1>1, <1>2 DEF HoldInv, Shape, Facts, outside
  <2>2. Ends(f) \/ Goto(f, "place")
    BY DEF Release
  <2> QED
    BY <1>1, <1>2, <2>1, <2>2, EndKeeps, GotoKeeps DEF Steps
<1>3. CASE h # NoHold /\ holds' = [holds EXCEPT ![h] = e] /\ Goto(f, "place")
  <2>1. holds[h] \in Holds /\ fire[f].now \in Nat \ {0}
    BY <1>1, <1>3, OwnClaim DEF HoldInv, Shape, Facts, NoHold
  <2>2. e \in Holds /\ ~Active(e)
    BY <2>1 DEF Holds, Active
  <2> QED
    BY <1>1, <1>3, <2>2, HoldChangeKeeps
<1> QED
  BY <1>2, <1>3 DEF Release

\* Recording the notice of a hold leaves its release alone.
LEMMA MarkNotifiedKeeps ==
  ASSUME HoldInv, NEW f \in Fires, MarkNotified(f)
  PROVE  HoldInv'
<1> DEFINE h == fire[f].hold
           e == [holds[h] EXCEPT !.notified = TRUE]
<1>1. fire[f].pc = "noted" /\ h # NoHold
  BY OwnClaim DEF MarkNotified, Claim
<1>2. holds[h] \in Holds
  BY <1>1, OwnClaim DEF HoldInv, Shape, Facts, NoHold
<1>3. e \in Holds /\ (Active(e) => Active(holds[h]))
  BY <1>2 DEF Holds, Active
<1>4. holds' = [holds EXCEPT ![h] = e] /\ Ends(f)
      /\ UNCHANGED <<answers, request, told, outside>>
  BY DEF MarkNotified
<1> QED
  BY <1>1, <1>3, <1>4, HoldChangeKeeps

\* A fire writes a hold only when its claim says that none is active.
LEMMA HoldKeeps ==
  ASSUME HoldInv, NEW f \in Fires, Hold(f)
  PROVE  HoldInv'
<1>1. fire[f].pc = "settle" /\ UNCHANGED <<answers, request, told, outside>>
  BY DEF Hold
<1>2. CASE holds' = holds /\ (Ends(f) \/ (fire[f].hold # NoHold /\ Goto(f, "notice")))
  <2>1. Facts'
    BY <1>1, <1>2 DEF HoldInv, Shape, Facts, outside
  <2> QED
    BY <1>1, <1>2, <2>1, EndKeeps, GotoKeeps DEF Steps
<1>3. CASE /\ fire[f].hold = NoHold /\ Len(holds) = fire[f].count
           /\ holds' = Append(holds, NewHold)
           /\ fire' = [fire EXCEPT ![f].pc = "notice", ![f].hold = fire[f].count + 1]
  <2> DEFINE x == [fire[f] EXCEPT !.pc = "notice", !.hold = fire[f].count + 1]
  <2>1. ActiveHolds = {} /\ Len(holds) \in Nat /\ fire[f].count \in Nat
    BY <1>1, <1>3, OwnClaim DEF Claim, Runnings
  <2>2. holds' \in Seq(Holds) /\ Len(holds') = Len(holds) + 1 /\ OneActiveHold'
    BY <1>3, <2>1, HoldAdded DEF HoldInv, Shape, Facts
  <2>3. Facts'
    BY <1>1, <2>2 DEF HoldInv, Shape, Facts, outside
  <2>4. fire[f].count + 1 \in Nat \ {0} /\ fire[f].count + 1 <= Len(holds')
        /\ Len(holds') \in Nat
    BY <1>3, <2>1, <2>2
  <2>5. Claim(x, Len(holds'), ActiveHolds')
    BY <1>1, <2>1, <2>4, OwnClaim, NoticeClaim
  <2>6. fire' = [fire EXCEPT ![f] = x]
    BY <1>3
  <2>7. Len(holds') >= Len(holds) /\ Len(holds') # Len(holds)
    BY <2>1, <2>2
  <2> HIDE DEF x
  <2> QED
    BY <2>2, <2>3, <2>5, <2>6, <2>7, FireMoves
<1> QED
  BY <1>2, <1>3 DEF Hold

\* The steps of a fire that read or write only the run request or Telegram.
LEMMA OtherStepsKeep ==
  ASSUME HoldInv, NEW f \in Fires,
         Check(f) \/ Override(f) \/ Place(f) \/ MarkDegraded(f) \/ TellDegraded(f)
           \/ NotifyHold(f) \/ Dies(f)
  PROVE  HoldInv'
<1>1. /\ holds' = holds /\ fire[f].pc # "off"
      /\ answers' = answers /\ inbox' = inbox /\ clock' = clock /\ fleet' = fleet
  BY DEF Check, Override, Place, MarkDegraded, TellDegraded, NotifyHold, Dies, graph, outside
<1>2. Facts'
  BY <1>1 DEF HoldInv, Shape, Facts
<1>3. \/ Ends(f)
      \/ \E p \in {"tell", "override", "readiness", "posture"} : Goto(f, p)
      \/ fire[f].hold # NoHold /\ Goto(f, "noted")
  <2>1. fire[f].pc = "notice" => fire[f].hold # NoHold
    BY OwnClaim DEF Claim
  <2>2. Check(f) => Ends(f) \/ \E p \in {"tell", "override", "readiness"} : Goto(f, p)
    <3>1. fire[f].answer \in {"run_now", "skip_today", "none"}
      BY OwnClaim DEF Runnings, Answers
    <3>2. IsActionTime(fire[f].now) \in BOOLEAN
      BY Zenon DEF IsActionTime
    <3> QED
      BY <3>1, <3>2 DEF Check
  <2>3. Override(f) \/ Place(f) \/ MarkDegraded(f) \/ TellDegraded(f) \/ Dies(f)
        => Ends(f) \/ \E p \in {"tell", "posture"} : Goto(f, p)
    BY DEF Override, Place, MarkDegraded, TellDegraded, Dies
  <2>4. NotifyHold(f) => Ends(f) \/ (fire[f].hold # NoHold /\ Goto(f, "noted"))
    BY <2>1 DEF NotifyHold
  <2> QED
    BY <2>2, <2>3, <2>4
<1> QED
  BY <1>1, <1>2, <1>3, EndKeeps, GotoKeeps DEF Steps

\* Whatever happens outside the fires leaves the holds and the fires alone.
LEMMA OutsideKeeps ==
  ASSUME HoldInv, holds' = holds, fire' = fire, Facts'
  PROVE  HoldInv'
BY DEF HoldInv, Shape, OneActiveHold, ActiveHolds

\* Every step keeps the invariant of the holds.
LEMMA HoldStep == HoldInv /\ [Next]_vars => HoldInv'
<1> SUFFICES ASSUME HoldInv, [Next]_vars PROVE HoldInv'
  OBVIOUS
<1>1. CASE \E f \in Fires : FireStep(f)
  BY <1>1, StartKeeps, PollKeeps, ReadAnswerKeeps, ReadReadinessKeeps, ReleaseKeeps,
     HoldKeeps, MarkNotifiedKeeps, OtherStepsKeep, Zenon DEF FireStep
<1>2. CASE \E answer \in Answers : Press(answer)
  <2>1. PICK answer \in Answers : Press(answer)
    BY <1>2
  <2>2. \A u \in inbox' : u.answer \in Answers
    BY <2>1 DEF Press, HoldInv, Shape, Facts
  <2>3. holds' = holds /\ fire' = fire /\ answers' = answers /\ clock' = clock
        /\ fleet' = fleet
    BY <2>1 DEF Press, graph
  <2>4. Facts'
    BY <2>2, <2>3 DEF HoldInv, Shape, Facts
  <2> QED
    BY <2>3, <2>4, OutsideKeeps
<1>3. CASE \E answer \in Answers : DashboardRecords(answer)
  <2>1. PICK answer \in Answers : DashboardRecords(answer)
    BY <1>3
  <2>2. \A a \in answers' : a.answer \in Answers
    BY <2>1 DEF DashboardRecords, HoldInv, Shape, Facts
  <2>3. holds' = holds /\ fire' = fire /\ inbox' = inbox /\ clock' = clock
        /\ fleet' = fleet
    BY <2>1 DEF DashboardRecords
  <2>4. Facts'
    BY <2>2, <2>3 DEF HoldInv, Shape, Facts
  <2> QED
    BY <2>3, <2>4, OutsideKeeps
<1>4. CASE DashboardChecks \/ FleetChanges \/ Tick \/ UNCHANGED vars
  <2>1. holds' = holds /\ fire' = fire /\ inbox' = inbox /\ answers' = answers
    BY <1>4 DEF DashboardChecks, FleetChanges, Tick, vars, graph
  <2>2. clock' \in Nat \ {0} /\ fleet' \in Readiness
    BY <1>4 DEF DashboardChecks, FleetChanges, Tick, vars, HoldInv, Shape, Facts
  <2>3. Facts'
    BY <2>1, <2>2 DEF HoldInv, Shape, Facts
  <2> QED
    BY <2>1, <2>3, OutsideKeeps
<1> QED
  BY <1>1, <1>2, <1>3, <1>4 DEF Next

\* However many fires overlap, die or are answered while they run, at most the
\* latest hold of the day is active: hold_unready_run never writes a second
\* one beside it and no release is undone.
THEOREM OneHoldHolds == Spec => []OneActiveHold
<1>1. HoldInv => OneActiveHold
  BY DEF HoldInv
<1> QED
  BY HoldInit, HoldStep, <1>1, PTL DEF Spec

----------------------------------------------------------------------------
(* The notices *)

\* The holds a notice was delivered for: recorded, or about to be by a fire.
Told == {n \in DOMAIN holds :
           \/ holds[n].notified
           \/ \E f \in Fires : fire[f].pc = "noted" /\ fire[f].hold = n}

DeliveryInv == HoldInv /\ notices \in Nat /\ Cardinality(Told) <= notices

\* A set within 1..n is finite, and counts no more than a set it is within.
LEMMA CountWithin ==
  ASSUME NEW n \in Nat, NEW T, T \subseteq 1..n, NEW S, S \subseteq T
  PROVE  /\ IsFiniteSet(T) /\ Cardinality(T) \in Nat
         /\ Cardinality(S) \in Nat /\ Cardinality(S) <= Cardinality(T)
<1>1. IsFiniteSet(1..n)
  BY FS_Interval
<1>2. IsFiniteSet(T)
  BY <1>1, FS_Subset
<1> QED
  BY <1>2, FS_Subset, FS_CardinalityType

\* The holds told of are finitely many.
LEMMA ToldType ==
  ASSUME HoldInv
  PROVE  /\ Len(holds) \in Nat /\ Told \subseteq 1..Len(holds)
         /\ IsFiniteSet(Told) /\ Cardinality(Told) \in Nat
<1>1. Len(holds) \in Nat /\ Told \subseteq 1..Len(holds)
  BY DEF HoldInv, Shape, Facts, Told
<1> QED
  BY <1>1, CountWithin

\* A step after which no other hold is told of keeps the invariant.
LEMMA NoMoreTold ==
  ASSUME DeliveryInv, HoldInv', notices' \in Nat, notices' >= notices, Told' \subseteq Told
  PROVE  DeliveryInv'
<1>1. Cardinality(Told) \in Nat /\ Cardinality(Told') \in Nat
      /\ Cardinality(Told') <= Cardinality(Told)
  BY ToldType, CountWithin DEF DeliveryInv
<1> QED
  BY <1>1 DEF DeliveryInv

\* A step that delivers a notice tells of one more hold at most.
LEMMA OneMoreTold ==
  ASSUME DeliveryInv, HoldInv', notices' = notices + 1, NEW h, Told' \subseteq Told \cup {h}
  PROVE  DeliveryInv'
<1>1. IsFiniteSet(Told) /\ Cardinality(Told) \in Nat
  BY ToldType DEF DeliveryInv
<1>2. /\ IsFiniteSet(Told \cup {h})
      /\ Cardinality(Told \cup {h}) =
           IF h \in Told THEN Cardinality(Told) ELSE Cardinality(Told) + 1
  BY <1>1, FS_AddElement, Zenon
<1>3. /\ IsFiniteSet(Told \cup {h}) /\ Cardinality(Told \cup {h}) <= Cardinality(Told) + 1
      /\ Cardinality(Told \cup {h}) \in Nat
  BY <1>1, <1>2
<1>4. Cardinality(Told') <= Cardinality(Told \cup {h}) /\ Cardinality(Told') \in Nat
  BY <1>3, FS_Subset, FS_CardinalityType
<1> QED
  BY <1>1, <1>3, <1>4 DEF DeliveryInv

\* No hold is told of anew when no fire comes to the step that records it and
\* no hold is recorded that was not told of.
LEMMA ToldKept ==
  ASSUME HoldInv, HoldInv',
         \A g \in Fires : fire'[g].pc = "noted" => fire[g] = fire'[g],
         \A n \in DOMAIN holds' : holds'[n].notified => n \in Told
  PROVE  Told' \subseteq Told
<1>1. ASSUME NEW n \in DOMAIN holds', NEW g \in Fires, fire'[g].pc = "noted", fire'[g].hold = n
      PROVE  n \in Told
  <2>1. fire[g].pc = "noted" /\ fire[g].hold = n
    BY <1>1
  <2>2. n # NoHold /\ n \in 0..Len(holds) /\ Len(holds) \in Nat
    BY <2>1, OwnClaim DEF Claim
  <2>3. n \in DOMAIN holds
    BY <2>2 DEF HoldInv, Shape, Facts, NoHold
  <2> QED
    BY <2>1, <2>3 DEF Told
<1>2. ASSUME NEW n \in Told'
      PROVE  /\ n \in DOMAIN holds'
             /\ \/ holds'[n].notified
                \/ \E g \in Fires : fire'[g].pc = "noted" /\ fire'[g].hold = n
  BY <1>2, Zenon DEF Told
<1>3. ASSUME NEW n \in Told' PROVE n \in Told
  BY <1>1, <1>2, <1>3, Zenon
<1> QED
  BY <1>3

\* The same for a step of one fire, which leaves the others alone.
LEMMA FireToldKept ==
  ASSUME DeliveryInv, HoldInv', notices' = notices,
         NEW f \in Fires, NEW x, x.pc # "noted", fire' = [fire EXCEPT ![f] = x],
         \A n \in DOMAIN holds' : holds'[n].notified => n \in Told
  PROVE  DeliveryInv'
<1>1. \A g \in Fires : fire'[g].pc = "noted" => fire[g] = fire'[g]
  BY DEF DeliveryInv, HoldInv, Shape
<1>2. Told' \subseteq Told
  BY <1>1, ToldKept DEF DeliveryInv
<1> QED
  BY <1>2, NoMoreTold DEF DeliveryInv

\* A hold that is recorded was told of.
LEMMA RecordedTold == \A n \in DOMAIN holds : holds[n].notified => n \in Told
BY Zenon DEF Told

\* A hold changed in another field than notified.
LEMMA RecordedSame ==
  ASSUME HoldInv, NEW h \in DOMAIN holds, NEW e, holds' = [holds EXCEPT ![h] = e],
         e.notified = holds[h].notified
  PROVE  \A n \in DOMAIN holds' : holds'[n].notified => n \in Told
<1>1. DOMAIN holds' = DOMAIN holds
      /\ \A n \in DOMAIN holds : holds'[n] = IF n = h THEN e ELSE holds[n]
  BY DEF HoldInv, Shape, Facts
<1>2. ASSUME NEW n \in DOMAIN holds PROVE holds'[n].notified = holds[n].notified
  BY <1>1
<1> QED
  BY <1>1, <1>2, RecordedTold, Zenon

\* A step that leaves the holds alone and brings no fire to the recording step.
LEMMA SilentStep ==
  ASSUME DeliveryInv, HoldInv', holds' = holds, notices' \in {notices, notices + 1},
         \A g \in Fires : fire'[g].pc = "noted" => fire[g] = fire'[g]
  PROVE  DeliveryInv'
<1>1. \A n \in DOMAIN holds' : holds'[n].notified => n \in Told
  BY RecordedTold
<1>2. Told' \subseteq Told
  BY <1>1, ToldKept DEF DeliveryInv
<1> QED
  BY <1>2, NoMoreTold DEF DeliveryInv

\* Ending a fire, or moving it elsewhere, brings none to the recording step.
LEMMA ElsewhereUnnoted ==
  ASSUME HoldInv, NEW f \in Fires, NEW p, p # "noted", Goto(f, p) \/ Ends(f)
  PROVE  \A g \in Fires : fire'[g].pc = "noted" => fire[g] = fire'[g]
<1>1. fire[f] \in Runnings /\ DOMAIN fire = Fires
  BY OwnClaim
<1> QED
  BY <1>1 DEF Goto, Ends, Off, Runnings, HoldInv, Shape

\* The steps of a fire that neither send a notice nor change a hold.
LEMMA QuietSteps ==
  ASSUME DeliveryInv, HoldInv', NEW f \in Fires,
         \/ Start(f) \/ Poll(f) \/ Check(f) \/ Override(f) \/ ReadReadiness(f)
         \/ Place(f) \/ MarkDegraded(f) \/ TellDegraded(f) \/ Dies(f)
  PROVE  DeliveryInv'
<1>1. HoldInv /\ fire[f] \in Runnings /\ DOMAIN fire = Fires
  BY OwnClaim DEF DeliveryInv
<1>2. holds' = holds /\ notices' = notices
  BY DEF Start, Poll, Check, Override, ReadReadiness, Place, MarkDegraded,
         TellDegraded, Dies, graph, outside
<1>3. CASE Start(f) \/ ReadReadiness(f)
  <2>1. \A n \in DOMAIN holds' : holds'[n].notified => n \in Told
    BY <1>2, RecordedTold
  <2>2. CASE Start(f)
    <3> DEFINE x == [Off EXCEPT
                  !.pc = IF ActiveHold = NoHold THEN "answer" ELSE "poll",
                  !.now = clock, !.hold = ActiveHold,
                  !.known = ActiveHold # NoHold /\ holds[ActiveHold].answered # "none"]
    <3>1. fire' = [fire EXCEPT ![f] = x]
      BY <2>2, Zenon DEF Start
    <3>2. x.pc \in {"answer", "poll"}
      BY DEF Off
    <3> HIDE DEF x
    <3> QED
      BY <1>1, <1>2, <2>1, <3>1, <3>2, FireToldKept
  <2>3. CASE ReadReadiness(f)
    <3> DEFINE x == [fire[f] EXCEPT !.pc = "settle", !.fleet = fleet,
                                    !.hold = ActiveHold, !.count = Len(holds)]
    <3>1. fire' = [fire EXCEPT ![f] = x]
      BY <2>3 DEF ReadReadiness
    <3>2. x.pc = "settle"
      BY <1>1 DEF Runnings
    <3> HIDE DEF x
    <3> QED
      BY <1>1, <1>2, <2>1, <3>1, <3>2, FireToldKept
  <2> QED
    BY <1>3, <2>2, <2>3
<1>4. CASE Check(f)
  <2>1. fire[f].answer \in {"run_now", "skip_today", "none"}
    BY <1>1 DEF Runnings, Answers
  <2>2. IsActionTime(fire[f].now) \in BOOLEAN
    BY Zenon DEF IsActionTime
  <2>3. \E p \in {"tell", "override", "readiness"} : Goto(f, p) \/ Ends(f)
    BY <1>4, <2>1, <2>2 DEF Check
  <2> QED
    BY <1>1, <1>2, <2>3, ElsewhereUnnoted, SilentStep
<1>5. CASE Poll(f) \/ Override(f) \/ Place(f) \/ MarkDegraded(f) \/ TellDegraded(f) \/ Dies(f)
  <2>1. \E p \in {"answer", "posture", "tell"} : Goto(f, p) \/ Ends(f)
    BY <1>5 DEF Poll, Override, Place, MarkDegraded, TellDegraded, Dies
  <2> QED
    BY <1>1, <1>2, <2>1, ElsewhereUnnoted, SilentStep
<1> QED
  BY <1>3, <1>4, <1>5

\* A fire that marks the answer of a hold, releases it or writes a new one.
LEMMA UnrecordedChanges ==
  ASSUME DeliveryInv, HoldInv', NEW f \in Fires, ReadAnswer(f) \/ Release(f) \/ Hold(f)
  PROVE  DeliveryInv'
<1> DEFINE h == fire[f].hold
<1>1. HoldInv /\ fire[f] \in Runnings /\ DOMAIN fire = Fires /\ holds \in Seq(Holds)
  BY OwnClaim DEF DeliveryInv, HoldInv, Shape, Facts
<1>2. notices' = notices
  BY DEF ReadAnswer, Release, Hold, outside
<1>3. PICK x : fire' = [fire EXCEPT ![f] = x] /\ x.pc # "noted"
  <2>1. CASE ReadAnswer(f)
    BY <1>1, <2>1 DEF ReadAnswer, Ends, Off, Runnings
  <2>2. CASE Release(f)
    BY <1>1, <2>2 DEF Release, Ends, Goto, Off, Runnings
  <2>3. CASE Hold(f)
    BY <1>1, <2>3 DEF Hold, Ends, Goto, Off, Runnings
  <2> QED
    BY <2>1, <2>2, <2>3
<1>4. CASE holds' = holds
  BY <1>1, <1>2, <1>3, <1>4, RecordedTold, FireToldKept
<1>5. CASE \E e : /\ h # NoHold /\ holds' = [holds EXCEPT ![h] = e]
                  /\ e.notified = holds[h].notified
  <2>1. h \in DOMAIN holds
    BY <1>1, <1>5, OwnClaim DEF NoHold
  <2>2. \A n \in DOMAIN holds' : holds'[n].notified => n \in Told
    BY <1>1, <1>5, <2>1, RecordedSame
  <2> QED
    BY <1>1, <1>2, <1>3, <2>2, FireToldKept
<1>6. CASE holds' = Append(holds, NewHold)
  <2>1. /\ DOMAIN holds' = 1..(Len(holds) + 1) /\ DOMAIN holds = 1..Len(holds)
        /\ Len(holds) \in Nat
        /\ holds'[Len(holds) + 1] = NewHold
        /\ \A n \in 1..Len(holds) : holds'[n] = holds[n]
    BY <1>1, <1>6
  <2>2. ASSUME NEW n \in DOMAIN holds', holds'[n].notified PROVE n \in Told
    <3>1. n # Len(holds) + 1
      BY <2>1, <2>2 DEF NewHold
    <3>2. n \in DOMAIN holds /\ holds'[n] = holds[n]
      BY <2>1, <3>1
    <3> QED
      BY <2>2, <3>2, RecordedTold, Zenon
  <2> QED
    BY <1>1, <1>2, <1>3, <2>2, FireToldKept
<1>7. holds' = holds \/ holds' = Append(holds, NewHold)
      \/ \E e : /\ h # NoHold /\ holds' = [holds EXCEPT ![h] = e]
                /\ e.notified = holds[h].notified
  <2>1. CASE ReadAnswer(f)
    <3>1. h # NoHold => holds[h] \in Holds
      BY <1>1, OwnClaim DEF NoHold
    <3>2. h # NoHold => [holds[h] EXCEPT !.answered = EffectiveAnswer].notified
                          = holds[h].notified
      BY <3>1 DEF Holds
    <3> QED
      BY <2>1, <3>2 DEF ReadAnswer
  <2>2. CASE Release(f)
    <3>1. h # NoHold => holds[h] \in Holds
      BY <1>1, OwnClaim DEF NoHold
    <3>2. h # NoHold => [holds[h] EXCEPT !.released = fire[f].now].notified
                          = holds[h].notified
      BY <3>1 DEF Holds
    <3> QED
      BY <2>2, <3>2 DEF Release
  <2>3. CASE Hold(f)
    BY <2>3 DEF Hold
  <2> QED
    BY <2>1, <2>2, <2>3
<1> QED
  BY <1>4, <1>5, <1>6, <1>7

\* Sending tells of one more hold at most, whatever becomes of the answer.
LEMMA NotifyTells ==
  ASSUME DeliveryInv, HoldInv', NEW f \in Fires, NotifyHold(f)
  PROVE  DeliveryInv'
<1> DEFINE h == fire[f].hold
<1>1. HoldInv /\ fire[f] \in Runnings /\ DOMAIN fire = Fires
  BY OwnClaim DEF DeliveryInv
<1>2. holds' = holds
  BY DEF NotifyHold, graph
<1>3. CASE Ends(f) /\ notices' \in {notices, notices + 1}
  BY <1>1, <1>2, <1>3, ElsewhereUnnoted, SilentStep
<1>4. CASE Goto(f, "noted") /\ notices' = notices + 1
  <2>1. \A g \in Fires : /\ g # f => fire'[g] = fire[g]
                         /\ fire'[f].hold = h
    BY <1>1, <1>4 DEF Goto, Runnings
  <2>2. ASSUME NEW n \in Told' PROVE n \in Told \cup {h}
    <3>1. /\ n \in DOMAIN holds
          /\ \/ holds[n].notified
             \/ \E g \in Fires : fire'[g].pc = "noted" /\ fire'[g].hold = n
      BY <1>2, <2>2, Zenon DEF Told
    <3>2. CASE holds[n].notified
      BY <3>1, <3>2, RecordedTold, Zenon
    <3>3. CASE \E g \in Fires : fire'[g].pc = "noted" /\ fire'[g].hold = n
      BY <2>1, <3>1, <3>3 DEF Told
    <3> QED
      BY <3>1, <3>2, <3>3
  <2> QED
    BY <1>4, <2>2, OneMoreTold
<1> QED
  BY <1>3, <1>4 DEF NotifyHold

\* Recording a notice records one that was sent.
LEMMA MarkTells ==
  ASSUME DeliveryInv, HoldInv', NEW f \in Fires, MarkNotified(f)
  PROVE  DeliveryInv'
<1> DEFINE h == fire[f].hold
           e == [holds[h] EXCEPT !.notified = TRUE]
<1>1. HoldInv /\ holds \in Seq(Holds) /\ fire[f].pc = "noted" /\ h # NoHold
      /\ h \in 0..Len(holds)
  BY OwnClaim DEF DeliveryInv, HoldInv, Shape, Facts, Claim, MarkNotified
<1>2. h \in DOMAIN holds
  BY <1>1 DEF NoHold
<1>3. h \in Told
  BY <1>1, <1>2 DEF Told
<1>4. DOMAIN holds' = DOMAIN holds
      /\ \A n \in DOMAIN holds : holds'[n] = IF n = h THEN e ELSE holds[n]
  BY <1>1, <1>2 DEF MarkNotified
<1>5. \A n \in DOMAIN holds' : holds'[n].notified => n \in Told
  BY <1>3, <1>4, RecordedTold, Zenon
<1>6. Off.pc # "noted" /\ fire' = [fire EXCEPT ![f] = Off] /\ notices' = notices
  BY DEF MarkNotified, Ends, Off, outside
<1> QED
  BY <1>5, <1>6, FireToldKept

\* Nothing is told of at first.
LEMMA DeliveryInit == Init => DeliveryInv
<1> SUFFICES ASSUME Init PROVE DeliveryInv
  OBVIOUS
<1>1. HoldInv
  BY HoldInit
<1>2. Told = {}
  BY DEF Init, Told
<1> QED
  BY <1>1, <1>2, FS_EmptySet DEF Init, DeliveryInv

\* Every step keeps the count of the notices.
LEMMA DeliveryStep == DeliveryInv /\ [Next]_vars => DeliveryInv'
<1> SUFFICES ASSUME DeliveryInv, [Next]_vars PROVE DeliveryInv'
  OBVIOUS
<1>1. HoldInv'
  BY HoldStep DEF DeliveryInv
<1>2. CASE \E f \in Fires : FireStep(f)
  BY <1>1, <1>2, QuietSteps, UnrecordedChanges, NotifyTells, MarkTells, Zenon DEF FireStep
<1>3. CASE holds' = holds /\ fire' = fire /\ notices' = notices
  BY <1>1, <1>3, SilentStep
<1>4. \/ \E f \in Fires : FireStep(f)
      \/ holds' = holds /\ fire' = fire /\ notices' = notices
  BY DEF Next, Press, DashboardRecords, DashboardChecks, FleetChanges, Tick, vars, graph
<1> QED
  BY <1>2, <1>3, <1>4

\* However many fires overlap and wherever one dies, a hold the graph records as
\* notified stands for a notice Telegram delivered: _notify_new_hold never
\* records a notice before the answer, and a lost answer leaves it unrecorded.
THEOREM DeliveredHolds == Spec => []NotifiedMeansDelivered
<1>1. ASSUME DeliveryInv PROVE NotifiedMeansDelivered
  <2> DEFINE recorded == {n \in DOMAIN holds : holds[n].notified}
  <2>1. recorded \subseteq Told
    BY RecordedTold, Zenon
  <2>2. Len(holds) \in Nat /\ Told \subseteq 1..Len(holds) /\ Cardinality(Told) \in Nat
    BY <1>1, ToldType DEF DeliveryInv
  <2> HIDE DEF recorded
  <2>3. Cardinality(recorded) \in Nat /\ Cardinality(recorded) <= Cardinality(Told)
    BY <2>1, <2>2, CountWithin
  <2>4. Cardinality(recorded) <= notices
    BY <1>1, <2>2, <2>3 DEF DeliveryInv
  <2> QED
    BY <2>4, Zenon DEF recorded, NotifiedMeansDelivered
<1> QED
  BY DeliveryInit, DeliveryStep, <1>1, PTL DEF Spec

----------------------------------------------------------------------------
(* A skip stands *)

Stamped == [source : {"telegram", "dashboard"}, n : Nat, answer : Answers, at : Nat]

\* The answers on record and the buttons not yet confirmed.
Stamps ==
  /\ answers \subseteq Stamped /\ IsFiniteSet(answers)
  /\ inbox \subseteq [n : Nat, answer : Answers] /\ IsFiniteSet(inbox)
  /\ presses \in Nat

\* Answer s is a skip that comes before every other, and every fire under way
\* began after it and has read nothing else.
SkipRules(s) ==
  /\ s.answer = "skip_today" /\ s.at < clock
  /\ \A b \in answers \ {s} : Precedes(s, b)
  /\ \A f \in Fires :
       /\ fire[f].pc \in {"off", "poll", "answer", "check"}
       /\ fire[f].pc # "off" => s.at < fire[f].now
       /\ fire[f].pc = "check" => fire[f].answer = "skip_today"

Skipped == request = "none" /\ \E s \in answers : SkipRules(s)

\* Recording the new buttons stamps each with the time of the fire.
LEMMA PollStamps ==
  ASSUME HoldInv, Stamps, NEW f \in Fires, Poll(f)
  PROVE  /\ Stamps'
         /\ \A a \in answers' : a \in answers \/ a.at = fire[f].now
<1> DEFINE G(u) == [source |-> "telegram", n |-> u.n, answer |-> u.answer, at |-> fire[f].now]
           new == {G(u) : u \in Unrecorded}
<1>1. fire[f].now \in Nat /\ presses' = presses
  BY OwnClaim DEF Poll, Runnings
<1>2. inbox' \subseteq inbox /\ answers' \in {answers, answers \cup new}
  BY DEF Poll
<1>3. Unrecorded \subseteq inbox
  BY DEF Unrecorded
<1>4. new \subseteq Stamped
  BY <1>1, <1>3 DEF Stamps, Stamped
<1>5. IsFiniteSet(Unrecorded) /\ IsFiniteSet(inbox')
  BY <1>2, <1>3, FS_Subset DEF Stamps
<1>6. IsFiniteSet(new)
  <2> DEFINE m == [u \in Unrecorded |-> G(u)]
  <2>1. m \in Surjection(Unrecorded, new)
    BY DEF Surjection
  <2> HIDE DEF m, new
  <2> QED
    BY <1>5, <2>1, FS_Surjection
<1>7. IsFiniteSet(answers \cup new)
  BY <1>6, FS_Union DEF Stamps
<1>8. \A a \in new : a.at = fire[f].now
  OBVIOUS
<1> HIDE DEF new
<1> QED
  BY <1>1, <1>2, <1>4, <1>5, <1>7, <1>8 DEF Stamps

\* So does the dashboard, with the clock.
LEMMA DashboardStamps ==
  ASSUME HoldInv, Stamps, NEW x \in Answers, DashboardRecords(x)
  PROVE  /\ Stamps'
         /\ \A a \in answers' : a \in answers \/ a.at = clock
<1> DEFINE new == [source |-> "dashboard", n |-> Cardinality(DashboardAnswers) + 1,
                   answer |-> x, at |-> clock]
<1>1. Cardinality(DashboardAnswers) \in Nat
  BY FS_Subset, FS_CardinalityType DEF DashboardAnswers, Stamps
<1>2. clock \in Nat
  BY DEF HoldInv, Shape, Facts
<1>3. new \in Stamped /\ new.at = clock
  BY <1>1, <1>2 DEF Stamped
<1>4. answers' = answers \cup {new} /\ UNCHANGED <<inbox, presses>>
  BY DEF DashboardRecords
<1> HIDE DEF new
<1>5. IsFiniteSet(answers \cup {new})
  BY FS_AddElement DEF Stamps
<1> QED
  BY <1>3, <1>4, <1>5 DEF Stamps

\* Every answer on record has a time, a number and a source.
LEMMA StampStep == HoldInv /\ Stamps /\ [Next]_vars => Stamps'
<1> SUFFICES ASSUME HoldInv, Stamps, [Next]_vars PROVE Stamps'
  OBVIOUS
<1> USE DEF graph, outside
<1>1. CASE \E f \in Fires : Poll(f)
  BY <1>1, PollStamps
<1>2. CASE \E x \in Answers : DashboardRecords(x)
  BY <1>2, DashboardStamps
<1>3. ASSUME NEW x \in Answers, Press(x) PROVE Stamps'
  <2> DEFINE u == [n |-> presses + 1, answer |-> x]
  <2>1. inbox' = inbox \cup {u} /\ presses' = presses + 1 /\ answers' = answers
    BY <1>3 DEF Press
  <2>2. u \in [n : Nat, answer : Answers]
    BY DEF Stamps
  <2> HIDE DEF u
  <2>3. IsFiniteSet(inbox \cup {u})
    BY FS_AddElement DEF Stamps
  <2> QED
    BY <2>1, <2>2, <2>3 DEF Stamps
<1>4. CASE UNCHANGED <<answers, inbox, presses>>
  BY <1>4 DEF Stamps
<1> QED
  BY <1>1, <1>2, <1>3, <1>4 DEF Next, FireStep, vars, Start, ReadAnswer, Check, Override,
     ReadReadiness, Release, Hold, Place, MarkDegraded, TellDegraded, NotifyHold,
     MarkNotified, Dies, DashboardChecks, FleetChanges, Tick

\* A skip that comes before every other answer is the effective one.
LEMMA SkipIsEffective ==
  ASSUME Stamps, NEW s \in answers, s.answer = "skip_today",
         \A b \in answers \ {s} : Precedes(s, b)
  PROVE  EffectiveAnswer = "skip_today"
<1> DEFINE first == {a \in answers : \A b \in answers \ {a} : Precedes(a, b)}
<1>1. s \in first
  OBVIOUS
<1>2. ASSUME NEW a \in first PROVE a = s
  <2>1. SUFFICES ASSUME a # s PROVE FALSE
    OBVIOUS
  <2>2. Precedes(a, s) /\ Precedes(s, a)
    BY <1>2, <2>1
  <2>3. a \in Stamped /\ s \in Stamped
    BY <1>2 DEF Stamps
  <2>4. a.at \in Nat /\ s.at \in Nat /\ a.n \in Nat /\ s.n \in Nat
    BY <2>3 DEF Stamped
  <2> QED
    BY <2>2, <2>4 DEF Precedes
<1>3. (CHOOSE a \in first : TRUE) \in first
  BY <1>1, Zenon
<1>4. EffectiveAnswer = IF first = {} THEN "none" ELSE (CHOOSE a \in first : TRUE).answer
  BY Zenon DEF EffectiveAnswer
<1> HIDE DEF first
<1> QED
  BY <1>1, <1>2, <1>3, <1>4

\* An answer stamped after the skip leaves the skip in front.
LEMMA LaterAnswers ==
  ASSUME NEW s \in answers, \A b \in answers \ {s} : Precedes(s, b), NEW t, s.at < t,
         \A a \in answers' : a \in answers \/ a.at = t
  PROVE  \A b \in answers' \ {s} : Precedes(s, b)
BY DEF Precedes

\* Nothing a fire, the operator or the fleet does lifts a skip that rules.
LEMMA SkipStep == HoldInv /\ Stamps /\ Skipped /\ [Next]_vars => Skipped'
<1> SUFFICES ASSUME HoldInv, Stamps, Skipped, [Next]_vars PROVE Skipped'
  OBVIOUS
<1> USE DEF graph, outside
<1>1. PICK s \in answers : SkipRules(s)
  BY DEF Skipped
<1>2. s.at \in Nat /\ clock \in Nat /\ EffectiveAnswer = "skip_today" /\ request = "none"
  BY <1>1, SkipIsEffective DEF Stamps, Stamped, HoldInv, Shape, Facts, SkipRules, Skipped
<1>3. \A f \in Fires : fire[f] \in Runnings /\ DOMAIN fire = Fires
  BY OwnClaim
<1>4. ASSUME NEW f \in Fires, NEW x, fire' = [fire EXCEPT ![f] = x],
             x.pc \in {"off", "poll", "answer", "check"},
             x.pc # "off" => s.at < x.now,
             x.pc = "check" => x.answer = "skip_today",
             clock' = clock, request' = "none", answers \subseteq answers',
             \A b \in answers' \ {s} : Precedes(s, b)
      PROVE  Skipped'
  <2>1. \A g \in Fires : fire'[g] = IF g = f THEN x ELSE fire[g]
    BY <1>3, <1>4
  <2>2. SkipRules(s)'
    BY <1>1, <1>4, <2>1 DEF SkipRules, Precedes
  <2> QED
    BY <1>4, <2>2 DEF Skipped
<1>5. ASSUME NEW f \in Fires, Ends(f), UNCHANGED <<clock, request, answers>>
      PROVE  Skipped'
  <2>1. Off.pc = "off"
    BY DEF Off
  <2> QED
    BY <1>1, <1>2, <1>4, <1>5, <2>1 DEF Ends, SkipRules
<1>6. ASSUME NEW f \in Fires, Start(f) PROVE Skipped'
  <2> DEFINE p == IF ActiveHold = NoHold THEN "answer" ELSE "poll"
             k == ActiveHold # NoHold /\ holds[ActiveHold].answered # "none"
             x == [Off EXCEPT !.pc = p, !.now = clock, !.hold = ActiveHold, !.known = k]
  <2>1. fire' = [fire EXCEPT ![f] = x] /\ UNCHANGED <<clock, request, answers>>
    BY <1>6 DEF Start
  <2>2. x.pc \in {"answer", "poll"} /\ x.now = clock
    BY DEF Off
  <2> HIDE DEF x
  <2> QED
    BY <1>1, <1>2, <1>4, <2>1, <2>2 DEF SkipRules
<1>7. ASSUME NEW f \in Fires, Poll(f) PROVE Skipped'
  <2> DEFINE x == [fire[f] EXCEPT !.pc = "answer"]
  <2>1. /\ fire' = [fire EXCEPT ![f] = x] /\ UNCHANGED <<clock, request>>
        /\ answers \subseteq answers' /\ fire[f].pc = "poll"
    BY <1>7 DEF Poll, Goto
  <2>2. x.pc = "answer" /\ x.now = fire[f].now
    BY <1>3 DEF Runnings
  <2>3. s.at < fire[f].now
    BY <1>1, <2>1 DEF SkipRules
  <2>4. \A b \in answers' \ {s} : Precedes(s, b)
    BY <1>1, <1>7, <2>3, PollStamps, LaterAnswers DEF SkipRules
  <2> HIDE DEF x
  <2> QED
    BY <1>2, <1>4, <2>1, <2>2, <2>3, <2>4
<1>8. ASSUME NEW f \in Fires, ReadAnswer(f) PROVE Skipped'
  <2> DEFINE x == [fire[f] EXCEPT !.pc = "check", !.answer = EffectiveAnswer]
  <2>1. /\ Ends(f) \/ fire' = [fire EXCEPT ![f] = x]
        /\ UNCHANGED <<clock, request, answers>> /\ fire[f].pc = "answer"
    BY <1>8 DEF ReadAnswer
  <2>2. x.pc = "check" /\ x.now = fire[f].now /\ x.answer = "skip_today"
    BY <1>2, <1>3 DEF Runnings
  <2>3. s.at < fire[f].now /\ \A b \in answers \ {s} : Precedes(s, b)
    BY <1>1, <2>1 DEF SkipRules
  <2> HIDE DEF x
  <2> QED
    BY <1>2, <1>4, <1>5, <2>1, <2>2, <2>3
<1>9. ASSUME NEW f \in Fires, Check(f) \/ Dies(f) PROVE Skipped'
  <2>1. fire[f].pc = "check" => fire[f].answer = "skip_today"
    BY <1>1 DEF SkipRules
  <2>2. Ends(f) /\ UNCHANGED <<clock, request, answers>>
    BY <1>2, <1>9, <2>1 DEF Check, Dies
  <2> QED
    BY <1>5, <2>2
<1>10. ASSUME NEW f \in Fires,
              \/ Override(f) \/ ReadReadiness(f) \/ Release(f) \/ Hold(f) \/ Place(f)
              \/ MarkDegraded(f) \/ TellDegraded(f) \/ NotifyHold(f) \/ MarkNotified(f)
       PROVE  FALSE
  <2>1. fire[f].pc \in {"off", "poll", "answer", "check"}
    BY <1>1 DEF SkipRules
  <2> QED
    BY <1>10, <2>1 DEF Override, ReadReadiness, Release, Hold, Place, MarkDegraded,
       TellDegraded, NotifyHold, MarkNotified
<1>11. ASSUME NEW a \in Answers, DashboardRecords(a) PROVE Skipped'
  <2>1. UNCHANGED <<clock, request, fire>> /\ answers \subseteq answers'
    BY <1>11 DEF DashboardRecords
  <2>2. \A b \in answers' \ {s} : Precedes(s, b)
    BY <1>1, <1>11, DashboardStamps, LaterAnswers DEF SkipRules
  <2>3. SkipRules(s)'
    BY <1>1, <2>1, <2>2 DEF SkipRules, Precedes
  <2> QED
    BY <1>2, <2>1, <2>3 DEF Skipped
<1>12. CASE UNCHANGED <<request, answers, fire>> /\ clock' \in {clock, clock + 1}
  <2>1. SkipRules(s)'
    BY <1>1, <1>2, <1>12 DEF SkipRules, Precedes
  <2> QED
    BY <1>2, <1>12, <2>1 DEF Skipped
<1>13. CASE \/ \E a \in Answers : Press(a)
            \/ DashboardChecks \/ FleetChanges \/ Tick \/ UNCHANGED vars
  BY <1>12, <1>13 DEF Press, DashboardChecks, FleetChanges, Tick, vars
<1> QED
  BY <1>6, <1>7, <1>8, <1>9, <1>10, <1>11, <1>13 DEF Next, FireStep

\* Once a skip is the effective answer, recorded before now with nothing under
\* way, no answer, recovery or overlapping fire starts the day's run.
THEOREM SkipHolds == Spec => SkipStands
<1> DEFINE Inv == HoldInv /\ Stamps
           Asked == /\ Quiet /\ request = "none" /\ EffectiveAnswer = "skip_today"
                    /\ \A a \in answers : a.at < clock
<1>1. Init => Inv
  BY HoldInit, FS_EmptySet DEF Init, Stamps
<1>2. Inv /\ [Next]_vars => Inv'
  BY HoldStep, StampStep
<1>3. Inv /\ Asked => Skipped
  <2> SUFFICES ASSUME Inv, Asked PROVE Skipped
    OBVIOUS
  <2> DEFINE first == {a \in answers : \A b \in answers \ {a} : Precedes(a, b)}
  <2>1. EffectiveAnswer = IF first = {} THEN "none" ELSE (CHOOSE a \in first : TRUE).answer
    BY Zenon DEF EffectiveAnswer
  <2>2. first # {} => (CHOOSE a \in first : TRUE) \in first
    BY Zenon
  <2>3. PICK s \in first : s.answer = "skip_today"
    BY <2>1, <2>2
  <2>4. SkipRules(s)
    BY <2>3 DEF SkipRules, Quiet
  <2> QED
    BY <2>3, <2>4 DEF Skipped
<1>4. Inv /\ Skipped /\ [Next]_vars => Skipped'
  BY SkipStep
<1>5. Skipped => request = "none"
  BY DEF Skipped
<1> QED
  BY <1>1, <1>2, <1>3, <1>4, <1>5, PTL DEF Spec, SkipStands

=============================================================================
