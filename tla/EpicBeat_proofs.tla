-------------------------- MODULE EpicBeat_proofs ---------------------------
(***************************************************************************)
(* Proofs about the epic beat, for any finite set of cards, any ceilings,  *)
(* and any number of upsets.                                               *)
(***************************************************************************)
EXTENDS EpicBeat, FiniteSetTheorems, FunctionTheorems, SequenceTheorems, TLAPS

(***************************************************************************)
(* The steps a beat may have left.  Only some are ever planned: a wake, an *)
(* adoption and an append follow from the step before them, and releasing  *)
(* the lease and forgetting the epic from settling the run.                *)
(***************************************************************************)
Ops == {"take", "wake", "adopt", "dispatch", "verify", "append",
        "park", "complete", "release", "forget"}
Steps == [op : Ops, card : Cards \cup {NoCard}, conv : Convs \cup {NoConv},
          gen : 0..MaxGens, alive : BOOLEAN]
Good == {s \in Steps : /\ s.op = "take" => s.gen < MaxGens
                       /\ s.op \in {"dispatch", "verify", "append"} => s.card \in Cards
                       /\ s.op \in {"adopt", "append"} => s.conv \in Convs}
Planned == {s \in Good : s.op \in {"take", "dispatch", "verify", "park", "complete"}}
Settling == {"release", "forget"}

TodoOK(q) == q \in Seq(Good) /\ (q # <<>> => Tail(q) \in Seq(Planned))

Groups == [known : SUBSET Convs, live : SUBSET Convs, reaped : SUBSET Convs,
           inFlight : SUBSET Cards, inVerify : SUBSET Cards,
           settled : SUBSET Cards, unspawnable : SUBSET Cards]
BeatOK(b) == /\ b \in [pc : {"idle", "read", "act"}, group : Groups, todo : Seq(Good)]
             /\ TodoOK(b.todo)
             /\ (b.pc = "act") = (b.todo # <<>>)

SeatRecs == [gen : 0..MaxGens, tag : BOOLEAN, out : BOOLEAN,
             st : {"launching", "up", "silent", "lost"}] \cup {Over}
Standing(i) == i \in Convs /\ seats[i].st \in {"launching", "up", "silent"}

(***************************************************************************)
(* The inductive invariants.                                               *)
(***************************************************************************)
DataInv ==
  /\ run \in [status : {"armed", "running", "paused", "complete"}, dry : 0..1, over : BOOLEAN]
  /\ armed \in BOOLEAN /\ crossed \in BOOLEAN
  /\ lease \in [conv : Convs \cup {NoConv, Placeholder}, gen : 0..MaxGens,
                at : {"none", "fresh", "aged"}]
  /\ log \in [acked : SUBSET Cards, dispatched : [Cards -> 0..MaxCardSeats], held : SUBSET Convs]
  /\ board \in [Cards -> Lanes]
  /\ past \in [Cards -> [ran : 0..MaxLaunchAttempts, out : BOOLEAN]]
  /\ upsets \in 0..MaxUpsets
SeatInv == /\ seats \in [Convs -> SeatRecs]
           /\ \A i \in slipped \cup cleared : Standing(i)
TypeInv == DataInv /\ SeatInv /\ BeatOK(beat)

\* What a beat that acts relies on: somebody watches the run, and what stands down
\* is a run that is over.
ArmInv ==
  /\ LiveRunIsArmed
  /\ beat.pc = "act" => armed \/ crossed
  /\ (beat.pc = "act" /\ Head(beat.todo).op \in {"release", "forget"})
        => isInertRun(run.status) \/ crossed

(***************************************************************************)
(* Lemmas: sequences of steps.                                             *)
(***************************************************************************)
\* What is planned may be done.
LEMMA PlannedIsGood == Planned \subseteq Good /\ Seq(Planned) \subseteq Seq(Good)
<1>1. Planned \subseteq Good
  BY DEF Planned
<1> QED BY <1>1

\* A plan may be what is left of a beat ...
LEMMA PlanIsTodo ==
  ASSUME NEW q \in Seq(Planned)
  PROVE  TodoOK(q)
<1>1. q # <<>> => Tail(q) \in Seq(Planned)
  BY HeadTailProperties
<1> QED BY <1>1, PlannedIsGood DEF TodoOK

\* ... and so may a plan behind one more step.
LEMMA StepAhead ==
  ASSUME NEW s \in Good, NEW q \in Seq(Planned)
  PROVE  /\ TodoOK(<<s>> \o q)
         /\ <<s>> \o q # <<>>
         /\ Head(<<s>> \o q) = s
<1>1. q \in Seq(Good)
  BY PlannedIsGood
<1>2. <<s>> \o q \in Seq(Good) /\ <<s>> \o q # <<>> /\ Head(<<s>> \o q) = s
  BY <1>1
<1>3. Tail(<<s>> \o q) = q
  BY <1>1
<1> QED BY <1>2, <1>3 DEF TodoOK

\* Steps that come one at a time.
LEMMA OneStep ==
  ASSUME NEW s \in Good
  PROVE  TodoOK(<<s>>) /\ <<s>> # <<>> /\ Head(<<s>>) = s
<1>1. <<s>> \in Seq(Good) /\ Tail(<<s>>) = <<>> /\ <<>> \in Seq(Planned)
  OBVIOUS
<1> QED BY <1>1 DEF TodoOK

\* A beat goes on with what is left, and rests when nothing is.
LEMMA ThenTyped ==
  ASSUME NEW q, TodoOK(q)
  PROVE  /\ BeatOK(Then(q))
         /\ Then(q).todo = q
         /\ (Then(q).pc = "act") = (q # <<>>)
<1>1. EmptyGroup \in Groups
  BY DEF EmptyGroup, Groups
<1>2. TodoOK(<<>>)
  BY DEF TodoOK
<1>3. CASE q = <<>>
  BY <1>1, <1>2, <1>3 DEF Then, Resting, BeatOK
<1>4. CASE q # <<>>
  BY <1>1, <1>4 DEF Then, BeatOK, TodoOK
<1> QED BY <1>3, <1>4

LEMMA RestingTyped == BeatOK(Resting) /\ Resting.pc # "act"
<1>1. EmptyGroup \in Groups /\ TodoOK(<<>>)
  BY DEF EmptyGroup, Groups, TodoOK
<1> QED BY <1>1 DEF BeatOK, Resting

\* The step a beat performs, and what comes after it.
LEMMA CurrentTyped ==
  ASSUME BeatOK(beat), beat.pc = "act"
  PROVE  Current \in Good /\ Rest \in Seq(Planned) /\ TodoOK(Rest)
<1>1. beat.todo \in Seq(Good) /\ beat.todo # <<>> /\ Tail(beat.todo) \in Seq(Planned)
  BY DEF BeatOK, TodoOK
<1>2. Head(beat.todo) \in Good
  BY <1>1
<1> QED BY <1>1, <1>2, PlanIsTodo DEF Current, Rest

(***************************************************************************)
(* Lemmas: the decision.                                                   *)
(***************************************************************************)
\* A step without a card that may be planned.
LEMMA DoTyped ==
  ASSUME DataInv, NEW op \in Ops, op \notin {"dispatch", "verify", "append", "adopt"},
         op = "take" => lease.gen < MaxGens
  PROVE  Do(op) \in Good
<1>1. lease.gen \in 0..MaxGens
  BY DEF DataInv
<1>2. Do(op) \in Steps /\ Do(op).op = op /\ Do(op).gen = lease.gen
  BY <1>1 DEF Do, Steps
<1> QED BY <1>2 DEF Good

LEMMA WakeTyped ==
  ASSUME DataInv, NEW g, lease.gen < MaxGens
  PROVE  Wake(g) \in Seq(Planned)
<1>1. holderIsAlive(g) \in BOOLEAN
  <2>1. (g.live # {}) \in BOOLEAN /\ (lease.conv \in g.live) \in BOOLEAN
    BY SMT
  <2> QED BY <2>1, Zenon DEF holderIsAlive
<1> DEFINE s == [Do("take") EXCEPT !.alive = holderIsAlive(g)]
<1>2. lease.gen \in 0..MaxGens
  BY DEF DataInv
<1>3. s \in Steps /\ s.op = "take" /\ s.gen = lease.gen
  BY <1>1, <1>2 DEF Do, Steps, Ops
<1>4. s \in Planned
  BY <1>3 DEF Planned, Good
<1> QED BY <1>4 DEF Wake

\* One step per card, in some order.
LEMMA StepsForTyped ==
  ASSUME DataInv, NEW op \in {"dispatch", "verify"}, NEW S \in SUBSET Cards,
         NEW q \in StepsFor(op, S)
  PROVE  q \in Seq(Planned)
<1> DEFINE T == {[Do(op) EXCEPT !.card = c] : c \in S}
<1>1. IsFiniteSet(S)
  BY FS_Subset, BeatAssumption
<1>2. Cardinality(S) \in Nat
  BY <1>1, FS_CardinalityType
<1>3. lease.gen \in 0..MaxGens
  BY DEF DataInv
<1>4. ASSUME NEW c \in S PROVE [Do(op) EXCEPT !.card = c] \in Planned
  <2>1. [Do(op) EXCEPT !.card = c] \in Steps
    BY <1>3 DEF Do, Steps, Ops
  <2>2. [Do(op) EXCEPT !.card = c].op = op /\ [Do(op) EXCEPT !.card = c].card = c
    BY DEF Do
  <2> QED BY <2>1, <2>2 DEF Planned, Good
<1>5. T \subseteq Planned
  BY <1>4
<1>6. q \in [1..Cardinality(S) -> T]
  BY DEF StepsFor
<1> HIDE DEF T
<1>7. q \in [1..Cardinality(S) -> Planned]
  BY <1>5, <1>6
<1> QED BY <1>2, <1>7

\* Every decision is a plan, and counts at most one dry beat.
LEMMA DecideTyped ==
  ASSUME DataInv, NEW g, NEW shut \in BOOLEAN, NEW d \in decide(g, shut)
  PROVE  d.todo \in Seq(Planned) /\ d.dry \in 0..1
<1>1. run.dry \in 0..1 /\ lease.gen \in 0..MaxGens /\ MaxGens \in Nat
  BY BeatAssumption DEF DataInv
<1>2. ASSUME NEW q \in Seq(Planned), NEW n \in 0..1, d = Decision(q, n)
      PROVE  d.todo \in Seq(Planned) /\ d.dry \in 0..1
  BY <1>2 DEF Decision
<1>3. ASSUME NEW op \in {"park", "complete"} PROVE <<Do(op)>> \in Seq(Planned)
  <2>1. Do(op) \in Good /\ Do(op).op = op
    BY DoTyped DEF Ops, Do
  <2>2. Do(op) \in Planned
    BY <2>1 DEF Planned
  <2> QED BY <2>2
<1>4. <<>> \in Seq(Planned)
  OBVIOUS
<1>5. CASE capBeat
  <2>1. d = Decision(<<Do("park")>>, run.dry)
    BY <1>5 DEF decide
  <2> QED BY <1>1, <1>2, <1>3, <2>1
<1>6. CASE ~capBeat
  <2>1. Wake(g) \in Seq(Planned)
    BY <1>1, <1>6, WakeTyped DEF capBeat
  <2>2. CASE werkMasterGate(g)
    <3>1. d = Decision(<<>>, run.dry)
      BY <1>6, <2>2 DEF decide
    <3> QED BY <1>1, <1>2, <1>4, <3>1
  <2>3. CASE ~werkMasterGate(g) /\ guardBeat(g)
    BY <1>1, <1>2, <1>6, <2>1, <2>3 DEF decide
  <2>4. CASE ~werkMasterGate(g) /\ ~guardBeat(g)
    <3>1. d \in workBeat(g, shut)
      BY <1>6, <2>4 DEF decide
    <3>2. Verify(g) \in SUBSET Cards /\ Ready(g) \in SUBSET Cards
      BY DEF Verify, Ready
    <3>3. ASSUME NEW v \in StepsFor("verify", Verify(g)) PROVE v \in Seq(Planned)
      BY <3>2, StepsForTyped
    <3>4. CASE shut
      <4>1. PICK v \in StepsFor("verify", Verify(g)) : d = Decision(v, run.dry)
        BY <3>1, <3>4 DEF workBeat
      <4> QED BY <1>1, <1>2, <3>3, <4>1
    <3>5. CASE ~shut
      <4>1. d \in movedBeat(g)
        BY <3>1, <3>5 DEF workBeat
      <4>2. ASSUME NEW m \in WorkSteps(g) PROVE m \in Seq(Planned)
        <5> DEFINE D == UNION {StepsFor("dispatch", S) : S \in Dispatches(g)}
        <5>1. PICK v \in StepsFor("verify", Verify(g)) : m \in {v \o w : w \in D}
          BY <4>2, Zenon DEF WorkSteps
        <5>2. PICK w \in D : m = v \o w
          BY <5>1, Zenon
        <5>3. PICK S \in Dispatches(g) : w \in StepsFor("dispatch", S)
          BY <5>2, Zenon
        <5>4. S \in SUBSET Cards
          BY <3>2, <5>3 DEF Dispatches
        <5> HIDE DEF D
        <5>5. w \in Seq(Planned)
          BY <5>3, <5>4, StepsForTyped
        <5>6. v \in Seq(Planned)
          BY <3>3, <5>1
        <5> QED BY <5>2, <5>5, <5>6, ConcatProperties
      <4>3. CASE WorkSteps(g) # {<<>>}
        <5>1. PICK m \in WorkSteps(g) : d = Decision(m, 0)
          BY <4>1, <4>3, Zenon DEF movedBeat
        <5> QED BY <1>2, <4>2, <5>1
      <4>4. CASE WorkSteps(g) = {<<>>}
        <5>1. \/ d = Decision(<<Do("complete")>>, run.dry)
              \/ d = Decision(<<>>, run.dry)
              \/ d = Decision(<<Do("park")>>, run.dry)
              \/ ~(run.dry >= 1) /\ d = Decision(Wake(g), run.dry + 1)
          BY <4>1, <4>4, Zenon DEF movedBeat
        <5>2. ~(run.dry >= 1) => run.dry + 1 \in 0..1
          BY <1>1
        <5> QED BY <1>1, <1>2, <1>3, <1>4, <2>1, <5>1, <5>2
      <4> QED BY <4>3, <4>4
    <3> QED BY <3>4, <3>5
  <2> QED BY <2>2, <2>3, <2>4
<1> QED BY <1>5, <1>6

(***************************************************************************)
(* Types.                                                                  *)
(***************************************************************************)
\* The lanes name conversations and cards.
LEMMA GroupTyped ==
  ASSUME SeatInv
  PROVE  groupEpicConversations \in Groups
<1>1. Registered \subseteq Convs /\ Masters \subseteq Convs
  BY DEF Registered, Masters, Seats
<1> QED BY <1>1 DEF groupEpicConversations, Groups

\* An upset, or none, leaves the count in its range.
LEMMA UpsetTyped ==
  ASSUME upsets \in 0..MaxUpsets, NEW kind,
         Upset(kind) \/ (\E happens \in BOOLEAN : UpsetIf(happens, kind)) \/ UNCHANGED upsets
  PROVE  upsets' \in 0..MaxUpsets
<1>1. MaxUpsets \in Nat
  BY BeatAssumption
<1>2. ASSUME Upset(kind) PROVE upsets' \in 0..MaxUpsets
  BY <1>1, <1>2 DEF Upset
<1> QED BY <1>2 DEF UpsetIf

\* The changes of a seat's record.
LEMMA RecordTyped ==
  ASSUME NEW r \in SeatRecs, r.st # "over"
  PROVE  /\ [r EXCEPT !.tag = FALSE] \in SeatRecs /\ [r EXCEPT !.tag = FALSE].st = r.st
         /\ [r EXCEPT !.out = TRUE] \in SeatRecs /\ [r EXCEPT !.out = TRUE].st = r.st
         /\ [r EXCEPT !.st = "up"] \in SeatRecs /\ [r EXCEPT !.st = "up"].st = "up"
         /\ [r EXCEPT !.st = "silent"] \in SeatRecs /\ [r EXCEPT !.st = "silent"].st = "silent"
<1>1. r \in [gen : 0..MaxGens, tag : BOOLEAN, out : BOOLEAN,
             st : {"launching", "up", "silent", "lost"}]
  BY DEF SeatRecs, Over
<1> QED BY <1>1 DEF SeatRecs

LEMMA GoneTyped == Over \in SeatRecs /\ Lost \in SeatRecs /\ Lost.st = "lost" /\ Over.st = "over"
<1>1. 0 \in 0..MaxGens
  BY BeatAssumption
<1> QED BY <1>1 DEF SeatRecs, Over, Lost

\* A seat that changes keeps its record a seat's record, and stays in sight or in
\* the history only while it stands.
LEMMA SeatChanges ==
  ASSUME SeatInv, NEW i \in Convs, NEW r \in SeatRecs, seats' = [seats EXCEPT ![i] = r],
         slipped' \cup cleared' \subseteq slipped \cup cleared \cup {i},
         r.st \in {"launching", "up", "silent"} \/ i \notin slipped' \cup cleared'
  PROVE  SeatInv'
<1>1. seats' \in [Convs -> SeatRecs]
  BY DEF SeatInv
<1>2. ASSUME NEW j \in slipped' \cup cleared' PROVE Standing(j)'
  <2>1. CASE j = i
    BY <1>2, <2>1 DEF SeatInv, Standing
  <2>2. CASE j # i
    <3>1. Standing(j)
      BY <1>2, <2>2 DEF SeatInv
    <3> QED BY <2>2, <3>1 DEF SeatInv, Standing
  <2> QED BY <2>1, <2>2
<1> QED BY <1>1, <1>2 DEF SeatInv

\* No seat changes, and the history gains only seats that stand.
LEMMA SeatsStay ==
  ASSUME SeatInv, seats' = seats,
         \A i \in (slipped' \cup cleared') \ (slipped \cup cleared) : i \in Convs /\ Running(i)
  PROVE  SeatInv'
<1>1. ASSUME NEW i \in slipped' \cup cleared' PROVE Standing(i)'
  BY <1>1 DEF SeatInv, Standing, Running
<1> QED BY <1>1 DEF SeatInv

\* Another status, or another lease, of the same type.
LEMMA RunTyped ==
  ASSUME DataInv, NEW s \in {"armed", "running", "paused", "complete"}
  PROVE  [run EXCEPT !.status = s]
            \in [status : {"armed", "running", "paused", "complete"}, dry : 0..1, over : BOOLEAN]
  BY DEF DataInv

LEMMA InitTyped == Init => TypeInv
<1> SUFFICES ASSUME Init PROVE TypeInv
  OBVIOUS
<1>1. DataInv
  <2>1. MaxGens \in Nat /\ MaxCardSeats \in Nat /\ MaxLaunchAttempts \in Nat /\ MaxUpsets \in Nat
    BY BeatAssumption
  <2>2. run \in [status : {"armed", "running", "paused", "complete"}, dry : 0..1, over : BOOLEAN]
    BY DEF Init
  <2>3. armed \in BOOLEAN /\ crossed \in BOOLEAN
    BY DEF Init
  <2>4. lease \in [conv : Convs \cup {NoConv, Placeholder}, gen : 0..MaxGens,
                   at : {"none", "fresh", "aged"}]
    BY <2>1 DEF Init
  <2>5. log \in [acked : SUBSET Cards, dispatched : [Cards -> 0..MaxCardSeats], held : SUBSET Convs]
    BY <2>1 DEF Init
  <2>6. board \in [Cards -> Lanes] /\ past \in [Cards -> [ran : 0..MaxLaunchAttempts, out : BOOLEAN]]
    BY <2>1 DEF Init, Lanes
  <2>7. upsets \in 0..MaxUpsets
    BY <2>1 DEF Init
  <2> QED BY <2>2, <2>3, <2>4, <2>5, <2>6, <2>7 DEF DataInv
<1>2. SeatInv
  BY DEF Init, SeatInv, SeatRecs
<1> QED BY <1>1, <1>2, RestingTyped DEF Init, TypeInv

(***************************************************************************)
(* The beat keeps its types.                                               *)
(***************************************************************************)
LEMMA SweepTyped == ASSUME TypeInv, sweepEpics PROVE TypeInv'
<1>1. DataInv'
  BY DEF TypeInv, DataInv, sweepEpics, history
<1>2. SeatInv'
  <2>1. seats' \in [Convs -> SeatRecs]
    BY DEF TypeInv, SeatInv, sweepEpics, SeatRecs
  <2>2. ASSUME NEW i \in slipped \cup cleared PROVE Standing(i)'
    BY <2>2 DEF TypeInv, SeatInv, sweepEpics, Standing
  <2> QED BY <2>1, <2>2 DEF SeatInv, sweepEpics, history
<1>3. BeatOK(beat')
  <2>1. groupEpicConversations \in Groups
    BY GroupTyped DEF TypeInv
  <2>2. beat.todo = <<>>
    BY DEF TypeInv, BeatOK, sweepEpics
  <2> QED BY <2>1, <2>2 DEF TypeInv, BeatOK, sweepEpics
<1> QED BY <1>1, <1>2, <1>3 DEF TypeInv

LEMMA RunBeatTyped == ASSUME TypeInv, runEpicBeat PROVE TypeInv'
<1>1. CASE isInertRun(run.status)
  <2>1. DataInv' /\ beat' = Resting /\ seats' = seats /\ slipped' = slipped /\ cleared' = cleared
    BY <1>1 DEF TypeInv, DataInv, runEpicBeat
  <2>2. SeatInv'
    BY <2>1, SeatsStay DEF TypeInv
  <2> QED BY <2>1, <2>2, RestingTyped DEF TypeInv
<1>2. CASE ~isInertRun(run.status)
  <2> DEFINE g == beat.group
  <2>1. PICK acks \in SUBSET unacknowledgedCards(g), shut \in BOOLEAN :
          /\ UpsetIf(shut \/ acks # unacknowledgedCards(g), IF shut THEN "shut" ELSE "unread")
          /\ log' = [log EXCEPT !.acked = @ \cup acks,
                                !.held = {i \in @ : i.card \notin acks}]
          /\ cleared' = cleared \cup {i \in log.held \ g.known : Running(i) /\ i.card \in acks}
          /\ \E d \in decide(g, shut) : beat' = Then(d.todo) /\ run' = [run EXCEPT !.dry = d.dry]
    BY <1>2 DEF runEpicBeat
  <2>2. PICK d \in decide(g, shut) : beat' = Then(d.todo) /\ run' = [run EXCEPT !.dry = d.dry]
    BY <2>1
  <2>3. UNCHANGED <<armed, lease, board, seats, past, slipped, crossed>>
    BY DEF runEpicBeat
  <2>4. d.todo \in Seq(Planned) /\ d.dry \in 0..1
    BY <2>2, DecideTyped DEF TypeInv
  <2>5. acks \subseteq Cards
    BY <2>1 DEF TypeInv, BeatOK, Groups, unacknowledgedCards
  <2>6. upsets' \in 0..MaxUpsets
    BY <2>1, UpsetTyped DEF TypeInv, DataInv
  <2>7. run' \in [status : {"armed", "running", "paused", "complete"}, dry : 0..1, over : BOOLEAN]
    BY <2>2, <2>4 DEF TypeInv, DataInv
  <2>8. log' \in [acked : SUBSET Cards, dispatched : [Cards -> 0..MaxCardSeats], held : SUBSET Convs]
    BY <2>1, <2>5 DEF TypeInv, DataInv
  <2>9. DataInv'
    BY <2>3, <2>6, <2>7, <2>8 DEF TypeInv, DataInv
  <2>10. SeatInv'
    <3>1. log.held \subseteq Convs
      BY DEF TypeInv, DataInv
    <3> QED BY <2>1, <2>3, <3>1, SeatsStay DEF TypeInv
  <2>11. BeatOK(beat')
    BY <2>2, <2>4, PlanIsTodo, ThenTyped
  <2> QED BY <2>9, <2>10, <2>11 DEF TypeInv
<1> QED BY <1>1, <1>2

\* What a step that has work to do next leaves behind.
LEMMA CarriesOn ==
  ASSUME TypeInv, beat.pc = "act",
         \/ beat' = Then(Rest)
         \/ \E s \in Good : beat' = Then(<<s>> \o Rest)
         \/ \E s \in Good : beat' = Then(<<s>>)
         \/ beat' = Resting
  PROVE  BeatOK(beat')
<1>1. Rest \in Seq(Planned) /\ TodoOK(Rest)
  BY CurrentTyped DEF TypeInv
<1>2. ASSUME NEW s \in Good PROVE TodoOK(<<s>> \o Rest) /\ TodoOK(<<s>>)
  BY <1>1, StepAhead, OneStep
<1> QED BY <1>1, <1>2, ThenTyped, RestingTyped

LEMMA TakeTyped == ASSUME TypeInv, takeLease PROVE TypeInv'
<1>1. beat.pc = "act" /\ Current.op = "take" /\ Current \in Good
  BY CurrentTyped DEF takeLease, Performing, TypeInv
<1>2. SeatInv'
  BY SeatsStay DEF takeLease, TypeInv, history
<1>3. CASE evaluateLease(Current)
  <2> DEFINE s == [Current EXCEPT !.op = "wake", !.gen = lease.gen + 1]
  <2>1. lease.gen = Current.gen /\ Current.gen < MaxGens /\ lease.gen \in 0..MaxGens
    BY <1>1, <1>3 DEF evaluateLease, Good, TypeInv, DataInv
  <2>2. lease.gen + 1 \in 0..MaxGens
    BY <2>1, BeatAssumption
  <2>3. s \in Good
    BY <1>1, <2>2 DEF Good, Steps, Ops
  <2>4. beat' = Then(<<s>> \o Rest) /\ lease' = [conv |-> Placeholder, gen |-> lease.gen + 1, at |-> "fresh"]
         /\ run' = [run EXCEPT !.status = "running"]
    BY <1>3 DEF takeLease
  <2>5. DataInv'
    BY <2>2, <2>4, RunTyped DEF TypeInv, DataInv, takeLease, history
  <2> QED BY <1>1, <1>2, <2>3, <2>4, <2>5, CarriesOn DEF TypeInv
<1>4. CASE ~evaluateLease(Current)
  <2>1. beat' = Then(Rest) /\ DataInv'
    BY <1>4 DEF takeLease, TypeInv, DataInv, history
  <2> QED BY <1>1, <1>2, <2>1, CarriesOn DEF TypeInv
<1> QED BY <1>3, <1>4

\* A spawn that answers, is refused, or is given up.
LEMMA SpawnTyped ==
  ASSUME TypeInv, beat.pc = "act", NEW role, NEW next \in {"adopt", "append"},
         Current.op \in {"wake", "dispatch", "verify"},
         next = "append" => Current.card \in Cards,
         dispatchSpawn(role, next),
         UNCHANGED <<run, armed, lease, log, board, past, cleared, crossed>>
  PROVE  TypeInv'
<1>1. Current \in Good /\ TodoOK(Rest)
  BY CurrentTyped DEF TypeInv
<1>2. upsets' \in 0..MaxUpsets
  BY UpsetTyped DEF dispatchSpawn, TypeInv, DataInv
<1>3. DataInv'
  BY <1>2 DEF TypeInv, DataInv
<1>4. CASE Upset("refused") /\ beat' = Then(Rest) /\ UNCHANGED <<seats, slipped>>
  <2>1. SeatInv'
    BY <1>4, SeatsStay DEF TypeInv
  <2> QED BY <1>3, <1>4, <2>1, CarriesOn DEF TypeInv
<1>5. CASE ~(Upset("refused") /\ beat' = Then(Rest) /\ UNCHANGED <<seats, slipped>>)
  <2>1. PICK new \in Free(role) :
          /\ seats' = [seats EXCEPT ![new] = Seat(role)]
          /\ \/ beat' = Then(<<[Current EXCEPT !.op = next, !.conv = new]>> \o Rest)
                /\ UNCHANGED slipped
             \/ beat' = Then(Rest) /\ slipped' = slipped \cup {new}
    BY <1>5 DEF dispatchSpawn
  <2>2. new \in Convs
    BY <2>1 DEF Free
  <2>3. Seat(role) \in SeatRecs /\ Seat(role).st = "launching"
    <3>1. Current.gen \in 0..MaxGens /\ 0 \in 0..MaxGens
      BY <1>1, BeatAssumption DEF Good, Steps
    <3> QED BY <3>1 DEF Seat, SeatRecs
  <2>4. SeatInv'
    BY <2>1, <2>2, <2>3, SeatChanges DEF TypeInv
  <2>5. [Current EXCEPT !.op = next, !.conv = new] \in Good
    BY <1>1, <2>2 DEF Good, Steps, Ops
  <2> QED BY <1>3, <2>1, <2>4, <2>5, CarriesOn DEF TypeInv
<1> QED BY <1>4, <1>5

LEMMA PerformTyped == ASSUME TypeInv, Perform PROVE TypeInv'
<1>1. CASE takeLease
  BY <1>1, TakeTyped
<1>2. CASE wakeWerkMaster
  BY <1>2, SpawnTyped DEF wakeWerkMaster, Performing
<1>3. CASE adoptLease
  <2>1. beat.pc = "act" /\ Current \in Good /\ Current.op = "adopt" /\ beat' = Then(Rest)
    BY <1>3, CurrentTyped DEF adoptLease, Performing, TypeInv
  <2>2. Current.conv \in Convs
    BY <2>1 DEF Good
  <2>3. lease' \in [conv : Convs \cup {NoConv, Placeholder}, gen : 0..MaxGens,
                     at : {"none", "fresh", "aged"}]
    BY <1>3, <2>2 DEF adoptLease, TypeInv, DataInv
  <2>4. DataInv'
    BY <1>3, <2>3, RunTyped DEF adoptLease, TypeInv, DataInv, history
  <2>5. SeatInv'
    BY <1>3, SeatsStay DEF adoptLease, TypeInv, history
  <2> QED BY <2>1, <2>4, <2>5, CarriesOn DEF TypeInv
<1>4. CASE spawnForCard
  <2>1. beat.pc = "act" /\ Current \in Good /\ Current.op \in {"dispatch", "verify"}
    BY <1>4, CurrentTyped DEF spawnForCard, Performing, TypeInv
  <2>2. Current.card \in Cards
    BY <2>1 DEF Good
  <2> QED BY <1>4, <2>1, <2>2, SpawnTyped DEF spawnForCard
<1>5. CASE appendDispatch
  <2>1. beat.pc = "act" /\ Current \in Good /\ Current.op = "append" /\ beat' = Then(Rest)
    BY <1>5, CurrentTyped DEF appendDispatch, Performing, TypeInv
  <2>2. Current.card \in Cards /\ Current.conv \in Convs
    BY <2>1 DEF Good
  <2>3. MaxCardSeats \in Nat /\ log.dispatched[Current.card] \in 0..MaxCardSeats
    BY <2>2, BeatAssumption DEF TypeInv, DataInv
  <2>4. Least(log.dispatched[Current.card] + 1, MaxCardSeats) \in 0..MaxCardSeats
    BY <2>3 DEF Least
  <2>5. log' \in [acked : SUBSET Cards, dispatched : [Cards -> 0..MaxCardSeats], held : SUBSET Convs]
    BY <1>5, <2>2, <2>4 DEF appendDispatch, TypeInv, DataInv
  <2>6. DataInv'
    BY <1>5, <2>5 DEF appendDispatch, TypeInv, DataInv, history
  <2>7. SeatInv'
    BY <1>5, SeatsStay DEF appendDispatch, TypeInv, history
  <2> QED BY <2>1, <2>6, <2>7, CarriesOn DEF TypeInv
<1>6. CASE settleRun
  <2>1. Do("release") \in Good
    BY DoTyped DEF Ops, TypeInv
  <2>2. SeatInv'
    BY <1>6, SeatsStay DEF settleRun, TypeInv, history
  <2>3. DataInv'
    BY <1>6, RunTyped DEF settleRun, TypeInv, DataInv, history
  <2> QED BY <1>6, <2>1, <2>2, <2>3, CarriesOn DEF settleRun, TypeInv
<1>7. CASE standDown
  <2>1. Do("forget") \in Good
    BY DoTyped DEF Ops, TypeInv
  <2>2. SeatInv'
    BY <1>7, SeatsStay DEF standDown, TypeInv, history
  <2>3. DataInv'
    BY <1>7 DEF standDown, Released, TypeInv, DataInv, history
  <2> QED BY <1>7, <2>1, <2>2, <2>3, CarriesOn DEF standDown, Performing, TypeInv
<1> QED BY <1>1, <1>2, <1>3, <1>4, <1>5, <1>6, <1>7 DEF Perform

(***************************************************************************)
(* What moves underneath keeps the types.                                  *)
(***************************************************************************)
\* A beat that is left alone keeps its type.
LEMMA FaultTyped == ASSUME TypeInv, OpLost \/ Restart PROVE TypeInv'
<1>1. upsets' \in 0..MaxUpsets
  BY UpsetTyped DEF OpLost, Restart, TypeInv, DataInv
<1>2. CASE OpLost
  <2>1. beat.pc = "act" /\ Current \in Good
    BY <1>2, CurrentTyped DEF OpLost, TypeInv
  <2>2. DataInv'
    BY <1>1, <1>2 DEF OpLost, TypeInv, DataInv
  <2>3. SeatInv'
    <3>1. Current.op = "append" => Current.conv \in Convs
      BY <2>1 DEF Good
    <3> QED BY <1>2, <3>1, SeatsStay DEF OpLost, TypeInv
  <2>4. Do("release") \in Good /\ Do("forget") \in Good
    BY DoTyped DEF Ops, TypeInv
  <2>5. \/ beat' = Then(Rest)
        \/ \E s \in Good : beat' = Then(<<s>>)
    BY <1>2, <2>4 DEF OpLost
  <2> QED BY <2>1, <2>2, <2>3, <2>5, CarriesOn DEF TypeInv
<1>3. CASE Restart
  <2>1. DataInv'
    BY <1>1, <1>3 DEF Restart, TypeInv, DataInv
  <2>2. seats' \in [Convs -> SeatRecs]
    <3>1. ASSUME NEW i \in Convs, seats[i].st = "launching"
          PROVE  [seats[i] EXCEPT !.tag = FALSE] \in SeatRecs
      BY <3>1, RecordTyped DEF TypeInv, SeatInv
    <3> QED BY <1>3, <3>1 DEF Restart, TypeInv, SeatInv
  <2>3. ASSUME NEW i \in Convs PROVE seats'[i].st = seats[i].st
    <3>1. CASE seats[i].st = "launching"
      BY <1>3, <3>1, RecordTyped DEF Restart, TypeInv, SeatInv
    <3>2. CASE seats[i].st # "launching"
      BY <1>3, <3>2 DEF Restart
    <3> QED BY <3>1, <3>2
  <2>4. ASSUME NEW i \in slipped' \cup cleared' PROVE i \in Convs /\ seats[i].st \in {"launching", "up", "silent"}
    <3>1. CASE i \in slipped \cup cleared
      BY <3>1 DEF TypeInv, SeatInv, Standing
    <3>2. CASE i \notin slipped \cup cleared
      <4>1. Performing("append") /\ i = Current.conv /\ Running(i)
        BY <1>3, <2>4, <3>2 DEF Restart
      <4>2. Current \in Good
        BY <4>1, CurrentTyped DEF Performing, TypeInv
      <4> QED BY <4>1, <4>2 DEF Good, Performing, Running
    <3> QED BY <3>1, <3>2
  <2>5. SeatInv'
    BY <2>2, <2>3, <2>4 DEF SeatInv, Standing
  <2> QED BY <1>3, <2>1, <2>5, RestingTyped DEF Restart, TypeInv
<1> QED BY <1>2, <1>3

LEMMA TimeAndOperatorTyped ==
  ASSUME TypeInv, LeaseAges \/ CeilingReached \/ pause \/ start \/ actionBreakLease
  PROVE  TypeInv'
<1>1. upsets' \in 0..MaxUpsets
  BY UpsetTyped DEF LeaseAges, CeilingReached, pause, start, actionBreakLease, Operator, TypeInv, DataInv
<1>2. UNCHANGED <<log, board, seats, past, beat, slipped, cleared>>
  BY DEF LeaseAges, CeilingReached, pause, start, actionBreakLease, Operator, history
<1>3. SeatInv' /\ BeatOK(beat')
  BY <1>2, SeatsStay DEF TypeInv
<1>4. lease' \in [conv : Convs \cup {NoConv, Placeholder}, gen : 0..MaxGens,
                 at : {"none", "fresh", "aged"}]
  BY DEF LeaseAges, CeilingReached, pause, start, actionBreakLease, Released, TypeInv, DataInv
<1>5. run' \in [status : {"armed", "running", "paused", "complete"}, dry : 0..1, over : BOOLEAN]
  <2>1. CASE start
    <3>1. PICK over \in {FALSE, run.over} : run' = [status |-> "armed", dry |-> 0, over |-> over]
      BY <2>1 DEF start
    <3>2. over \in BOOLEAN
      BY DEF TypeInv, DataInv
    <3> QED BY <3>1, <3>2
  <2>2. CASE ~start
    BY <2>2 DEF LeaseAges, CeilingReached, pause, actionBreakLease, TypeInv, DataInv
  <2> QED BY <2>1, <2>2
<1>6. armed' \in BOOLEAN
  BY DEF LeaseAges, CeilingReached, pause, start, actionBreakLease, TypeInv, DataInv
<1>7. crossed' \in BOOLEAN
  <2>1. CASE LeaseAges \/ CeilingReached
    BY <2>1 DEF LeaseAges, CeilingReached, history, TypeInv, DataInv
  <2>2. CASE pause \/ start \/ actionBreakLease
    <3>1. crossed' = (crossed \/ beat.pc # "idle")
      BY <2>2 DEF pause, start, actionBreakLease, Operator
    <3> QED BY <3>1
  <2> QED BY <2>1, <2>2
<1> QED BY <1>1, <1>2, <1>3, <1>4, <1>5, <1>6, <1>7 DEF TypeInv, DataInv

\* The turns of one conversation.
LEMMA HostTyped ==
  ASSUME TypeInv, NEW i \in Seats,
         \/ Attach(i) \/ LaunchLost(i) \/ FallsSilent(i) \/ BackFromSilence(i)
         \/ Works(i) \/ Ends(i) \/ ConfigExpires(i) \/ HoldExpires(i)
  PROVE  TypeInv'
<1>1. i \in Convs /\ seats[i] \in SeatRecs /\ seats[i] # Over
  BY DEF Seats, TypeInv, SeatInv
<1>2. seats[i].st # "over"
  BY <1>1 DEF SeatRecs
<1> DEFINE r == seats[i]
<1>3. /\ [r EXCEPT !.tag = FALSE] \in SeatRecs /\ [r EXCEPT !.tag = FALSE].st = r.st
      /\ [r EXCEPT !.out = TRUE] \in SeatRecs /\ [r EXCEPT !.out = TRUE].st = r.st
      /\ [r EXCEPT !.st = "up"] \in SeatRecs /\ [r EXCEPT !.st = "up"].st = "up"
      /\ [r EXCEPT !.st = "silent"] \in SeatRecs /\ [r EXCEPT !.st = "silent"].st = "silent"
  BY <1>1, <1>2, RecordTyped
<1>4. beat' = beat /\ BeatOK(beat')
  BY DEF Attach, LaunchLost, FallsSilent, BackFromSilence, Works, Ends, ConfigExpires,
         HoldExpires, Hosts, TypeInv
<1>5. upsets' \in 0..MaxUpsets
  <2>1. CASE Ends(i)
    <3>1. UpsetIf(i.role = "verifier" /\ ~seats[i].out /\ board[i.card] = "in-review", "noverdict")
      BY <2>1 DEF Ends
    <3>2. (i.role = "verifier" /\ ~seats[i].out /\ board[i.card] = "in-review") \in BOOLEAN
      OBVIOUS
    <3> QED BY <3>1, <3>2, UpsetTyped DEF TypeInv, DataInv
  <2>2. CASE HoldExpires(i)
    <3>1. UpsetIf(seats[i].tag, "slow") \/ UNCHANGED upsets
      BY <2>2 DEF HoldExpires
    <3>2. seats[i].tag \in BOOLEAN
      BY <1>1 DEF SeatRecs
    <3> QED BY <3>1, <3>2, UpsetTyped, ZenonT(60) DEF TypeInv, DataInv
  <2>3. CASE ~Ends(i) /\ ~HoldExpires(i)
    BY <2>3, UpsetTyped DEF Attach, LaunchLost, FallsSilent, BackFromSilence, Works, ConfigExpires,
         history, TypeInv, DataInv
  <2> QED BY <2>1, <2>2, <2>3
<1>6. UNCHANGED <<run, armed, lease, crossed>>
  BY DEF Attach, LaunchLost, FallsSilent, BackFromSilence, Works, Ends, ConfigExpires,
         HoldExpires, Hosts, history
<1>7. log' \in [acked : SUBSET Cards, dispatched : [Cards -> 0..MaxCardSeats], held : SUBSET Convs]
  <2>1. CASE HoldExpires(i)
    BY <2>1 DEF HoldExpires, TypeInv, DataInv
  <2>2. CASE ~HoldExpires(i)
    BY <2>2 DEF Attach, LaunchLost, FallsSilent, BackFromSilence, Works, Ends, ConfigExpires,
         Hosts, TypeInv, DataInv
  <2> QED BY <2>1, <2>2
<1>8. board' \in [Cards -> Lanes]
  <2>1. CASE Works(i)
    <3>1. PICK c \in (IF i.role = "master" THEN Cards ELSE {i.card}), m \in Moves(i) :
             board' = [board EXCEPT ![c] = m[2]]
      BY <2>1 DEF Works
    <3>2. i.role \in {"worker", "verifier", "master"}
      BY <1>1 DEF Convs
    <3>3. m[2] \in Lanes
      BY <3>1, <3>2 DEF Moves, Lanes
    <3> QED BY <3>1, <3>3 DEF TypeInv, DataInv
  <2>2. CASE ~Works(i)
    BY <2>2 DEF Attach, LaunchLost, FallsSilent, BackFromSilence, Ends, ConfigExpires,
         HoldExpires, Hosts, TypeInv, DataInv
  <2> QED BY <2>1, <2>2
<1>9. past' \in [Cards -> [ran : 0..MaxLaunchAttempts, out : BOOLEAN]]
  <2>1. CASE Ends(i)
    <3>1. PICK wrote \in BOOLEAN :
            past' = IF i.role = "master" \/ ~seats[i].tag THEN past
                    ELSE [past EXCEPT ![i.card] = [ran |-> Least(@.ran + 1, MaxLaunchAttempts),
                                                   out |-> @.out \/ seats[i].out \/ wrote]]
      BY <2>1 DEF Ends
    <3>2. ASSUME i.role # "master"
          PROVE  [ran |-> Least(past[i.card].ran + 1, MaxLaunchAttempts),
                  out |-> past[i.card].out \/ seats[i].out \/ wrote]
                    \in [ran : 0..MaxLaunchAttempts, out : BOOLEAN]
      <4>1. i.card \in Cards
        BY <1>1, <3>2 DEF Convs
      <4>2. past[i.card].ran \in 0..MaxLaunchAttempts /\ MaxLaunchAttempts \in Nat
        BY <4>1, BeatAssumption DEF TypeInv, DataInv
      <4>3. Least(past[i.card].ran + 1, MaxLaunchAttempts) \in 0..MaxLaunchAttempts
        BY <4>2 DEF Least
      <4>4. (past[i.card].out \/ seats[i].out \/ wrote) \in BOOLEAN
        OBVIOUS
      <4> QED BY <4>3, <4>4
    <3> QED BY <3>1, <3>2 DEF TypeInv, DataInv
  <2>2. CASE ~Ends(i)
    BY <2>2 DEF Attach, LaunchLost, FallsSilent, BackFromSilence, Works, ConfigExpires,
         HoldExpires, Hosts, TypeInv, DataInv
  <2> QED BY <2>1, <2>2
<1>10. SeatInv'
  <2>1. CASE Attach(i)
    BY <1>1, <1>3, <2>1, SeatChanges DEF Attach, Turn, TypeInv
  <2>2. CASE LaunchLost(i)
    BY <1>1, <2>2, GoneTyped, SeatChanges DEF LaunchLost, Turn, TypeInv
  <2>3. CASE FallsSilent(i)
    BY <1>1, <1>3, <2>3, SeatChanges DEF FallsSilent, Turn, TypeInv
  <2>4. CASE BackFromSilence(i)
    BY <1>1, <1>3, <2>4, SeatChanges DEF BackFromSilence, Turn, TypeInv
  <2>5. CASE Works(i)
    BY <1>1, <1>3, <2>5, SeatChanges DEF Works, Turn, TypeInv, history
  <2>6. CASE Ends(i)
    BY <1>1, <2>6, GoneTyped, SeatChanges DEF Ends, Turn, TypeInv
  <2>7. CASE ConfigExpires(i)
    BY <1>1, <1>3, <2>7, SeatChanges DEF ConfigExpires, Turn, TypeInv
  <2>8. CASE HoldExpires(i)
    <3>1. CASE seats' = seats /\ slipped' = slipped \cup {i} /\ Running(i)
      BY <1>1, <2>8, <3>1, SeatsStay DEF HoldExpires, TypeInv
    <3>2. CASE seats[i].st = "lost" /\ seats' = [seats EXCEPT ![i] = Over] /\ slipped' = slipped
      <4>1. i \notin slipped \cup cleared
        BY <3>2 DEF TypeInv, SeatInv, Standing
      <4> QED BY <1>1, <2>8, <3>2, <4>1, GoneTyped, SeatChanges DEF HoldExpires, TypeInv
    <3> QED BY <2>8, <3>1, <3>2 DEF HoldExpires
  <2> QED BY <2>1, <2>2, <2>3, <2>4, <2>5, <2>6, <2>7, <2>8
<1>11. DataInv'
  BY <1>5, <1>6, <1>7, <1>8, <1>9 DEF TypeInv, DataInv
<1> QED BY <1>4, <1>10, <1>11 DEF TypeInv

(***************************************************************************)
(* Theorems.                                                               *)
(***************************************************************************)
LEMMA NextTyped == TypeInv /\ [Next]_vars => TypeInv'
<1> SUFFICES ASSUME TypeInv, [Next]_vars PROVE TypeInv'
  OBVIOUS
<1>1. CASE sweepEpics
  BY <1>1, SweepTyped
<1>2. CASE runEpicBeat
  BY <1>2, RunBeatTyped
<1>3. CASE Perform
  BY <1>3, PerformTyped
<1>4. CASE OpLost \/ Restart
  BY <1>4, FaultTyped
<1>5. CASE LeaseAges \/ CeilingReached \/ pause \/ start \/ actionBreakLease
  BY <1>5, TimeAndOperatorTyped
<1>6. ASSUME NEW i \in Seats,
             \/ Attach(i) \/ LaunchLost(i) \/ FallsSilent(i) \/ BackFromSilence(i)
             \/ Works(i) \/ Ends(i) \/ ConfigExpires(i) \/ HoldExpires(i)
      PROVE  TypeInv'
  BY <1>6, HostTyped
<1>7. CASE UNCHANGED vars
  <2>1. DataInv' /\ BeatOK(beat')
    BY <1>7 DEF vars, history, TypeInv, DataInv
  <2>2. SeatInv'
    BY <1>7, SeatsStay DEF vars, history, TypeInv
  <2> QED BY <2>1, <2>2 DEF TypeInv
<1> QED BY <1>1, <1>2, <1>3, <1>4, <1>5, <1>6, <1>7 DEF Next

LEMMA AlwaysTyped == Spec => []TypeInv
  BY InitTyped, NextTyped, PTL DEF Spec

LEMMA TypeInvGivesTypeOK == TypeInv => TypeOK
<1> SUFFICES ASSUME TypeInv PROVE TypeOK
  OBVIOUS
<1>1. slipped \cup cleared \subseteq Seats
  <2>1. ASSUME NEW i \in slipped \cup cleared PROVE i \in Seats
    <3>1. i \in Convs /\ seats[i].st \in {"launching", "up", "silent"}
      BY <2>1 DEF TypeInv, SeatInv, Standing
    <3> QED BY <3>1 DEF Seats, Over
  <2> QED BY <2>1
<1>2. beat.pc \in {"idle", "read", "act"} /\ (beat.pc = "act") = (beat.todo # <<>>)
  BY DEF TypeInv, BeatOK
<1>3. seats \in [Convs -> [gen : 0..MaxGens, tag : BOOLEAN, out : BOOLEAN,
                          st : {"launching", "up", "silent", "lost"}] \cup {Over}]
  BY DEF TypeInv, SeatInv, SeatRecs
<1> QED BY <1>1, <1>2, <1>3 DEF TypeOK, TypeInv, DataInv

\* Every variable keeps its type, for every set of cards and every ceiling: the
\* generation stays under maxGens, and a beat has steps left exactly while it acts.
THEOREM EpicTypes == Spec => []TypeOK
  BY AlwaysTyped, TypeInvGivesTypeOK, PTL

(***************************************************************************)
(* A run that is not over is armed.                                        *)
(***************************************************************************)
\* What a beat has left when it is not standing down.
GoesOnWith(q) == TodoOK(q) /\ (q # <<>> => Head(q).op \notin Settling)

LEMMA PlanGoesOn ==
  ASSUME NEW q \in Seq(Planned)
  PROVE  GoesOnWith(q)
<1>1. q # <<>> => Head(q) \in Planned
  BY HeadTailProperties
<1> QED BY <1>1, PlanIsTodo DEF GoesOnWith, Planned, Settling

\* A beat that goes on, while somebody watches the run.
LEMMA PlanUnderWatch ==
  ASSUME NEW q, GoesOnWith(q), beat' = Then(q), armed' \/ crossed'
  PROVE  ArmInv'
<1>1. LiveRunIsArmed'
  BY DEF LiveRunIsArmed
<1>2. beat'.todo = q /\ (beat'.pc = "act" => q # <<>>)
  BY ThenTyped DEF GoesOnWith
<1> QED BY <1>1, <1>2 DEF ArmInv, GoesOnWith, Settling

\* A beat may stand down, in whatever step, from a run that is over.
LEMMA StandsDown ==
  ASSUME armed' \/ crossed', isInertRun(run.status)' \/ crossed'
  PROVE  ArmInv'
<1>1. LiveRunIsArmed'
  BY DEF LiveRunIsArmed
<1> QED BY <1>1 DEF ArmInv

\* A beat that rests.
LEMMA RestsArmed ==
  ASSUME beat' = Resting, LiveRunIsArmed'
  PROVE  ArmInv'
  BY RestingTyped DEF ArmInv

\* Nothing that ArmInv is about changes.
LEMMA ArmStays ==
  ASSUME ArmInv, beat' = beat, armed' = armed, crossed' = crossed, run'.status = run.status
  PROVE  ArmInv'
  BY DEF ArmInv, LiveRunIsArmed, isInertRun

\* The steps before a run is settled do not stand down.
LEMMA GoesOn ==
  ASSUME TypeInv, beat.pc = "act",
         takeLease \/ wakeWerkMaster \/ adoptLease \/ spawnForCard \/ appendDispatch
  PROVE  /\ \E q : GoesOnWith(q) /\ beat' = Then(q)
         /\ armed' = armed /\ crossed' = crossed
<1>1. armed' = armed /\ crossed' = crossed
  BY DEF takeLease, wakeWerkMaster, adoptLease, spawnForCard, appendDispatch, history
<1>2. Rest \in Seq(Planned) /\ Current \in Good /\ GoesOnWith(Rest)
  BY CurrentTyped, PlanGoesOn DEF TypeInv
<1>3. ASSUME NEW s \in Good, s.op \notin Settling PROVE GoesOnWith(<<s>> \o Rest)
  BY <1>2, <1>3, StepAhead DEF GoesOnWith
<1>4. CASE takeLease
  <2>1. CASE evaluateLease(Current)
    <3> DEFINE s == [Current EXCEPT !.op = "wake", !.gen = lease.gen + 1]
    <3>1. Current.op = "take" /\ lease.gen = Current.gen /\ Current.gen < MaxGens
            /\ lease.gen \in 0..MaxGens
      BY <1>2, <1>4, <2>1 DEF takeLease, Performing, evaluateLease, Good, TypeInv, DataInv
    <3>2. lease.gen + 1 \in 0..MaxGens
      BY <3>1, BeatAssumption
    <3>3. s \in Good /\ s.op \notin Settling
      BY <1>2, <3>2 DEF Good, Steps, Ops, Settling
    <3>4. beat' = Then(<<s>> \o Rest)
      BY <1>4, <2>1 DEF takeLease
    <3> QED BY <1>1, <1>3, <3>3, <3>4
  <2>2. CASE ~evaluateLease(Current)
    BY <1>1, <1>2, <1>4, <2>2 DEF takeLease
  <2> QED BY <2>1, <2>2
<1>5. ASSUME NEW role, NEW next \in {"adopt", "append"}, dispatchSpawn(role, next),
             next = "append" => Current.card \in Cards
      PROVE  \E q : GoesOnWith(q) /\ beat' = Then(q)
  <2>1. CASE beat' = Then(Rest)
    BY <1>2, <2>1
  <2>2. CASE beat' # Then(Rest)
    <3>1. PICK new \in Free(role) :
            beat' = Then(<<[Current EXCEPT !.op = next, !.conv = new]>> \o Rest)
      BY <1>5, <2>2 DEF dispatchSpawn
    <3> DEFINE s == [Current EXCEPT !.op = next, !.conv = new]
    <3>2. s \in Good /\ s.op \notin Settling
      BY <1>2, <1>5, <3>1 DEF Free, Good, Steps, Ops, Settling
    <3> QED BY <1>3, <3>1, <3>2
  <2> QED BY <2>1, <2>2
<1>6. CASE wakeWerkMaster
  BY <1>1, <1>5, <1>6 DEF wakeWerkMaster
<1>7. CASE spawnForCard
  <2>1. Current.card \in Cards
    BY <1>2, <1>7 DEF spawnForCard, Performing, Good
  <2> QED BY <1>1, <1>5, <1>7, <2>1 DEF spawnForCard
<1>8. CASE adoptLease \/ appendDispatch
  BY <1>1, <1>2, <1>8 DEF adoptLease, appendDispatch
<1> QED BY <1>4, <1>6, <1>7, <1>8

LEMMA NextArmed == TypeInv /\ ArmInv /\ [Next]_vars => ArmInv'
<1> SUFFICES ASSUME TypeInv, ArmInv, [Next]_vars PROVE ArmInv'
  OBVIOUS
<1>1. CASE sweepEpics
  <2>1. beat'.pc = "read" /\ LiveRunIsArmed'
    BY <1>1 DEF sweepEpics, history, TypeInv, BeatOK, ArmInv, LiveRunIsArmed, isInertRun
  <2> QED BY <2>1 DEF ArmInv
<1>2. CASE runEpicBeat
  <2>1. armed' = armed /\ crossed' = crossed
    BY <1>2 DEF runEpicBeat
  <2>2. CASE isInertRun(run.status)
    BY <1>2, <2>1, <2>2, RestsArmed DEF runEpicBeat, ArmInv, LiveRunIsArmed
  <2>3. CASE ~isInertRun(run.status)
    <3>1. PICK shut \in BOOLEAN : \E d \in decide(beat.group, shut) : beat' = Then(d.todo)
      BY <1>2, <2>3 DEF runEpicBeat
    <3>2. PICK d \in decide(beat.group, shut) : beat' = Then(d.todo)
      BY <3>1
    <3>3. d.todo \in Seq(Planned)
      BY <3>2, DecideTyped DEF TypeInv
    <3> QED BY <2>1, <2>3, <3>2, <3>3, PlanGoesOn, PlanUnderWatch DEF ArmInv, LiveRunIsArmed
  <2> QED BY <2>2, <2>3
<1>3. CASE takeLease \/ wakeWerkMaster \/ adoptLease \/ spawnForCard \/ appendDispatch
  <2>1. beat.pc = "act"
    BY <1>3 DEF takeLease, wakeWerkMaster, adoptLease, spawnForCard, appendDispatch, Performing
  <2> QED BY <1>3, <2>1, GoesOn, PlanUnderWatch DEF ArmInv
<1>4. CASE settleRun
  <2>1. isInertRun(run.status)'
    BY <1>4 DEF settleRun, isInertRun, TypeInv, DataInv
  <2> QED BY <1>4, <2>1, StandsDown DEF settleRun, ArmInv, history
<1>5. CASE standDown
  <2>1. beat.pc = "act" /\ (isInertRun(run.status) \/ crossed) /\ UNCHANGED <<run, crossed>>
    BY <1>5 DEF standDown, Performing, Current, ArmInv, history
  <2>2. CASE armed' = FALSE /\ beat' = Resting
    BY <2>1, <2>2, RestsArmed DEF LiveRunIsArmed
  <2>3. CASE beat' = Then(<<Do("forget")>>) /\ armed' = armed
    BY <2>1, <2>3, StandsDown DEF ArmInv
  <2> QED BY <1>5, <2>2, <2>3 DEF standDown
<1>6. CASE OpLost
  <2>1. beat.pc = "act" /\ UNCHANGED <<run, armed>>
    BY <1>6 DEF OpLost
  <2>2. CASE Current.op \in {"park", "complete"}
    BY <1>6, <2>1, <2>2, StandsDown DEF OpLost
  <2>3. CASE Current.op = "release"
    <3>1. (armed \/ crossed) /\ (isInertRun(run.status) \/ crossed)
      BY <2>1, <2>3 DEF ArmInv, Current
    <3>2. crossed => crossed'
      BY <1>6 DEF OpLost
    <3> QED BY <2>1, <3>1, <3>2, StandsDown
  <2>4. CASE Current.op \notin {"park", "complete", "release"}
    <3>1. Rest \in Seq(Planned)
      BY <2>1, CurrentTyped DEF TypeInv
    <3>2. beat' = Then(Rest) /\ (crossed => crossed')
      BY <1>6, <2>4 DEF OpLost
    <3> QED BY <2>1, <3>1, <3>2, PlanGoesOn, PlanUnderWatch DEF ArmInv
  <2> QED BY <2>2, <2>3, <2>4
<1>7. CASE Restart
  BY <1>7, RestsArmed DEF Restart, ArmInv, LiveRunIsArmed
<1>8. CASE LeaseAges \/ CeilingReached
  <2>1. run'.status = run.status
    BY <1>8 DEF LeaseAges, CeilingReached, TypeInv, DataInv
  <2> QED BY <1>8, <2>1, ArmStays DEF LeaseAges, CeilingReached, history
<1>9. CASE pause \/ start \/ actionBreakLease
  <2>1. beat' = beat /\ crossed' = (crossed \/ beat.pc # "idle")
    BY <1>9 DEF pause, start, actionBreakLease, Operator
  <2>2. beat.pc = "act" => crossed'
    BY <2>1
  <2>3. LiveRunIsArmed'
    <3>1. CASE pause
      BY <3>1 DEF pause, LiveRunIsArmed, isInertRun, TypeInv, DataInv
    <3>2. CASE start
      BY <3>2 DEF start, LiveRunIsArmed
    <3>3. CASE actionBreakLease
      BY <2>1, <3>3 DEF actionBreakLease, LiveRunIsArmed, ArmInv
    <3> QED BY <1>9, <3>1, <3>2, <3>3
  <2> QED BY <2>1, <2>2, <2>3 DEF ArmInv
<1>10. ASSUME NEW i \in Seats,
              \/ Attach(i) \/ LaunchLost(i) \/ FallsSilent(i) \/ BackFromSilence(i)
              \/ Works(i) \/ Ends(i) \/ ConfigExpires(i) \/ HoldExpires(i)
       PROVE  ArmInv'
  BY <1>10, ArmStays DEF Attach, LaunchLost, FallsSilent, BackFromSilence, Works, Ends,
       ConfigExpires, HoldExpires, Hosts, history
<1>11. CASE UNCHANGED vars
  BY <1>11, ArmStays DEF vars, history
<1> QED BY <1>1, <1>2, <1>3, <1>4, <1>5, <1>6, <1>7, <1>8, <1>9, <1>10, <1>11 DEF Next, Perform

\* A run that is not inert is in the armed set, whatever was cut short between the
\* awaits of settleRun and standDown, unless the operator's verb or a lost settle
\* crossed a beat: for every set of cards and any number of restarts and faults.
THEOREM RunsStayArmed == Spec => []LiveRunIsArmed
<1>1. Init => ArmInv
  <2> SUFFICES ASSUME Init PROVE ArmInv
    OBVIOUS
  <2>1. beat.pc = "idle" /\ armed
    BY DEF Init, Resting
  <2> QED BY <2>1 DEF ArmInv, LiveRunIsArmed
<1>2. ArmInv => LiveRunIsArmed
  BY DEF ArmInv
<1> QED BY <1>1, <1>2, NextArmed, AlwaysTyped, PTL DEF Spec

-----------------------------------------------------------------------------
(***************************************************************************)
(* Whom the beat seats: a generation names one werk-master, and a card has *)
(* one worker and one verifier that the engine still sees.                 *)
(***************************************************************************)

(***************************************************************************)
(* The inductive invariant of the werk-master's lease.  Every standing     *)
(* master was woken at the lease's generation or an earlier one, each at a *)
(* generation of its own; the beat wakes and adopts at the lease's         *)
(* generation, wakes when nobody stands at it, and what it adopts, like    *)
(* the holder, is of that generation if it still stands.                   *)
(***************************************************************************)
Master(i) == Standing(i) /\ i.role = "master"
NameInv ==
  /\ \A i \in Convs : Master(i) => seats[i].gen <= lease.gen
  /\ \A i, j \in Convs : (Master(i) /\ Master(j) /\ i # j) => seats[i].gen # seats[j].gen
  /\ Standing(lease.conv) => lease.conv.role = "master" /\ seats[lease.conv].gen = lease.gen
  /\ Performing("wake") =>
        /\ Current.gen = lease.gen
        /\ \A i \in Convs : Master(i) => seats[i].gen # lease.gen
  /\ Performing("adopt") =>
        /\ Current.gen = lease.gen /\ Current.conv.role = "master"
        /\ Standing(Current.conv) => seats[Current.conv].gen = lease.gen

(***************************************************************************)
(* The inductive invariant of a card's seats.  A seat the engine still     *)
(* sees is shown by the registry, or held by the baton, or about to be     *)
(* written there; so the fold a beat decides on counts it, or the baton's  *)
(* hold does; and no step the beat has left sends a second one of its role *)
(* to its card.                                                            *)
(***************************************************************************)
InSight == {i \in Convs : i.role # "master" /\ Running(i) /\ i \notin slipped \cup cleared}

Distinct(V) == \A i, j \in V : (i.role = j.role /\ i.card = j.card) => i = j

SeenInv == \A i \in InSight :
             i \in Registered \/ i \in log.held \/ (Performing("append") /\ Current.conv = i)

\* What a beat that has folded the registry knows of the seats.
Counted(g, i) == i.card \in g.inFlight /\ (i.role = "verifier" => i.card \in g.inVerify)
FoldInv == beat.pc = "read" =>
             /\ log.held \cap beat.group.known = {}
             /\ \A i \in InSight : i \in log.held \/ (i \in Registered /\ Counted(beat.group, i))

\* A plan sends at most one seat of a role to a card, and only where none is seen.
Sends == {"dispatch", "verify"}
RoleSent(op) == IF op = "dispatch" THEN "worker" ELSE "verifier"
OnePerCard(q) == \A m, n \in 1..Len(q) :
                   (m # n /\ q[m].op \in Sends /\ q[n].op = q[m].op) => q[m].card # q[n].card
Vacant(op, c, V) == \A i \in V : i.role = RoleSent(op) => i.card # c
FitPlan(q, V) == /\ OnePerCard(q)
                 /\ \A n \in 1..Len(q) : q[n].op \in Sends => Vacant(q[n].op, q[n].card, V)

SingleInv == Distinct(InSight) /\ SeenInv /\ FoldInv /\ FitPlan(beat.todo, InSight)

(***************************************************************************)
(* The werk-master's lease.                                                *)
(***************************************************************************)
LEMMA NobodyStands == ~Standing(NoConv) /\ ~Standing(Placeholder)
  BY DEF Standing, Convs, NoConv, Placeholder

\* A beat that neither wakes nor adopts next.
Idles(b) == b.pc = "act" => Head(b.todo).op \notin {"wake", "adopt"}

LEMMA PlanIdles ==
  ASSUME NEW q \in Seq(Planned)
  PROVE  Idles(Then(q))
<1>1. q # <<>> => Head(q) \in Planned
  BY HeadTailProperties
<1> QED BY <1>1, PlanIsTodo, ThenTyped DEF Idles, Planned

LEMMA OneIdles ==
  ASSUME NEW s \in Good, s.op \notin {"wake", "adopt"}, NEW q \in Seq(Planned)
  PROVE  Idles(Then(<<s>>)) /\ Idles(Then(<<s>> \o q)) /\ Idles(Resting)
<1>1. TodoOK(<<s>>) /\ Head(<<s>>) = s
  BY OneStep
<1>2. TodoOK(<<s>> \o q) /\ Head(<<s>> \o q) = s
  BY StepAhead
<1> QED BY <1>1, <1>2, ThenTyped, RestingTyped DEF Idles

\* No seat is new, the generation stays, and the beat does not come to a wake or
\* an adoption.
LEMMA NamesStay ==
  ASSUME NameInv, lease'.gen = lease.gen, lease'.conv \in {lease.conv, NoConv},
         \A i \in Convs : Standing(i)' => Standing(i) /\ seats'[i].gen = seats[i].gen,
         beat' = beat \/ Idles(beat')
  PROVE  NameInv'
<1>1. \A i \in Convs : Master(i)' => Master(i) /\ seats'[i].gen = seats[i].gen
  BY DEF Master
<1>2. \A i \in Convs : Master(i)' => seats'[i].gen <= lease'.gen
  BY <1>1 DEF NameInv
<1>3. \A i, j \in Convs : (Master(i)' /\ Master(j)' /\ i # j) => seats'[i].gen # seats'[j].gen
  BY <1>1 DEF NameInv
<1>4. Standing(lease.conv)' => lease'.conv.role = "master" /\ seats'[lease'.conv].gen = lease'.gen
  <2> SUFFICES ASSUME Standing(lease.conv)'
               PROVE  lease'.conv.role = "master" /\ seats'[lease'.conv].gen = lease'.gen
    OBVIOUS
  <2>1. lease'.conv \in Convs
    BY DEF Standing
  <2>2. lease'.conv = lease.conv
    BY <2>1 DEF Convs, NoConv
  <2>3. Standing(lease.conv) /\ seats'[lease.conv].gen = seats[lease.conv].gen
    BY <2>1, <2>2 DEF Standing
  <2> QED BY <2>2, <2>3 DEF NameInv
<1>5. ASSUME Performing("wake")'
      PROVE  /\ Current'.gen = lease'.gen
             /\ \A i \in Convs : Master(i)' => seats'[i].gen # lease'.gen
  <2>1. beat' = beat /\ Performing("wake") /\ Current' = Current
    BY <1>5 DEF Performing, Current, Idles
  <2> QED BY <1>1, <2>1 DEF NameInv
<1>6. ASSUME Performing("adopt")'
      PROVE  /\ Current'.gen = lease'.gen /\ Current'.conv.role = "master"
             /\ Standing(Current.conv)' => seats'[Current'.conv].gen = lease'.gen
  <2>1. beat' = beat /\ Performing("adopt") /\ Current' = Current
    BY <1>6 DEF Performing, Current, Idles
  <2>2. Standing(Current.conv)' => Standing(Current.conv) /\ seats'[Current.conv].gen = seats[Current.conv].gen
    BY <2>1 DEF Standing
  <2> QED BY <2>1, <2>2 DEF NameInv
<1> QED BY <1>2, <1>3, <1>4, <1>5, <1>6 DEF NameInv, Master

\* What a conversation and its host do seats nobody.
LEMMA HostsSeatNobody ==
  ASSUME TypeInv, NEW i \in Seats,
         \/ Attach(i) \/ LaunchLost(i) \/ FallsSilent(i) \/ BackFromSilence(i)
         \/ Works(i) \/ Ends(i) \/ ConfigExpires(i) \/ HoldExpires(i)
  PROVE  /\ beat' = beat /\ lease' = lease
         /\ \A j \in Convs : Standing(j)' => Standing(j) /\ seats'[j].gen = seats[j].gen
<1>1. i \in Convs /\ seats[i] \in SeatRecs /\ seats[i] # Over /\ seats \in [Convs -> SeatRecs]
  BY DEF Seats, TypeInv, SeatInv
<1>2. seats[i] \in [gen : 0..MaxGens, tag : BOOLEAN, out : BOOLEAN,
                    st : {"launching", "up", "silent", "lost"}]
  BY <1>1 DEF SeatRecs
<1>3. beat' = beat /\ lease' = lease
  BY DEF Attach, LaunchLost, FallsSilent, BackFromSilence, Works, Ends, ConfigExpires,
         HoldExpires, Hosts, history
<1>4. \/ seats' = seats
      \/ /\ seats[i].st \in {"launching", "up", "silent"}
         /\ \E r \in {[seats[i] EXCEPT !.st = "up"], [seats[i] EXCEPT !.st = "silent"],
                      [seats[i] EXCEPT !.out = TRUE], [seats[i] EXCEPT !.tag = FALSE]} :
               seats' = [seats EXCEPT ![i] = r]
      \/ \E r \in {Over, Lost} : seats' = [seats EXCEPT ![i] = r]
  <2>1. CASE Attach(i)
    BY <2>1 DEF Attach, Turn
  <2>2. CASE LaunchLost(i)
    BY <2>2 DEF LaunchLost, Turn
  <2>3. CASE FallsSilent(i)
    BY <2>3 DEF FallsSilent, Turn
  <2>4. CASE BackFromSilence(i)
    BY <2>4 DEF BackFromSilence, Turn
  <2>5. CASE Works(i)
    BY <2>5 DEF Works, Turn
  <2>6. CASE Ends(i)
    BY <2>6 DEF Ends, Turn
  <2>7. CASE ConfigExpires(i)
    BY <2>7 DEF ConfigExpires, Turn
  <2>8. CASE HoldExpires(i)
    BY <2>8 DEF HoldExpires
  <2> QED BY <2>1, <2>2, <2>3, <2>4, <2>5, <2>6, <2>7, <2>8
<1>5. \A j \in Convs : Standing(j)' => Standing(j) /\ seats'[j].gen = seats[j].gen
  <2>1. CASE seats' = seats
    BY <2>1 DEF Standing
  <2>2. ASSUME seats[i].st \in {"launching", "up", "silent"},
               NEW r \in {[seats[i] EXCEPT !.st = "up"], [seats[i] EXCEPT !.st = "silent"],
                          [seats[i] EXCEPT !.out = TRUE], [seats[i] EXCEPT !.tag = FALSE]},
               seats' = [seats EXCEPT ![i] = r]
        PROVE  \A j \in Convs : Standing(j)' => Standing(j) /\ seats'[j].gen = seats[j].gen
    <3>1. r.gen = seats[i].gen
      BY <1>2, <2>2
    <3> QED BY <1>1, <2>2, <3>1 DEF Standing
  <2>3. ASSUME NEW r \in {Over, Lost}, seats' = [seats EXCEPT ![i] = r]
        PROVE  \A j \in Convs : Standing(j)' => Standing(j) /\ seats'[j].gen = seats[j].gen
    BY <1>1, <2>3, GoneTyped DEF Standing
  <2> QED BY <1>4, <2>1, <2>2, <2>3
<1> QED BY <1>3, <1>5

\* A seat that the beat fills, and sees filled or not.
Fills(role, next, new) ==
  /\ seats[new] = Over /\ new # lease.conv /\ new \notin log.held
  /\ new.role = role /\ new.card = Current.card
  /\ seats' = [seats EXCEPT ![new] = Seat(role)]
  /\ \/ beat' = Then(<<[Current EXCEPT !.op = next, !.conv = new]>> \o Rest) /\ slipped' = slipped
     \/ beat' = Then(Rest) /\ slipped' = slipped \cup {new}
FillsNone == beat' = Then(Rest) /\ seats' = seats /\ slipped' = slipped

LEMMA SpawnFills ==
  ASSUME NEW role, NEW next, dispatchSpawn(role, next)
  PROVE  FillsNone \/ \E new \in Convs : Fills(role, next, new)
  BY DEF dispatchSpawn, Free, Seats, Fills, FillsNone

LEMMA TakeNames == ASSUME TypeInv, NameInv, takeLease PROVE NameInv'
<1>1. beat.pc = "act" /\ Current.op = "take" /\ Current \in Good /\ Rest \in Seq(Planned)
         /\ seats' = seats
  BY CurrentTyped DEF takeLease, Performing, TypeInv, history
<1>2. CASE evaluateLease(Current)
  <2> DEFINE s == [Current EXCEPT !.op = "wake", !.gen = lease.gen + 1]
  <2>1. lease.gen = Current.gen /\ Current.gen < MaxGens /\ lease.gen \in 0..MaxGens
    BY <1>1, <1>2 DEF evaluateLease, Good, TypeInv, DataInv
  <2>2. lease.gen + 1 \in 0..MaxGens
    BY <2>1, BeatAssumption
  <2>3. s \in Good /\ s.op = "wake" /\ s.gen = lease.gen + 1
    BY <1>1, <2>2 DEF Good, Steps, Ops
  <2>4. beat' = Then(<<s>> \o Rest) /\ lease' = [conv |-> Placeholder, gen |-> lease.gen + 1, at |-> "fresh"]
    BY <1>2 DEF takeLease
  <2> HIDE DEF s
  <2>5. Current' = s
    BY <1>1, <2>3, <2>4, StepAhead, ThenTyped, ZenonT(60) DEF Current
  <2>6. \A i \in Convs : Master(i)' => Master(i)
    BY <1>1 DEF Master, Standing
  <2>7. \A i \in Convs : Master(i) => seats[i].gen <= lease.gen /\ seats[i].gen \in Int
    <3>1. ASSUME NEW i \in Convs, Master(i) PROVE seats[i].gen \in Int
      BY <3>1 DEF TypeInv, SeatInv, SeatRecs, Over, Master, Standing
    <3> QED BY <3>1 DEF NameInv
  <2>8. \A i \in Convs : Master(i)' => seats'[i].gen <= lease'.gen /\ seats'[i].gen # lease'.gen
    BY <1>1, <2>1, <2>4, <2>6, <2>7
  <2>9. ~Standing(lease.conv)'
    BY <2>4, NobodyStands DEF Standing, Convs, Placeholder
  <2> QED BY <1>1, <2>3, <2>4, <2>5, <2>6, <2>8, <2>9 DEF NameInv, Performing
<1>3. CASE ~evaluateLease(Current)
  BY <1>1, <1>3, PlanIdles, NamesStay DEF takeLease, Standing
<1> QED BY <1>2, <1>3

LEMMA WakeNames == ASSUME TypeInv, NameInv, wakeWerkMaster PROVE NameInv'
<1>1. beat.pc = "act" /\ Current.op = "wake" /\ Current \in Good /\ Rest \in Seq(Planned)
         /\ lease' = lease /\ dispatchSpawn("master", "adopt")
  BY CurrentTyped DEF wakeWerkMaster, Performing, TypeInv
<1>2. Current.gen = lease.gen /\ \A i \in Convs : Master(i) => seats[i].gen # lease.gen
  BY <1>1 DEF NameInv, Performing
<1>3. CASE FillsNone
  BY <1>1, <1>3, PlanIdles, NamesStay DEF Standing, FillsNone
<1>4. ASSUME NEW new \in Convs, Fills("master", "adopt", new)
      PROVE  NameInv'
  <2>0. /\ new # lease.conv /\ new.role = "master"
        /\ seats' = [seats EXCEPT ![new] = Seat("master")]
        /\ \/ beat' = Then(<<[Current EXCEPT !.op = "adopt", !.conv = new]>> \o Rest)
           \/ beat' = Then(Rest)
    BY <1>4 DEF Fills
  <2> DEFINE s == [Current EXCEPT !.op = "adopt", !.conv = new]
  <2>1. s \in Good /\ s.op = "adopt" /\ s.gen = lease.gen /\ s.conv = new
    BY <1>1, <1>2 DEF Good, Steps, Ops
  <2> HIDE DEF s
  <2>2. \/ Current' = s /\ ~Performing("wake")'
        \/ Idles(beat')
    <3>1. CASE beat' = Then(<<s>> \o Rest)
      BY <1>1, <2>1, <3>1, StepAhead, ThenTyped DEF Current, Performing
    <3>2. CASE beat' = Then(Rest)
      BY <1>1, <3>2, PlanIdles
    <3> QED BY <2>0, <3>1, <3>2 DEF s
  <2>3. lease.gen \in Int /\ seats \in [Convs -> SeatRecs] /\ Seat("master").gen = lease.gen
    BY <1>2 DEF TypeInv, DataInv, SeatInv, Seat
  <2>4. ASSUME NEW i \in Convs, i # new
        PROVE  seats'[i] = seats[i] /\ (Standing(i)' => Standing(i)) /\ (Master(i)' => Master(i))
    BY <2>0, <2>3, <2>4 DEF Master, Standing
  <2>5. seats'[new].gen = lease.gen
    BY <2>0, <2>3
  <2>6. \A i \in Convs : Master(i)' => seats'[i].gen <= lease'.gen
    BY <1>1, <2>3, <2>4, <2>5 DEF NameInv
  <2>7. \A i, j \in Convs : (Master(i)' /\ Master(j)' /\ i # j) => seats'[i].gen # seats'[j].gen
    <3> SUFFICES ASSUME NEW i \in Convs, NEW j \in Convs, Master(i)', Master(j)', i # j
                 PROVE  seats'[i].gen # seats'[j].gen
      OBVIOUS
    <3>1. CASE i # new /\ j # new
      BY <2>4, <3>1 DEF NameInv
    <3>2. CASE i = new
      BY <1>2, <2>4, <2>5, <3>2
    <3>3. CASE j = new
      BY <1>2, <2>4, <2>5, <3>3
    <3> QED BY <3>1, <3>2, <3>3
  <2>8. Standing(lease.conv)' => lease'.conv.role = "master" /\ seats'[lease'.conv].gen = lease'.gen
    <3> SUFFICES ASSUME Standing(lease.conv)'
                 PROVE  lease'.conv.role = "master" /\ seats'[lease'.conv].gen = lease'.gen
      OBVIOUS
    <3>1. lease.conv \in Convs /\ lease.conv # new
      BY <1>1, <2>0 DEF Standing
    <3>2. Standing(lease.conv)
      BY <1>1, <2>4, <3>1 DEF Standing
    <3> QED BY <1>1, <2>4, <3>1, <3>2 DEF NameInv
  <2>9. ~Performing("wake")' /\ (Performing("adopt")' => Current' = s)
    BY <2>2 DEF Performing, Current, Idles
  <2> QED BY <1>1, <2>0, <2>1, <2>5, <2>6, <2>7, <2>8, <2>9 DEF NameInv, Master
<1> QED BY <1>1, <1>3, <1>4, SpawnFills

LEMMA AdoptNames == ASSUME TypeInv, NameInv, adoptLease PROVE NameInv'
<1>1. beat.pc = "act" /\ Current.op = "adopt" /\ Rest \in Seq(Planned)
         /\ seats' = seats /\ beat' = Then(Rest) /\ Performing("adopt")
  BY CurrentTyped DEF adoptLease, Performing, TypeInv, history
<1>2. lease' = [lease EXCEPT !.conv = Current.conv]
  BY <1>1 DEF adoptLease, NameInv
<1>3. lease'.conv = Current.conv /\ lease'.gen = lease.gen
  BY <1>2 DEF TypeInv, DataInv
<1>4. Idles(beat')
  BY <1>1, PlanIdles
<1>5. ~Performing("wake")' /\ ~Performing("adopt")'
  BY <1>4 DEF Idles, Performing, Current
<1>6. \A i \in Convs : Master(i)' = Master(i)
  BY <1>1 DEF Master, Standing
<1>7. Standing(lease.conv)' = Standing(Current.conv)
  BY <1>1, <1>3 DEF Standing
<1> QED BY <1>1, <1>3, <1>5, <1>6, <1>7 DEF NameInv

LEMMA SendNames == ASSUME TypeInv, NameInv, spawnForCard PROVE NameInv'
<1>1. beat.pc = "act" /\ Current.op \in Sends /\ Current \in Good /\ Rest \in Seq(Planned) /\ lease' = lease
  BY CurrentTyped DEF spawnForCard, Performing, Sends, TypeInv
<1>2. PICK role \in {"worker", "verifier"} : dispatchSpawn(role, "append")
  BY DEF spawnForCard
<1>3. CASE FillsNone
  BY <1>1, <1>3, PlanIdles, NamesStay DEF Standing, FillsNone
<1>4. ASSUME NEW new \in Convs, Fills(role, "append", new)
      PROVE  NameInv'
  <2>0. /\ new # lease.conv /\ new.role = role
        /\ seats' = [seats EXCEPT ![new] = Seat(role)]
        /\ \/ beat' = Then(<<[Current EXCEPT !.op = "append", !.conv = new]>> \o Rest)
           \/ beat' = Then(Rest)
    BY <1>4 DEF Fills
  <2> DEFINE s == [Current EXCEPT !.op = "append", !.conv = new]
  <2>1. s \in Good /\ s.op = "append"
    BY <1>1 DEF Good, Steps, Ops, Sends
  <2> HIDE DEF s
  <2>2. Idles(beat')
    <3>1. Idles(Then(<<s>> \o Rest)) /\ Idles(Then(Rest))
      BY <1>1, <2>1, PlanIdles, OneIdles
    <3> QED BY <2>0, <3>1 DEF s
  <2>3. ~Performing("wake")' /\ ~Performing("adopt")'
    BY <2>2 DEF Idles, Performing, Current
  <2>4. ASSUME NEW i \in Convs, i # new
        PROVE  seats'[i] = seats[i] /\ Standing(i)' = Standing(i) /\ Master(i)' = Master(i)
    BY <2>0, <2>4 DEF Master, Standing, TypeInv, SeatInv
  <2>5. ~Master(new)'
    BY <1>2, <2>0 DEF Master
  <2>6. \A i \in Convs : Master(i)' => i # new
    BY <2>5
  <2>7. Standing(lease.conv)' => Standing(lease.conv) /\ seats'[lease.conv] = seats[lease.conv]
    <3>1. Standing(lease.conv)' => lease.conv \in Convs
      BY <1>1 DEF Standing
    <3> QED BY <1>1, <2>0, <2>4, <3>1 DEF Standing
  <2> QED BY <1>1, <2>3, <2>4, <2>6, <2>7 DEF NameInv
<1> QED BY <1>2, <1>3, <1>4, SpawnFills

\* What moves underneath, and the steps that neither spawn nor touch the lease.
LEMMA OthersNames ==
  ASSUME TypeInv, NameInv,
         \/ sweepEpics \/ runEpicBeat \/ appendDispatch \/ settleRun \/ standDown \/ OpLost
         \/ Restart \/ LeaseAges \/ CeilingReached \/ pause \/ start \/ actionBreakLease
  PROVE  NameInv'
<1>1. lease'.gen = lease.gen /\ lease'.conv \in {lease.conv, NoConv}
  <2>1. lease' = lease \/ lease' = Released \/ lease' = [lease EXCEPT !.at = "aged"]
    BY DEF sweepEpics, runEpicBeat, appendDispatch, settleRun, standDown, OpLost, Restart, LeaseAges,
           CeilingReached, pause, start, actionBreakLease
  <2> QED BY <2>1 DEF Released, TypeInv, DataInv
<1>2. \A i \in Convs : Standing(i)' => Standing(i) /\ seats'[i].gen = seats[i].gen
  <2>1. CASE sweepEpics
    BY <2>1 DEF sweepEpics, Standing, Over
  <2>2. CASE Restart
    <3>1. ASSUME NEW i \in Convs
          PROVE  seats'[i].st = seats[i].st /\ seats'[i].gen = seats[i].gen
      <4>1. CASE seats[i].st = "launching"
        <5>1. seats[i] \in [gen : 0..MaxGens, tag : BOOLEAN, out : BOOLEAN,
                             st : {"launching", "up", "silent", "lost"}]
          BY <4>1 DEF TypeInv, SeatInv, SeatRecs, Over
        <5> QED BY <2>2, <4>1, <5>1 DEF Restart
      <4>2. CASE seats[i].st # "launching"
        BY <2>2, <4>2 DEF Restart
      <4> QED BY <4>1, <4>2
    <3> QED BY <3>1 DEF Standing
  <2>3. CASE ~sweepEpics /\ ~Restart
    BY <2>3 DEF runEpicBeat, appendDispatch, settleRun, standDown, OpLost, LeaseAges,
           CeilingReached, pause, start, actionBreakLease, Operator, Standing
  <2> QED BY <2>1, <2>2, <2>3
<1>3. beat' = beat \/ Idles(beat')
  <2>1. Do("release") \in Good /\ Do("release").op = "release" /\ Do("forget") \in Good /\ Do("forget").op = "forget"
    BY DoTyped DEF Ops, TypeInv, Do
  <2>2. Idles(Then(<<Do("release")>>)) /\ Idles(Then(<<Do("forget")>>)) /\ Idles(Resting)
    <3>1. <<>> \in Seq(Planned)
      OBVIOUS
    <3> QED BY <2>1, <3>1, OneIdles
  <2>3. beat.pc = "act" => Idles(Then(Rest))
    BY CurrentTyped, PlanIdles DEF TypeInv
  <2>4. CASE sweepEpics
    BY <2>4 DEF sweepEpics, Idles, TypeInv, BeatOK
  <2>5. CASE runEpicBeat
    <3>1. CASE isInertRun(run.status)
      BY <2>2, <2>5, <3>1 DEF runEpicBeat
    <3>2. CASE ~isInertRun(run.status)
      <4>1. PICK shut \in BOOLEAN : \E d \in decide(beat.group, shut) : beat' = Then(d.todo)
        BY <2>5, <3>2 DEF runEpicBeat
      <4>2. PICK d \in decide(beat.group, shut) : beat' = Then(d.todo)
        BY <4>1
      <4> QED BY <4>2, DecideTyped, PlanIdles DEF TypeInv
    <3> QED BY <3>1, <3>2
  <2>6. CASE appendDispatch \/ settleRun \/ standDown
    BY <2>2, <2>3, <2>6 DEF appendDispatch, settleRun, standDown, Performing
  <2>7. CASE OpLost
    BY <2>2, <2>3, <2>7 DEF OpLost
  <2>8. CASE ~(sweepEpics \/ runEpicBeat \/ appendDispatch \/ settleRun \/ standDown \/ OpLost)
    BY <2>2, <2>8 DEF Restart, LeaseAges, CeilingReached, pause, start, actionBreakLease, Operator
  <2> QED BY <2>4, <2>5, <2>6, <2>7, <2>8
<1> QED BY <1>1, <1>2, <1>3, NamesStay

LEMMA NextNames == TypeInv /\ NameInv /\ [Next]_vars => NameInv'
<1> SUFFICES ASSUME TypeInv, NameInv, [Next]_vars PROVE NameInv'
  OBVIOUS
<1>1. CASE takeLease
  BY <1>1, TakeNames
<1>2. CASE wakeWerkMaster
  BY <1>2, WakeNames
<1>3. CASE adoptLease
  BY <1>3, AdoptNames
<1>4. CASE spawnForCard
  BY <1>4, SendNames
<1>5. CASE \/ sweepEpics \/ runEpicBeat \/ appendDispatch \/ settleRun \/ standDown \/ OpLost
           \/ Restart \/ LeaseAges \/ CeilingReached \/ pause \/ start \/ actionBreakLease
  BY <1>5, OthersNames
<1>6. ASSUME NEW i \in Seats,
             \/ Attach(i) \/ LaunchLost(i) \/ FallsSilent(i) \/ BackFromSilence(i)
             \/ Works(i) \/ Ends(i) \/ ConfigExpires(i) \/ HoldExpires(i)
      PROVE  NameInv'
  BY <1>6, HostsSeatNobody, NamesStay
<1>7. CASE UNCHANGED vars
  BY <1>7, NamesStay DEF vars, Standing
<1> QED BY <1>1, <1>2, <1>3, <1>4, <1>5, <1>6, <1>7 DEF Next, Perform

LEMMA InitNames == Init => NameInv
<1> SUFFICES ASSUME Init PROVE NameInv
  OBVIOUS
<1>1. \A i \in Convs : ~Standing(i)
  BY DEF Init, Standing, Over
<1>2. ~Standing(lease.conv)
  BY NobodyStands DEF Init
<1>3. beat.pc # "act"
  BY DEF Init, Resting
<1> QED BY <1>1, <1>2, <1>3 DEF NameInv, Master, Performing

LEMMA NamesTell == NameInv => LeaseNames
<1> SUFFICES ASSUME NameInv PROVE LeaseNames
  OBVIOUS
<1>1. ASSUME NEW i \in Seats, Running(i) PROVE Standing(i)
  BY <1>1 DEF Seats, Running, Standing
<1>2. ASSUME NEW i \in Seats, NEW j \in Seats, Twins(i, j), i.role = "master"
      PROVE  seats[i].gen # seats[j].gen
  BY <1>1, <1>2 DEF Twins, NameInv, Master, Seats
<1>3. (lease.conv \in Seats /\ Running(lease.conv)) => seats[lease.conv].gen = lease.gen
  BY <1>1 DEF NameInv
<1> QED BY <1>2, <1>3 DEF LeaseNames

\* A generation of the lease names one werk-master, and the lease names the one of
\* its own generation, although takeLease bumps it under a placeholder, the spawn is
\* awaited, and adoptLease writes the holder afterwards: for any number of restarts,
\* refusals, late launches, and breaks of the lease by the operator in between.
THEOREM GenerationNamesOneMaster == Spec => []LeaseNames
  BY InitNames, NextNames, NamesTell, AlwaysTyped, PTL DEF Spec

(***************************************************************************)
(* A card's seats.  First, plans that fit what is in sight.                *)
(***************************************************************************)
\* One step per card is one step per card: as many steps as cards, on all of them.
LEMMA StepsForOnePerCard ==
  ASSUME NEW op \in Sends, NEW S \in SUBSET Cards, NEW q \in StepsFor(op, S)
  PROVE  /\ OnePerCard(q)
         /\ \A n \in 1..Len(q) : q[n].op = op /\ q[n].card \in S
<1> DEFINE k == Cardinality(S)
           T == {[Do(op) EXCEPT !.card = c] : c \in S}
           f == [n \in 1..k |-> q[n].card]
<1>1. IsFiniteSet(S)
  BY FS_Subset, BeatAssumption
<1>2. k \in Nat
  BY <1>1, FS_CardinalityType
<1>3. q \in [1..k -> T] /\ {q[n].card : n \in DOMAIN q} = S
  BY DEF StepsFor
<1>4. \A t \in T : t.op = op
  BY DEF Do
<1> HIDE DEF k, T
<1>5. Len(q) = k /\ DOMAIN q = 1..k
  BY <1>2, <1>3
<1>6. \A n \in 1..k : q[n].op = op /\ q[n].card \in S
  BY <1>3, <1>4
<1>7. f \in Surjection(1..k, S)
  <2>1. f \in [1..k -> S]
    BY <1>6
  <2>2. \A c \in S : \E n \in 1..k : f[n] = c
    BY <1>3, <1>5
  <2> QED BY <2>1, <2>2, Fun_IsSurj
<1>8. IsFiniteSet(1..k) /\ Cardinality(1..k) = k
  BY <1>2, FS_Interval
<1>9. \A n \in 1..k : f[n] = q[n].card
  OBVIOUS
<1> HIDE DEF f
<1>10. f \in Injection(1..k, S)
  BY <1>7, <1>8, FS_SurjSameCardinalityImpliesInj DEF k
<1>11. \A m, n \in 1..k : f[m] = f[n] => m = n
  BY <1>10, Fun_InjectionProperties
<1> QED BY <1>5, <1>6, <1>9, <1>11 DEF OnePerCard

\* A plan without a send fits anything.
LEMMA NoSendFits ==
  ASSUME NEW q, \A n \in 1..Len(q) : q[n].op \notin Sends, NEW V
  PROVE  FitPlan(q, V)
  BY DEF FitPlan, OnePerCard

LEMMA NothingFits ==
  ASSUME NEW V
  PROVE  FitPlan(<<>>, V)
<1>1. Len(<<>>) = 0
  OBVIOUS
<1> QED BY <1>1, NoSendFits

LEMMA OneStepFits ==
  ASSUME NEW s, s.op \notin Sends, NEW V
  PROVE  FitPlan(<<s>>, V)
<1>1. Len(<<s>>) = 1 /\ <<s>>[1] = s
  OBVIOUS
<1> QED BY <1>1, NoSendFits

\* What is left of a plan that fits, with or without another step ahead of it.
LEMMA RestFits ==
  ASSUME NEW q \in Seq(Good), q # <<>>, NEW V, FitPlan(q, V)
  PROVE  /\ FitPlan(Tail(q), V)
         /\ Head(q).op \in Sends =>
              /\ Vacant(Head(q).op, Head(q).card, V)
              /\ \A n \in 1..Len(Tail(q)) :
                   Tail(q)[n].op = Head(q).op => Tail(q)[n].card # Head(q).card
<1>1. /\ Len(q) \in Nat /\ Len(q) > 0 /\ Len(Tail(q)) = Len(q) - 1
      /\ \A n \in 1..Len(Tail(q)) : Tail(q)[n] = q[n + 1]
  BY HeadTailProperties, LenProperties
<1>2. Head(q) = q[1]
  OBVIOUS
<1>3. \A n \in 1..Len(Tail(q)) : n + 1 \in 1..Len(q) /\ n + 1 # 1 /\ n \in Int
  BY <1>1
<1>4. 1 \in 1..Len(q)
  BY <1>1
<1>5. OnePerCard(Tail(q))
  <2> SUFFICES ASSUME NEW m \in 1..Len(Tail(q)), NEW n \in 1..Len(Tail(q)), m # n,
                      Tail(q)[m].op \in Sends, Tail(q)[n].op = Tail(q)[m].op
               PROVE  Tail(q)[m].card # Tail(q)[n].card
    BY DEF OnePerCard
  <2>1. m + 1 # n + 1
    BY <1>3
  <2> QED BY <1>1, <1>3, <2>1 DEF FitPlan, OnePerCard
<1>6. \A n \in 1..Len(Tail(q)) : Tail(q)[n].op \in Sends => Vacant(Tail(q)[n].op, Tail(q)[n].card, V)
  BY <1>1, <1>3 DEF FitPlan
<1>7. Head(q).op \in Sends => Vacant(Head(q).op, Head(q).card, V)
  BY <1>2, <1>4 DEF FitPlan
<1>8. Head(q).op \in Sends =>
        \A n \in 1..Len(Tail(q)) : Tail(q)[n].op = Head(q).op => Tail(q)[n].card # Head(q).card
  BY <1>1, <1>2, <1>3, <1>4 DEF FitPlan, OnePerCard
<1> QED BY <1>5, <1>6, <1>7, <1>8 DEF FitPlan

LEMMA AheadFits ==
  ASSUME NEW q \in Seq(Good), NEW s \in Good, s.op \notin Sends, NEW V, FitPlan(q, V)
  PROVE  FitPlan(<<s>> \o q, V)
<1> DEFINE r == <<s>> \o q
<1>1. Len(r) = Len(q) + 1 /\ Len(q) \in Nat
  OBVIOUS
<1>2. r[1] = s /\ \A n \in 1..Len(r) : n # 1 => r[n] = q[n - 1]
  OBVIOUS
<1> HIDE DEF r
<1>3. \A n \in 1..Len(r) : r[n].op \in Sends => n # 1 /\ r[n] = q[n - 1] /\ n - 1 \in 1..Len(q) /\ n \in Int
  BY <1>1, <1>2
<1>4. OnePerCard(r)
  <2> SUFFICES ASSUME NEW m \in 1..Len(r), NEW n \in 1..Len(r), m # n,
                      r[m].op \in Sends, r[n].op = r[m].op
               PROVE  r[m].card # r[n].card
    BY DEF OnePerCard
  <2>1. /\ r[m] = q[m - 1] /\ m - 1 \in 1..Len(q)
        /\ r[n] = q[n - 1] /\ n - 1 \in 1..Len(q) /\ m - 1 # n - 1
    BY <1>3
  <2>2. OnePerCard(q)
    BY DEF FitPlan
  <2> QED BY <2>1, <2>2 DEF OnePerCard
<1>5. \A n \in 1..Len(r) : r[n].op \in Sends => Vacant(r[n].op, r[n].card, V)
  BY <1>3 DEF FitPlan
<1> QED BY <1>4, <1>5 DEF FitPlan, r

\* Fewer seats in sight.
LEMMA FewerFit ==
  ASSUME NEW q, NEW V, FitPlan(q, V), NEW W \in SUBSET V
  PROVE  FitPlan(q, W)
  BY DEF FitPlan, Vacant

\* Verdicts, then work: the two parts of a plan do not meet.
LEMMA JoinFits ==
  ASSUME NEW v \in Seq(Planned), NEW w \in Seq(Planned), NEW V, FitPlan(v, V), FitPlan(w, V),
         \A n \in 1..Len(v) : v[n].op = "verify", \A n \in 1..Len(w) : w[n].op = "dispatch"
  PROVE  FitPlan(v \o w, V)
<1> DEFINE r == v \o w
<1>1. Len(r) = Len(v) + Len(w) /\ Len(v) \in Nat /\ Len(w) \in Nat
  OBVIOUS
<1>2. \A n \in 1..Len(r) : r[n] = IF n <= Len(v) THEN v[n] ELSE w[n - Len(v)]
  OBVIOUS
<1> HIDE DEF r
<1>3. \A n \in 1..Len(r) :
        \/ n \in 1..Len(v) /\ r[n] = v[n] /\ r[n].op = "verify"
        \/ n - Len(v) \in 1..Len(w) /\ r[n] = w[n - Len(v)] /\ r[n].op = "dispatch" /\ n \in Int
  BY <1>1, <1>2
<1>4. OnePerCard(r)
  <2> SUFFICES ASSUME NEW m \in 1..Len(r), NEW n \in 1..Len(r), m # n, r[n].op = r[m].op
               PROVE  r[m].card # r[n].card
    BY DEF OnePerCard
  <2>1. CASE r[m].op = "verify"
    <3>1. m \in 1..Len(v) /\ r[m] = v[m] /\ n \in 1..Len(v) /\ r[n] = v[n]
      BY <1>3, <2>1
    <3> QED BY <2>1, <3>1 DEF FitPlan, OnePerCard, Sends
  <2>2. CASE r[m].op # "verify"
    <3>1. /\ m - Len(v) \in 1..Len(w) /\ r[m] = w[m - Len(v)] /\ r[m].op = "dispatch"
          /\ n - Len(v) \in 1..Len(w) /\ r[n] = w[n - Len(v)] /\ m - Len(v) # n - Len(v)
      BY <1>1, <1>3, <2>2
    <3> QED BY <3>1 DEF FitPlan, OnePerCard, Sends
  <2> QED BY <2>1, <2>2
<1>5. \A n \in 1..Len(r) : r[n].op \in Sends => Vacant(r[n].op, r[n].card, V)
  BY <1>3 DEF FitPlan
<1> QED BY <1>4, <1>5 DEF FitPlan, r

\* A decision sends nobody to a card on which the fold, or a hold, counts a seat of
\* the role.
LEMMA DecisionFits ==
  ASSUME DataInv, NEW g, NEW shut \in BOOLEAN, NEW d \in decide(g, shut), NEW V,
         \A i \in V : i.card \in InFlight(g),
         \A i \in V : i.role = "verifier" => i.card \in g.inVerify \cup pendingSeatCards(g)
  PROVE  FitPlan(d.todo, V)
<1>1. Verify(g) \in SUBSET Cards /\ Ready(g) \in SUBSET Cards
  BY DEF Verify, Ready
<1>2. ASSUME NEW v \in StepsFor("verify", Verify(g))
      PROVE  /\ v \in Seq(Planned) /\ FitPlan(v, V)
             /\ \A n \in 1..Len(v) : v[n].op = "verify"
  <2>1. OnePerCard(v) /\ \A n \in 1..Len(v) : v[n].op = "verify" /\ v[n].card \in Verify(g)
    BY <1>1, StepsForOnePerCard DEF Sends
  <2>2. \A c \in Verify(g) : Vacant("verify", c, V)
    BY DEF Vacant, RoleSent, Verify
  <2> QED BY <1>1, <2>1, <2>2, StepsForTyped DEF FitPlan
<1>3. ASSUME NEW m \in WorkSteps(g) PROVE FitPlan(m, V)
  <2> DEFINE D == UNION {StepsFor("dispatch", S) : S \in Dispatches(g)}
  <2>1. PICK v \in StepsFor("verify", Verify(g)) : m \in {v \o w : w \in D}
    BY <1>3, Zenon DEF WorkSteps
  <2>2. PICK w \in D : m = v \o w
    BY <2>1, Zenon
  <2>3. PICK S \in Dispatches(g) : w \in StepsFor("dispatch", S)
    BY <2>2, Zenon
  <2>4. S \in SUBSET Ready(g) /\ S \in SUBSET Cards
    BY <1>1, <2>3 DEF Dispatches
  <2> HIDE DEF D
  <2>5. OnePerCard(w) /\ \A n \in 1..Len(w) : w[n].op = "dispatch" /\ w[n].card \in Ready(g)
    BY <2>3, <2>4, StepsForOnePerCard DEF Sends
  <2>6. \A c \in Ready(g) : Vacant("dispatch", c, V)
    BY DEF Vacant, Ready
  <2>7. w \in Seq(Planned) /\ FitPlan(w, V)
    BY <2>3, <2>4, <2>5, <2>6, StepsForTyped DEF FitPlan
  <2> QED BY <1>2, <2>1, <2>2, <2>5, <2>7, JoinFits
<1>4. FitPlan(<<>>, V) /\ FitPlan(Wake(g), V) /\ FitPlan(<<Do("park")>>, V) /\ FitPlan(<<Do("complete")>>, V)
  <2>1. [Do("take") EXCEPT !.alive = holderIsAlive(g)].op = "take"
    BY DEF Do
  <2>2. Do("park").op = "park" /\ Do("complete").op = "complete"
    BY DEF Do
  <2> QED BY <2>1, <2>2, OneStepFits, NothingFits DEF Wake, Sends
<1>5. \A q, n : Decision(q, n).todo = q
  BY DEF Decision
<1>6. \/ d \in {Decision(<<Do("park")>>, run.dry), Decision(<<>>, run.dry), Decision(Wake(g), run.dry)}
      \/ d \in workBeat(g, shut)
  BY Zenon DEF decide
<1>7. CASE d \in workBeat(g, shut)
  <2>1. CASE shut
    <3>1. PICK v \in StepsFor("verify", Verify(g)) : d = Decision(v, run.dry)
      BY <1>7, <2>1 DEF workBeat
    <3> QED BY <1>2, <1>5, <3>1
  <2>2. CASE ~shut
    <3>1. d \in movedBeat(g)
      BY <1>7, <2>2 DEF workBeat
    <3>2. \/ \E m \in WorkSteps(g) : d = Decision(m, 0)
          \/ d = Decision(<<Do("complete")>>, run.dry)
          \/ d = Decision(<<>>, run.dry)
          \/ d = Decision(<<Do("park")>>, run.dry)
          \/ d = Decision(Wake(g), run.dry + 1)
      BY <3>1, Zenon DEF movedBeat
    <3> QED BY <1>3, <1>4, <1>5, <3>2
  <2> QED BY <2>1, <2>2
<1> QED BY <1>4, <1>5, <1>6, <1>7

(***************************************************************************)
(* A card's seats.  Then, the steps.                                       *)
(***************************************************************************)
LEMMA InSightTyped ==
  ASSUME NEW i \in InSight
  PROVE  i \in Convs /\ i.role \in {"worker", "verifier"} /\ i.card \in Cards /\ i \in Seats
  BY DEF InSight, Convs, Running, Seats, Over

\* What is in sight, shown or held stays so; the beat is left alone or does not look.
LEMMA SinglesStay ==
  ASSUME SingleInv, InSight' \subseteq InSight,
         \A i \in InSight' : i \in Registered => i \in Registered',
         \A i \in InSight' : i \in log.held => i \in log'.held,
         \/ beat' = beat /\ log'.held \subseteq log.held
         \/ /\ beat'.pc # "read" /\ FitPlan(beat'.todo, InSight)
            /\ \A i \in InSight' : (Performing("append") /\ Current.conv = i)
                                      => i \in Registered' \cup log'.held
  PROVE  SingleInv'
<1>1. Distinct(InSight')
  BY DEF SingleInv, Distinct
<1>2. CASE beat' = beat /\ log'.held \subseteq log.held
  <2>1. SeenInv'
    <3>1. Performing("append") => Performing("append")' /\ Current' = Current
      BY <1>2 DEF Performing, Current
    <3> QED BY <3>1 DEF SeenInv, SingleInv
  <2>2. FoldInv'
    BY <1>2 DEF FoldInv, SingleInv, Counted
  <2>3. FitPlan(beat'.todo, InSight')
    BY <1>2, FewerFit DEF SingleInv
  <2> QED BY <1>1, <2>1, <2>2, <2>3 DEF SingleInv
<1>3. CASE /\ beat'.pc # "read" /\ FitPlan(beat'.todo, InSight)
           /\ \A i \in InSight' : (Performing("append") /\ Current.conv = i)
                                     => i \in Registered' \cup log'.held
  <2>1. SeenInv'
    BY <1>3 DEF SeenInv, SingleInv
  <2>2. FoldInv'
    BY <1>3 DEF FoldInv
  <2>3. FitPlan(beat'.todo, InSight')
    BY <1>3, FewerFit
  <2> QED BY <1>1, <2>1, <2>2, <2>3 DEF SingleInv
<1> QED BY <1>2, <1>3

\* What a beat that acts may go on with.
LEMMA LeftFits ==
  ASSUME TypeInv, beat.pc = "act", FitPlan(beat.todo, InSight)
  PROVE  /\ FitPlan(Rest, InSight) /\ FitPlan(Then(Rest).todo, InSight) /\ Then(Rest).pc # "read"
         /\ FitPlan(Resting.todo, InSight) /\ Resting.pc # "read"
         /\ \A s \in Good : s.op \notin Sends =>
               /\ FitPlan(Then(<<s>> \o Rest).todo, InSight) /\ Then(<<s>> \o Rest).pc # "read"
               /\ FitPlan(Then(<<s>>).todo, InSight) /\ Then(<<s>>).pc # "read"
<1>1. beat.todo \in Seq(Good) /\ beat.todo # <<>>
  BY DEF TypeInv, BeatOK
<1>2. Rest \in Seq(Planned) /\ Rest \in Seq(Good) /\ TodoOK(Rest)
  BY CurrentTyped, PlannedIsGood DEF TypeInv
<1>3. FitPlan(Rest, InSight)
  BY <1>1, RestFits DEF Rest
<1>4. \A q : Then(q).pc # "read"
  BY DEF Then, Resting
<1>5. FitPlan(Resting.todo, InSight)
  BY NoSendFits DEF Resting
<1>6. ASSUME NEW s \in Good, s.op \notin Sends
      PROVE  FitPlan(Then(<<s>> \o Rest).todo, InSight) /\ FitPlan(Then(<<s>>).todo, InSight)
  <2>1. Then(<<s>> \o Rest).todo = <<s>> \o Rest
    BY <1>2, <1>6, StepAhead, ThenTyped
  <2>2. Then(<<s>>).todo = <<s>>
    BY <1>6, OneStep, ThenTyped
  <2>3. FitPlan(<<s>> \o Rest, InSight)
    BY <1>2, <1>3, <1>6, AheadFits
  <2>4. FitPlan(<<s>>, InSight)
    BY <1>6, OneStepFits
  <2> QED BY <2>1, <2>2, <2>3, <2>4
<1>7. Then(Rest).todo = Rest
  BY <1>2, ThenTyped
<1> QED BY <1>2, <1>3, <1>4, <1>5, <1>6, <1>7 DEF Resting

\* The fold counts what is in sight, or a hold does.
LEMMA SweepSingles == ASSUME TypeInv, SingleInv, sweepEpics PROVE SingleInv'
<1>1. beat.pc = "idle" /\ beat.todo = <<>>
  BY DEF sweepEpics, TypeInv, BeatOK
<1>2. /\ beat'.pc = "read" /\ beat'.todo = <<>> /\ beat'.group = groupEpicConversations
      /\ log'.held = (log.held \cap Seats) \ Registered
  BY <1>1 DEF sweepEpics, TypeInv, BeatOK, DataInv
<1>3. \A i \in Convs : Running(i)' = Running(i)
  BY DEF sweepEpics, Running, Over
<1>4. InSight' = InSight
  BY <1>3 DEF sweepEpics, InSight, history
<1>5. \A i \in InSight : seats'[i] = seats[i]
  BY DEF sweepEpics, InSight, Running
<1>6. \A i \in InSight : i \in Registered => i \in Registered'
  BY <1>5 DEF Registered, Seats
<1>7. \A i \in InSight : i \in Registered => Counted(groupEpicConversations, i)
  <2> SUFFICES ASSUME NEW i \in InSight, i \in Registered
               PROVE  Counted(groupEpicConversations, i)
    OBVIOUS
  <2>1. Alive(i) /\ i \in SeatsOf(i.card) /\ i.card \in Cards
    BY InSightTyped DEF InSight, Running, Registered, Alive, SeatsOf
  <2> QED BY <2>1, Zenon DEF Counted, groupEpicConversations
<1>8. \A i \in InSight : i \in log'.held \/ i \in Registered
  BY <1>1, <1>2, InSightTyped DEF SingleInv, SeenInv, Performing
<1>9. SeenInv'
  BY <1>4, <1>6, <1>8 DEF SeenInv
<1>10. FoldInv'
  <2>1. groupEpicConversations.known = Registered
    BY DEF groupEpicConversations
  <2> QED BY <1>2, <1>4, <1>6, <1>7, <1>8, <2>1 DEF FoldInv, Counted
<1>11. FitPlan(beat'.todo, InSight')
  BY <1>2, NothingFits
<1> QED BY <1>4, <1>9, <1>10, <1>11 DEF SingleInv

\* The decision counts them too; a completion that ends a hold is on record.
LEMMA DecideSingles == ASSUME TypeInv, SingleInv, runEpicBeat PROVE SingleInv'
<1>1. /\ beat.pc = "read" /\ ~Performing("append")
      /\ UNCHANGED <<armed, lease, board, seats, past, slipped, crossed>>
  BY DEF runEpicBeat, Performing
<1>2. Registered' = Registered
  BY <1>1 DEF Registered, Seats
<1>3. CASE isInertRun(run.status)
  <2>1. beat' = Resting /\ log' = log /\ cleared' = cleared
    BY <1>3 DEF runEpicBeat
  <2>2. InSight' = InSight
    BY <1>1, <2>1 DEF InSight, Running
  <2>3. FitPlan(beat'.todo, InSight) /\ beat'.pc # "read"
    BY <2>1, NoSendFits DEF Resting
  <2> QED BY <1>1, <1>2, <2>1, <2>2, <2>3, SinglesStay
<1>4. CASE ~isInertRun(run.status)
  <2> DEFINE g == beat.group
  <2>1. PICK acks \in SUBSET unacknowledgedCards(g), shut \in BOOLEAN :
          /\ log' = [log EXCEPT !.acked = @ \cup acks,
                                !.held = {i \in @ : i.card \notin acks}]
          /\ cleared' = cleared \cup {i \in log.held \ g.known : Running(i) /\ i.card \in acks}
          /\ \E d \in decide(g, shut) : beat' = Then(d.todo)
    BY <1>4 DEF runEpicBeat
  <2>2. PICK d \in decide(g, shut) : beat' = Then(d.todo)
    BY <2>1
  <2>3. log'.held = {i \in log.held : i.card \notin acks}
    BY <2>1 DEF TypeInv, DataInv
  <2>4. InSight' \subseteq InSight
    BY <1>1, <2>1 DEF InSight, Running
  <2>5. /\ log.held \cap g.known = {}
        /\ \A i \in InSight : i \in log.held \/ (i \in Registered /\ Counted(g, i))
    BY <1>1 DEF SingleInv, FoldInv
  <2>6. \A i \in InSight' : i \in log.held => i \in log'.held
    <3>1. ASSUME NEW i \in InSight', i \in log.held, i.card \in acks PROVE FALSE
      <4>1. i \in cleared'
        BY <2>1, <2>4, <2>5, <3>1 DEF InSight
      <4> QED BY <3>1, <4>1 DEF InSight
    <3> QED BY <2>3, <3>1
  <2>7. /\ \A i \in InSight : i.card \in InFlight(g)
        /\ \A i \in InSight : i.role = "verifier" => i.card \in g.inVerify \cup pendingSeatCards(g)
    <3>1. \A i \in InSight : i \in log.held => i.card \in pendingSeatCards(g)
      BY <2>5 DEF pendingSeatCards
    <3> QED BY <2>5, <3>1 DEF Counted, InFlight
  <2>8. FitPlan(d.todo, InSight)
    BY <2>2, <2>7, DecisionFits DEF TypeInv
  <2>9. beat'.todo = d.todo /\ beat'.pc # "read"
    <3>1. TodoOK(d.todo)
      BY <2>2, DecideTyped, PlanIsTodo DEF TypeInv
    <3> QED BY <2>2, <3>1, ThenTyped DEF Then, Resting
  <2> QED BY <1>1, <1>2, <2>4, <2>6, <2>8, <2>9, SinglesStay
<1> QED BY <1>3, <1>4

\* The steps that seat nobody.
LEMMA UnseatedSingles ==
  ASSUME TypeInv, SingleInv,
         takeLease \/ adoptLease \/ appendDispatch \/ settleRun \/ standDown \/ OpLost \/ Restart
  PROVE  SingleInv'
<1>1. FitPlan(beat.todo, InSight)
  BY DEF SingleInv
<1>2. CASE takeLease \/ adoptLease \/ settleRun \/ standDown
  <2>1. /\ beat.pc = "act" /\ Current.op # "append" /\ Current \in Good
        /\ UNCHANGED <<log, seats, slipped, cleared>>
    BY <1>2, CurrentTyped DEF takeLease, adoptLease, settleRun, standDown, Performing, history, TypeInv
  <2>2. InSight' = InSight /\ Registered' = Registered
    BY <2>1 DEF InSight, Running, Registered, Seats
  <2>3. Do("release") \in Good /\ Do("forget") \in Good /\ Do("release").op = "release" /\ Do("forget").op = "forget"
    BY DoTyped DEF Ops, TypeInv, Do
  <2>4. FitPlan(beat'.todo, InSight) /\ beat'.pc # "read"
    <3>1. CASE takeLease
      <4>1. CASE evaluateLease(Current)
        <5> DEFINE s == [Current EXCEPT !.op = "wake", !.gen = lease.gen + 1]
        <5>1. Current.op = "take" /\ lease.gen = Current.gen /\ Current.gen < MaxGens /\ lease.gen \in 0..MaxGens
          BY <2>1, <3>1, <4>1 DEF takeLease, Performing, evaluateLease, Good, TypeInv, DataInv
        <5>2. lease.gen + 1 \in 0..MaxGens
          BY <5>1, BeatAssumption
        <5>3. s \in Good /\ s.op \notin Sends
          BY <2>1, <5>2 DEF Good, Steps, Ops, Sends
        <5>4. beat' = Then(<<s>> \o Rest)
          BY <3>1, <4>1 DEF takeLease
        <5> HIDE DEF s
        <5> QED BY <1>1, <2>1, <5>3, <5>4, LeftFits
      <4>2. CASE ~evaluateLease(Current)
        BY <1>1, <2>1, <3>1, <4>2, LeftFits DEF takeLease
      <4> QED BY <4>1, <4>2
    <3>2. CASE adoptLease
      BY <1>1, <2>1, <3>2, LeftFits DEF adoptLease
    <3>3. CASE settleRun \/ standDown
      <4>1. beat' \in {Then(<<Do("release")>>), Then(<<Do("forget")>>), Resting}
        BY <3>3 DEF settleRun, standDown
      <4> QED BY <1>1, <2>1, <2>3, <4>1, LeftFits DEF Sends
    <3> QED BY <1>2, <3>1, <3>2, <3>3
  <2> QED BY <2>1, <2>2, <2>4, SinglesStay DEF Performing
<1>3. CASE appendDispatch
  <2>1. /\ beat.pc = "act" /\ beat' = Then(Rest) /\ UNCHANGED <<seats, slipped, cleared>>
        /\ log'.held = log.held \cup {Current.conv}
    BY <1>3 DEF appendDispatch, Performing, history, TypeInv, DataInv
  <2>2. InSight' = InSight /\ Registered' = Registered
    BY <2>1 DEF InSight, Running, Registered, Seats
  <2>3. FitPlan(beat'.todo, InSight) /\ beat'.pc # "read"
    BY <1>1, <2>1, LeftFits
  <2> QED BY <2>1, <2>2, <2>3, SinglesStay
<1>4. CASE OpLost
  <2>1. /\ beat.pc = "act" /\ UNCHANGED <<log, seats, cleared>>
        /\ slipped' = IF Current.op = "append" THEN slipped \cup {i \in {Current.conv} : Running(i)} ELSE slipped
    BY <1>4 DEF OpLost
  <2>2. InSight' \subseteq InSight /\ Registered' = Registered
    BY <2>1 DEF InSight, Running, Registered, Seats
  <2>3. \A i \in InSight' : ~(Performing("append") /\ Current.conv = i)
    BY <2>1 DEF InSight, Running, Performing
  <2>4. Do("release") \in Good /\ Do("forget") \in Good /\ Do("release").op = "release" /\ Do("forget").op = "forget"
    BY DoTyped DEF Ops, TypeInv, Do
  <2>5. beat' \in {Then(<<Do("release")>>), Then(<<Do("forget")>>), Then(Rest)}
    BY <1>4 DEF OpLost
  <2>6. FitPlan(beat'.todo, InSight) /\ beat'.pc # "read"
    BY <1>1, <2>1, <2>4, <2>5, LeftFits DEF Sends
  <2> QED BY <2>1, <2>2, <2>3, <2>6, SinglesStay
<1>5. CASE Restart
  <2>1. /\ beat' = Resting /\ log' = log /\ cleared' = cleared
        /\ seats' = [i \in Convs |-> IF seats[i].st = "launching" THEN [seats[i] EXCEPT !.tag = FALSE]
                                     ELSE seats[i]]
        /\ slipped' = IF Performing("append") THEN slipped \cup {i \in {Current.conv} : Running(i)} ELSE slipped
    BY <1>5 DEF Restart
  <2>2. ASSUME NEW i \in Convs PROVE seats'[i].st = seats[i].st
    <3>1. CASE seats[i].st = "launching"
      BY <2>1, <3>1, RecordTyped DEF TypeInv, SeatInv
    <3>2. CASE seats[i].st # "launching"
      BY <2>1, <3>2
    <3> QED BY <3>1, <3>2
  <2>3. InSight' \subseteq InSight
    BY <2>1, <2>2 DEF InSight, Running
  <2>4. \A i \in Registered : i \in Registered'
    <3>1. ASSUME NEW i \in Registered PROVE i \in Convs /\ seats'[i] = seats[i]
      BY <2>1, <3>1 DEF Registered, Seats
    <3> QED BY <3>1 DEF Registered, Seats
  <2>5. \A i \in InSight' : ~(Performing("append") /\ Current.conv = i)
    <3>1. ASSUME NEW i \in InSight', Performing("append"), Current.conv = i PROVE FALSE
      <4>1. Running(i)
        BY <2>3, <3>1 DEF InSight
      <4>2. i \in slipped'
        BY <2>1, <3>1, <4>1
      <4> QED BY <3>1, <4>2 DEF InSight
    <3> QED BY <3>1
  <2>6. FitPlan(beat'.todo, InSight) /\ beat'.pc # "read"
    BY <2>1, NothingFits DEF Resting
  <2> QED BY <2>1, <2>3, <2>4, <2>5, <2>6, SinglesStay
<1> QED BY <1>2, <1>3, <1>4, <1>5

\* A seat filled where none of its role is in sight.
LEMMA FillSingles ==
  ASSUME TypeInv, SingleInv, beat.pc = "act", log' = log, cleared' = cleared,
         NEW role \in {"worker", "verifier", "master"}, NEW next \in {"adopt", "append"},
         role # "master" => next = "append" /\ Current.op \in Sends /\ role = RoleSent(Current.op),
         Current.op \in {"wake", "dispatch", "verify"}, next = "append" => Current.card \in Cards,
         NEW new \in Convs, Fills(role, next, new)
  PROVE  SingleInv'
<1>1. Current \in Good /\ Rest \in Seq(Planned) /\ Rest \in Seq(Good) /\ TodoOK(Rest)
         /\ beat.todo \in Seq(Good) /\ beat.todo # <<>>
  BY CurrentTyped, PlannedIsGood DEF TypeInv, BeatOK
<1>2. /\ seats[new] = Over /\ new.role = role /\ new.card = Current.card
      /\ seats' = [seats EXCEPT ![new] = Seat(role)]
      /\ \/ beat' = Then(<<[Current EXCEPT !.op = next, !.conv = new]>> \o Rest) /\ slipped' = slipped
         \/ beat' = Then(Rest) /\ slipped' = slipped \cup {new}
  BY DEF Fills
<1>3. ASSUME NEW i \in Convs, i # new
      PROVE  /\ i \in InSight' => i \in InSight
             /\ i \in Registered => i \in Registered'
  <2>1. seats'[i] = seats[i]
    BY <1>2, <1>3 DEF TypeInv, SeatInv
  <2> QED BY <1>2, <1>3, <2>1 DEF InSight, Running, Registered, Seats
<1>4. new \in InSight' => role # "master" /\ slipped' = slipped
  BY <1>2 DEF InSight
<1>5. InSight' \subseteq InSight \cup {new}
  BY <1>3 DEF InSight
<1>6. /\ FitPlan(Rest, InSight)
      /\ Current.op \in Sends =>
           /\ Vacant(Current.op, Current.card, InSight)
           /\ \A n \in 1..Len(Rest) : Rest[n].op = Current.op => Rest[n].card # Current.card
  BY <1>1, RestFits DEF SingleInv, Current, Rest
<1>7. Distinct(InSight')
  <2> SUFFICES ASSUME NEW i \in InSight', NEW j \in InSight', i.role = j.role, i.card = j.card
               PROVE  i = j
    BY DEF Distinct
  <2>1. CASE i \in InSight /\ j \in InSight
    BY <2>1 DEF SingleInv, Distinct
  <2>2. ASSUME NEW k \in InSight, new \in InSight', k.role = role, k.card = Current.card PROVE FALSE
    BY <1>4, <1>6, <2>2 DEF Vacant
  <2> QED BY <1>2, <1>5, <2>1, <2>2
<1>8. FitPlan(Rest, InSight')
  <2>1. ASSUME NEW n \in 1..Len(Rest), Rest[n].op \in Sends
        PROVE  Vacant(Rest[n].op, Rest[n].card, InSight')
    <3>1. Vacant(Rest[n].op, Rest[n].card, InSight)
      BY <1>6, <2>1 DEF FitPlan
    <3>2. ASSUME new \in InSight', role = RoleSent(Rest[n].op) PROVE Current.card # Rest[n].card
      <4>1. Current.op \in Sends /\ RoleSent(Current.op) = RoleSent(Rest[n].op)
        BY <1>4, <3>2
      <4>2. Rest[n].op = Current.op
        BY <2>1, <4>1 DEF Sends, RoleSent
      <4> QED BY <1>6, <4>1, <4>2
    <3> QED BY <1>2, <1>5, <3>1, <3>2 DEF Vacant
  <2> QED BY <1>6, <2>1 DEF FitPlan
<1> DEFINE s == [Current EXCEPT !.op = next, !.conv = new]
<1>9. s \in Good /\ s.op = next /\ s.conv = new /\ s.op \notin Sends
  BY <1>1 DEF Good, Steps, Ops, Sends
<1> HIDE DEF s
<1>10. /\ Then(<<s>> \o Rest).todo = <<s>> \o Rest /\ Then(<<s>> \o Rest).pc = "act"
       /\ Head(<<s>> \o Rest) = s
  <2>1. TodoOK(<<s>> \o Rest) /\ <<s>> \o Rest # <<>> /\ Head(<<s>> \o Rest) = s
    BY <1>1, <1>9, StepAhead
  <2> QED BY <2>1, ThenTyped
<1>11. Then(Rest).todo = Rest /\ Then(Rest).pc # "read"
  BY <1>1, ThenTyped DEF Then, Resting
<1>12. FitPlan(<<s>> \o Rest, InSight')
  BY <1>1, <1>8, <1>9, AheadFits
<1>13. beat' = Then(<<s>> \o Rest) \/ beat' = Then(Rest)
  BY <1>2 DEF s
<1>14. FitPlan(beat'.todo, InSight') /\ beat'.pc # "read"
  BY <1>8, <1>10, <1>11, <1>12, <1>13
<1>15. SeenInv'
  <2> SUFFICES ASSUME NEW i \in InSight'
               PROVE  i \in Registered' \/ i \in log'.held \/ (Performing("append")' /\ Current'.conv = i)
    BY DEF SeenInv
  <2>1. CASE i = new
    <3>1. new \notin slipped' /\ role # "master" /\ next = "append"
      BY <1>4, <2>1 DEF InSight
    <3>2. beat' = Then(<<s>> \o Rest)
      BY <1>2, <3>1 DEF s
    <3> QED BY <1>9, <1>10, <2>1, <3>1, <3>2 DEF Performing, Current
  <2>2. CASE i # new
    <3>1. i \in InSight /\ i \in Convs
      BY <1>5, <2>2 DEF InSight
    <3>2. i \in Registered \/ i \in log.held
      BY <3>1 DEF SingleInv, SeenInv, Performing
    <3> QED BY <1>3, <2>2, <3>1, <3>2
  <2> QED BY <2>1, <2>2
<1> QED BY <1>7, <1>14, <1>15 DEF SingleInv, FoldInv

LEMMA SpawnSingles == ASSUME TypeInv, SingleInv, wakeWerkMaster \/ spawnForCard PROVE SingleInv'
<1>1. /\ beat.pc = "act" /\ Current \in Good /\ Current.op \in {"wake", "dispatch", "verify"}
      /\ log' = log /\ cleared' = cleared
  BY CurrentTyped DEF wakeWerkMaster, spawnForCard, Performing, TypeInv
<1>2. Current.op \in Sends => Current.card \in Cards
  BY <1>1 DEF Good, Sends
<1>3. PICK role \in {"worker", "verifier", "master"}, next \in {"adopt", "append"} :
         /\ dispatchSpawn(role, next)
         /\ role # "master" => next = "append" /\ Current.op \in Sends /\ role = RoleSent(Current.op)
         /\ next = "append" => Current.op \in Sends
  BY DEF wakeWerkMaster, spawnForCard, Performing, Sends, RoleSent
<1>4. CASE FillsNone
  <2>1. beat' = Then(Rest) /\ InSight' = InSight /\ Registered' = Registered
    BY <1>1, <1>4 DEF FillsNone, InSight, Running, Registered, Seats
  <2>2. FitPlan(beat'.todo, InSight) /\ beat'.pc # "read"
    BY <1>1, <2>1, LeftFits DEF SingleInv
  <2> QED BY <1>1, <2>1, <2>2, SinglesStay DEF Performing
<1>5. ASSUME NEW new \in Convs, Fills(role, next, new) PROVE SingleInv'
  BY <1>1, <1>2, <1>3, <1>5, FillSingles
<1> QED BY <1>3, <1>4, <1>5, SpawnFills

\* A conversation and its host, and a hold that runs out.
LEMMA HostSingles ==
  ASSUME TypeInv, SingleInv, NEW i \in Seats,
         \/ Attach(i) \/ LaunchLost(i) \/ FallsSilent(i) \/ BackFromSilence(i)
         \/ Works(i) \/ Ends(i) \/ ConfigExpires(i) \/ HoldExpires(i)
  PROVE  SingleInv'
<1>1. i \in Convs /\ seats[i] \in SeatRecs /\ seats[i] # Over /\ seats \in [Convs -> SeatRecs]
  BY DEF Seats, TypeInv, SeatInv
<1>2. seats[i] \in [gen : 0..MaxGens, tag : BOOLEAN, out : BOOLEAN,
                    st : {"launching", "up", "silent", "lost"}]
  BY <1>1 DEF SeatRecs
<1>3. beat' = beat
  BY DEF Attach, LaunchLost, FallsSilent, BackFromSilence, Works, Ends, ConfigExpires,
         HoldExpires, Hosts, history
<1>4. ASSUME NEW j \in Convs, j # i
      PROVE  /\ j \in InSight' => j \in InSight
             /\ j \in Registered => j \in Registered'
             /\ j \in log.held => j \in log'.held
  <2>1. seats'[j] = seats[j]
    BY <1>1, <1>4 DEF Attach, LaunchLost, FallsSilent, BackFromSilence, Works, Ends, ConfigExpires,
         HoldExpires, Turn
  <2>2. j \in slipped' \cup cleared' <=> j \in slipped \cup cleared
    BY <1>4 DEF Attach, LaunchLost, FallsSilent, BackFromSilence, Works, Ends, ConfigExpires,
         HoldExpires, Turn, Hosts, history
  <2>3. j \in log.held => j \in log'.held
    <3>1. CASE HoldExpires(i)
      BY <1>4, <3>1 DEF HoldExpires, TypeInv, DataInv
    <3>2. CASE ~HoldExpires(i)
      BY <3>2 DEF Attach, LaunchLost, FallsSilent, BackFromSilence, Works, Ends, ConfigExpires, Hosts
    <3> QED BY <3>1, <3>2
  <2> QED BY <2>1, <2>2, <2>3 DEF InSight, Running, Registered, Seats
<1>5. log'.held \subseteq log.held
  <2>1. CASE HoldExpires(i)
    BY <2>1 DEF HoldExpires, TypeInv, DataInv
  <2>2. CASE ~HoldExpires(i)
    BY <2>2 DEF Attach, LaunchLost, FallsSilent, BackFromSilence, Works, Ends, ConfigExpires, Hosts
  <2> QED BY <2>1, <2>2
<1>6. ASSUME i \in InSight'
      PROVE  /\ i \in InSight
             /\ i \in Registered => i \in Registered'
             /\ i \in log.held => i \in log'.held
  <2>1. CASE Attach(i)
    <3>1. seats' = [seats EXCEPT ![i] = [seats[i] EXCEPT !.st = "up"]] /\ seats[i].st = "launching"
            /\ UNCHANGED <<log, slipped, cleared>>
      BY <2>1 DEF Attach, Turn, Hosts
    <3> QED BY <1>6, <1>1, <3>1 DEF InSight, Running, Registered
  <2>2. CASE LaunchLost(i) \/ FallsSilent(i) \/ Ends(i)
    <3>1. \E r \in {Lost, Over, [seats[i] EXCEPT !.st = "silent"]} : seats' = [seats EXCEPT ![i] = r]
      BY <2>2 DEF LaunchLost, FallsSilent, Ends, Turn
    <3>2. seats'[i].st \in {"lost", "over", "silent"}
      BY <1>1, <1>2, <3>1, GoneTyped
    <3> QED BY <1>6, <3>2 DEF InSight, Running
  <2>3. CASE BackFromSilence(i)
    BY <1>6, <2>3 DEF BackFromSilence, InSight
  <2>4. CASE Works(i)
    <3>1. seats' = [seats EXCEPT ![i] = [seats[i] EXCEPT !.out = TRUE]] /\ seats[i].st = "up"
            /\ UNCHANGED <<log, slipped, cleared>>
      BY <2>4 DEF Works, Turn, history
    <3>2. seats'[i].st = "up" /\ seats'[i].tag = seats[i].tag
      BY <1>1, <1>2, <3>1
    <3>3. seats'[i] # Over
      BY <3>2 DEF Over
    <3> QED BY <1>6, <1>1, <3>1, <3>2, <3>3 DEF InSight, Running, Registered, Seats
  <2>5. CASE ConfigExpires(i)
    <3>1. seats' = [seats EXCEPT ![i] = [seats[i] EXCEPT !.tag = FALSE]] /\ seats[i].st = "launching"
            /\ UNCHANGED <<log, slipped, cleared>>
      BY <2>5 DEF ConfigExpires, Turn, Hosts
    <3> QED BY <1>6, <1>1, <3>1 DEF InSight, Running, Registered
  <2>6. CASE HoldExpires(i)
    <3>1. CASE slipped' = slipped \cup {i}
      BY <1>6, <3>1 DEF InSight
    <3>2. CASE seats' = [seats EXCEPT ![i] = Over]
      BY <1>6, <1>1, <3>2 DEF InSight, Running, Over
    <3> QED BY <2>6, <3>1, <3>2 DEF HoldExpires
  <2> QED BY <2>1, <2>2, <2>3, <2>4, <2>5, <2>6
<1>7. \A j \in InSight' : j \in Convs
  BY DEF InSight
<1>8. InSight' \subseteq InSight
  BY <1>4, <1>6, <1>7
<1>9. \A j \in InSight' : j \in Registered => j \in Registered'
  BY <1>4, <1>6, <1>7
<1>10. \A j \in InSight' : j \in log.held => j \in log'.held
  BY <1>4, <1>6, <1>7
<1> QED BY <1>3, <1>5, <1>8, <1>9, <1>10, SinglesStay

LEMMA NextSingles == TypeInv /\ SingleInv /\ [Next]_vars => SingleInv'
<1> SUFFICES ASSUME TypeInv, SingleInv, [Next]_vars PROVE SingleInv'
  OBVIOUS
<1>1. CASE sweepEpics
  BY <1>1, SweepSingles
<1>2. CASE runEpicBeat
  BY <1>2, DecideSingles
<1>3. CASE takeLease \/ adoptLease \/ appendDispatch \/ settleRun \/ standDown \/ OpLost \/ Restart
  BY <1>3, UnseatedSingles
<1>4. CASE wakeWerkMaster \/ spawnForCard
  BY <1>4, SpawnSingles
<1>5. CASE LeaseAges \/ CeilingReached \/ pause \/ start \/ actionBreakLease \/ UNCHANGED vars
  <2>1. UNCHANGED <<log, seats, beat, slipped, cleared>>
    BY <1>5 DEF LeaseAges, CeilingReached, pause, start, actionBreakLease, Operator, history, vars
  <2>2. InSight' = InSight /\ Registered' = Registered
    BY <2>1 DEF InSight, Running, Registered, Seats
  <2> QED BY <2>1, <2>2, SinglesStay
<1>6. ASSUME NEW i \in Seats,
             \/ Attach(i) \/ LaunchLost(i) \/ FallsSilent(i) \/ BackFromSilence(i)
             \/ Works(i) \/ Ends(i) \/ ConfigExpires(i) \/ HoldExpires(i)
      PROVE  SingleInv'
  BY <1>6, HostSingles
<1> QED BY <1>1, <1>2, <1>3, <1>4, <1>5, <1>6 DEF Next, Perform

LEMMA InitSingles == Init => SingleInv
<1> SUFFICES ASSUME Init PROVE SingleInv
  OBVIOUS
<1>1. InSight = {}
  BY DEF Init, InSight, Running, Over
<1>2. beat.pc = "idle" /\ beat.todo = <<>>
  BY DEF Init, Resting
<1> QED BY <1>1, <1>2, NothingFits DEF SingleInv, Distinct, SeenInv, FoldInv

LEMMA SinglesTell == SingleInv => SeatsSingle
  BY DEF SingleInv, Distinct, SeatsSingle, Twins, InSight, Seats

\* A card never has two workers, or two verifiers, running, unless the engine lost
\* sight of one of them: the lanes folded before the baton is read, the holds the
\* baton keeps over spawnForCard's awaits, and a plan that names each card once per
\* role suffice, whatever restarts, refusals and late launches come in between.
THEOREM CardsHaveOneSeat == Spec => []SeatsSingle
  BY InitSingles, NextSingles, SinglesTell, AlwaysTyped, PTL DEF Spec
=============================================================================
