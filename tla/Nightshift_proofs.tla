------------------------- MODULE Nightshift_proofs -------------------------
(***************************************************************************)
(* Proofs about the night run, for any board, caps, headrooms, triggers    *)
(* and bounds: types, and the capacity ledger.                             *)
(***************************************************************************)
EXTENDS Nightshift, TLAPS, FiniteSetTheorems, SequenceTheorems

-----------------------------------------------------------------------------
(* The inductive invariants.                                               *)

RunRecord == [pc : Awaits \cup {"off", "idle"}, pending : Seq(Task),
              inflight : [Ids -> 0..MaxConv], todo : SUBSET Ids,
              parked : BOOLEAN, closed : BOOLEAN,
              id : Ids \cup {0}, conv : 0..MaxConv, card : Titles]

\* The ids that wait in a run, and the one it is dispatching.
PendIds(r)  == {r.pending[a].id : a \in DOMAIN r.pending}
Sending(r)  == r.pc \in {"placeholder", "untag", "spawn"}
SentId(r)   == IF Sending(r) THEN {r.id} ELSE {}
Reaping(r)  == r.pc \in {"snapshot", "patch", "ladder"}
\* Before a run's first dispatch.
Unopened(r) == r.pc \in {"off", "consider"}
Opening(r)  == r.pc \in {"scan", "start"}

\* A task is in one place of a run only: waiting, being dispatched, or in flight.
Apart(r) == /\ Len(r.pending) <= Len(CardSeq)
            /\ \A a, b \in DOMAIN r.pending : r.pending[a].id = r.pending[b].id => a = b
            /\ PendIds(r) \cap InflightOf(r) = {}
Shape(r) ==
    /\ Apart(r)
    /\ Unopened(r) \/ r.pc = "scan" => r.pending = <<>>
    /\ Unopened(r) \/ Opening(r) => InflightOf(r) = {} /\ r.id = 0
    /\ r.pc \in {"idle", "finalize", "starve"} => r.id = 0
    /\ r.pc = "finalize" => r.pending = <<>> /\ InflightOf(r) = {}
    /\ r.pc = "starve" => r.pending = <<>> /\ r.todo # {}
    /\ Reaping(r) => r.id \in Ids /\ r.todo \subseteq InflightOf(r)
    /\ Sending(r) \/ r.pc = "failed" => /\ r.id \in Ids
                                        /\ r.id \notin PendIds(r) \cup InflightOf(r)
RunInv == /\ run \in [Triggers -> RunRecord]
          /\ \A t \in Triggers : Shape(run[t])
          /\ reserved \in [Ids -> Nat]

\* The other variables keep to their types; a retry under way is below the cap.
ConvRecord == [id : Ids \cup {0}, card : Titles,
               st : Open \cup {"none", "booting", "closing", "ended", "stray"},
               crash : BOOLEAN, retry : BOOLEAN, poked : BOOLEAN,
               acted : BOOLEAN, killing : BOOLEAN]
FileRecord == [st : {"none", "running", "done", "errored"}, attempts : 0..AttemptCap]
LadderRecord == [pc : {"none", "read", "bump", "respawn", "stamp"},
                 conv : 0..MaxConv, attempts : 0..AttemptCap]
SweepRecord == [pc : {"idle", "read", "ladder", "stamp"}, todo : SUBSET Ids,
                dead : [Ids -> 0..MaxConv], id : Ids \cup {0}]
Typed ==
    /\ tagged \subseteq Cards /\ ranToday \in BOOLEAN /\ active \in Triggers \cup {None}
    /\ file \in [Ids -> [Titles -> FileRecord]]
    /\ skipped \subseteq Ids /\ runmd \in {None, "running", "done"}
    /\ conv \in [Convs -> ConvRecord] /\ lastEnd \in [Ids -> 0..MaxConv]
    /\ ladder \in [Ids -> LadderRecord]
    /\ \A i \in Ids : ladder[i].pc = "bump" => ladder[i].attempts < AttemptCap
    /\ sweep \in SweepRecord
    /\ pokes \in [Ids -> 0..MaxPokes] /\ admission \in BOOLEAN
    /\ opens \in 0..MaxOpens /\ lost \in 0..MaxFaults /\ restarts \in 0..MaxFaults

\* A conversation carries the task.
Carried(c, i) == \E k \in Convs : c[k].id = i
HasConv(i) == Carried(conv, i)
\* What the tick, the ladder and the sweep hold across an await has a conversation.
ConvInv   == \A k \in Convs : conv[k].st = "none" => conv[k] = NoConv
CarryInv  == \A t \in Triggers : /\ \A i \in Ids : run[t].inflight[i] # 0 => HasConv(i)
                                 /\ Reaping(run[t]) => HasConv(run[t].id)
LadderInv == \A i \in Ids : ladder[i].pc # "none" => HasConv(i) /\ ladder[i].conv \in Convs
SweepInv  == /\ sweep.pc # "idle" => sweep.id \in Ids
             /\ \A i \in sweep.todo \cup {sweep.id} : i # 0 => HasConv(i)
WorkInv   == ConvInv /\ CarryInv /\ LadderInv /\ SweepInv

\* One run a day: before it there is no conversation at all; at most one call is
\* past its check; until its first dispatch there is still none, and what it has
\* yet to dispatch has none.
NoneYet   == opens = 0 => /\ \A t \in Triggers : Unopened(run[t])
                          /\ \A k \in Convs : conv[k].st = "none"
AtMostOne == opens <= 1 => \A t, u \in Triggers : Unopened(run[t]) \/ Unopened(run[u]) \/ t = u
Fresh(r, c) == /\ Opening(r) => \A k \in Convs : c[k].st = "none"
               /\ \A i \in PendIds(r) \cup SentId(r) : ~Carried(c, i)
AllFresh  == opens <= 1 => \A t \in Triggers : Fresh(run[t], conv)
AloneInv  == NoneYet /\ AtMostOne /\ AllFresh

\* What is reserved stands for the tasks in flight and the one being dispatched.
Tracked(r) == InflightOf(r) \cup SentId(r)
LedgerInv ==
    admission /\ restarts = 0 /\ opens <= 1 =>
        {i \in Ids : reserved[i] # 0} = UNION {Tracked(run[t]) : t \in Triggers}

\* A run still owes the task.
Owes(r, i) == r.id = i \/ i \in PendIds(r) \/ (r.pc = "starve" /\ i \in r.todo)

-----------------------------------------------------------------------------
(* Numbers.  The library's induction theorems take a predicate; a least      *)
(* element of a set serves as well.                                         *)

\* Every nonempty set of naturals has a least element.
LEMMA LeastNumber ==
    ASSUME NEW T \in SUBSET Nat, T # {}
    PROVE  \E n \in T : \A m \in T : n <= m
  <1>1. \E x \in T : \A y \in T : <<y, x>> \notin OpToRel(<, Nat)
    <2> DEFINE R == OpToRel(<, Nat)
    <2>1. IsWellFoundedOn(R, Nat)
      BY NatLessThanWellFounded
    <2> HIDE DEF R
    <2>2. \E x \in T : \A y \in T : ~ (<<y, x>> \in R)
      BY <2>1, WFMin
    <2> QED BY <2>2 DEF R
  <1>2. \A x, y \in Nat : <<y, x>> \notin OpToRel(<, Nat) => x <= y
    BY DEF OpToRel
  <1> QED BY <1>1, <1>2

\* Min is what its name says.
LEMMA MinOf ==
    ASSUME NEW T \in SUBSET Nat, T # {}
    PROVE  Min(T) \in T /\ \A m \in T : Min(T) <= m
  BY LeastNumber DEF Min

\* A set of numbers that misses one somewhere has a first one it misses.
LEMMA FirstGap ==
    ASSUME NEW T \in SUBSET Nat, 0 \in T, \A n \in Nat : n \in T => n + 1 \in T
    PROVE  T = Nat
  <1> SUFFICES ASSUME Nat \ T # {} PROVE FALSE
    OBVIOUS
  <1>1. PICK n \in Nat \ T : \A m \in Nat \ T : n <= m
    BY LeastNumber
  <1>2. n # 0 /\ n - 1 \in Nat /\ n - 1 \in T
    BY <1>1
  <1> QED BY <1>1, <1>2

\* The widest reading of the oracle.
LEMMA WidestRoom == Max(Rooms) \in Rooms /\ \A room \in Rooms : room <= Max(Rooms)
  <1>1. \E widest \in Rooms : \A room \in Rooms : widest >= room
    BY NightAssumption
  <1>2. Max(Rooms) \in Rooms /\ \A room \in Rooms : Max(Rooms) >= room
    BY <1>1 DEF Max
  <1> QED BY <1>2, NightAssumption

\* The ids are the positions of the board's cards.
LEMMA IdsFinite == /\ Ids = 1..Len(CardSeq) /\ Len(CardSeq) \in Nat
                   /\ IsFiniteSet(Ids) /\ 0 \notin Ids /\ Ids \subseteq Nat
  <1>1. CardSeq \in Seq(Cards)
    BY NightAssumption
  <1>2. DOMAIN CardSeq = 1..Len(CardSeq) /\ Len(CardSeq) \in Nat
    BY <1>1
  <1>3. IsFiniteSet(1..Len(CardSeq))
    BY <1>2, FS_Interval
  <1> QED BY <1>2, <1>3 DEF Ids

-----------------------------------------------------------------------------
(* What the ledger sums up to.                                              *)

\* The sum over a set, one chosen element at a time.
Pick(s)       == CHOOSE i \in s : TRUE
Summed(it, led, s) == IF s = {} THEN 0 ELSE led[Pick(s)] + it[s \ {Pick(s)}]

\* The element picked from a set is in it.
LEMMA PickIn == ASSUME NEW s, s # {} PROVE Pick(s) \in s
  BY DEF Pick

\* One element less.
LEMMA LessOne ==
    ASSUME NEW s \in SUBSET Ids
    PROVE  /\ Cardinality(s) \in Nat
           /\ s = {} <=> Cardinality(s) = 0
           /\ \A i \in s : Cardinality(s \ {i}) = Cardinality(s) - 1 /\ s \ {i} \in SUBSET Ids
  <1>1. IsFiniteSet(s)
    BY IdsFinite, FS_Subset
  <1> QED BY <1>1, FS_CardinalityType, FS_EmptySet, FS_RemoveElement

\* There is a function that sums over every set of ids.
LEMMA SumExists ==
    ASSUME NEW led \in [Ids -> Nat]
    PROVE  \E it : it \in [SUBSET Ids -> Nat] /\ \A s \in SUBSET Ids : it[s] = Summed(it, led, s)
  <1> DEFINE Upto(n) == \E it \in [SUBSET Ids -> Nat] :
                            \A s \in SUBSET Ids : Cardinality(s) <= n => it[s] = Summed(it, led, s)
             T == {n \in Nat : Upto(n)}
  <1>1. 0 \in T
    <2> DEFINE it == [s \in SUBSET Ids |-> 0]
    <2>1. it \in [SUBSET Ids -> Nat]
      OBVIOUS
    <2>2. \A s \in SUBSET Ids : Cardinality(s) <= 0 => it[s] = Summed(it, led, s)
      BY LessOne DEF Summed
    <2> QED BY <2>1, <2>2
  <1>2. ASSUME NEW n \in Nat, n \in T PROVE n + 1 \in T
    <2>1. PICK it \in [SUBSET Ids -> Nat] :
              \A s \in SUBSET Ids : Cardinality(s) <= n => it[s] = Summed(it, led, s)
      BY <1>2
    <2> DEFINE jt == [s \in SUBSET Ids |-> Summed(it, led, s)]
    <2>2. jt \in [SUBSET Ids -> Nat]
      <3>1. ASSUME NEW s \in SUBSET Ids PROVE Summed(it, led, s) \in Nat
        BY PickIn, LessOne DEF Summed
      <3> QED BY <3>1
    <2>3. ASSUME NEW s \in SUBSET Ids, Cardinality(s) <= n + 1 PROVE jt[s] = Summed(jt, led, s)
      <3>1. CASE s = {}
        BY <3>1 DEF Summed
      <3>2. CASE s # {}
        <4> DEFINE u == s \ {Pick(s)}
        <4>1. u \in SUBSET Ids /\ Cardinality(u) <= n
          BY <2>3, <3>2, PickIn, LessOne
        <4>2. jt[u] = it[u]
          BY <2>1, <4>1
        <4> HIDE DEF jt
        <4>3. jt[s] = led[Pick(s)] + it[u]
          BY <3>2 DEF Summed, jt
        <4> QED BY <3>2, <4>2, <4>3 DEF Summed
      <3> QED BY <3>1, <3>2
    <2> HIDE DEF jt
    <2> QED BY <2>2, <2>3
  <1>3. T = Nat
    <2> HIDE DEF T
    <2>1. T \in SUBSET Nat
      BY DEF T
    <2> QED BY <1>1, <1>2, <2>1, FirstGap
  <1>4. Cardinality(Ids) \in Nat /\ \A s \in SUBSET Ids : Cardinality(s) <= Cardinality(Ids)
    BY IdsFinite, FS_Subset, FS_CardinalityType
  <1>5. Upto(Cardinality(Ids))
    BY <1>3, <1>4
  <1> QED BY <1>4, <1>5

\* Outstanding is such a sum.
LEMMA SumIs ==
    ASSUME NEW led \in [Ids -> Nat]
    PROVE  \E it \in [SUBSET Ids -> Nat] : /\ \A s \in SUBSET Ids : it[s] = Summed(it, led, s)
                                           /\ Outstanding(led) = it[Ids]
  <1> DEFINE it == CHOOSE it : it = [s \in SUBSET Ids |->
                                       IF s = {} THEN 0
                                       ELSE LET x == CHOOSE y \in s : TRUE IN led[x] + it[s \ {x}]]
  <1>1. \E f : f = [s \in SUBSET Ids |->
                       IF s = {} THEN 0
                       ELSE LET x == CHOOSE y \in s : TRUE IN led[x] + f[s \ {x}]]
    <2>1. PICK f \in [SUBSET Ids -> Nat] : \A s \in SUBSET Ids : f[s] = Summed(f, led, s)
      BY SumExists
    <2>2. f = [s \in SUBSET Ids |-> Summed(f, led, s)]
      BY <2>1
    <2> QED BY <2>2 DEF Summed, Pick
  <1>2. it = [s \in SUBSET Ids |->
                 IF s = {} THEN 0
                 ELSE LET x == CHOOSE y \in s : TRUE IN led[x] + it[s \ {x}]]
    BY <1>1
  <1>3. Outstanding(led) = it[Ids]
    BY DEF Outstanding, MapThenSumSet, MapThenFoldSet
  <1> HIDE DEF it
  <1>4. \A s \in SUBSET Ids : it[s] = Summed(it, led, s)
    BY <1>2 DEF Summed, Pick
  <1>5. it \in [SUBSET Ids -> Nat]
    <2> DEFINE T == {n \in Nat : \A s \in SUBSET Ids : Cardinality(s) = n => it[s] \in Nat}
    <2>1. 0 \in T
      BY <1>4, LessOne DEF Summed
    <2>2. ASSUME NEW n \in Nat, n \in T PROVE n + 1 \in T
      <3> SUFFICES ASSUME NEW s \in SUBSET Ids, Cardinality(s) = n + 1 PROVE it[s] \in Nat
        OBVIOUS
      <3>1. s # {} /\ Pick(s) \in Ids /\ it[s \ {Pick(s)}] \in Nat
        BY <2>2, PickIn, LessOne
      <3> QED BY <1>4, <3>1 DEF Summed
    <2>3. T = Nat
      <3> HIDE DEF T
      <3>1. T \in SUBSET Nat
        BY DEF T
      <3> QED BY <2>1, <2>2, <3>1, FirstGap
    <2>4. \A s \in SUBSET Ids : it[s] \in Nat
      BY <2>3, LessOne
    <2>5. it = [s \in SUBSET Ids |-> it[s]]
      BY <1>2
    <2> QED BY <2>4, <2>5
  <1> QED BY <1>3, <1>4, <1>5

\* Changing one entry changes the sum by the difference.
LEMMA SumUpdate ==
    ASSUME NEW led \in [Ids -> Nat], NEW i \in Ids, NEW v \in Nat
    PROVE  /\ Outstanding(led) \in Nat
           /\ Outstanding([led EXCEPT ![i] = v]) = Outstanding(led) - led[i] + v
  <1> DEFINE new == [led EXCEPT ![i] = v]
  <1>1. new \in [Ids -> Nat]
    OBVIOUS
  <1>2. PICK it \in [SUBSET Ids -> Nat] : /\ \A s \in SUBSET Ids : it[s] = Summed(it, led, s)
                                          /\ Outstanding(led) = it[Ids]
    BY SumIs
  <1>3. PICK jt \in [SUBSET Ids -> Nat] : /\ \A s \in SUBSET Ids : jt[s] = Summed(jt, new, s)
                                          /\ Outstanding(new) = jt[Ids]
    <2> HIDE DEF new
    <2> QED BY <1>1, SumIs
  <1>4. new[i] = v /\ \A j \in Ids : j # i => new[j] = led[j]
    OBVIOUS
  <1> HIDE DEF new
  <1> DEFINE Good(s) == jt[s] = IF i \in s THEN it[s] - led[i] + v ELSE it[s]
             T == {n \in Nat : \A s \in SUBSET Ids : Cardinality(s) = n => Good(s)}
  <1>5. 0 \in T
    BY <1>2, <1>3, LessOne DEF Summed
  <1>6. ASSUME NEW n \in Nat, n \in T PROVE n + 1 \in T
    <2> SUFFICES ASSUME NEW s \in SUBSET Ids, Cardinality(s) = n + 1 PROVE Good(s)
      OBVIOUS
    <2> DEFINE j == Pick(s)
               u == s \ {j}
    <2>1. s # {} /\ j \in s /\ j \in Ids /\ u \in SUBSET Ids /\ Cardinality(u) = n
      BY PickIn, LessOne
    <2>2. jt[u] = IF i \in u THEN it[u] - led[i] + v ELSE it[u]
      BY <1>6, <2>1
    <2>3. jt[s] = new[j] + jt[u] /\ it[s] = led[j] + it[u]
      BY <1>2, <1>3, <2>1 DEF Summed
    <2>4. jt[u] \in Nat /\ it[u] \in Nat /\ led[j] \in Nat /\ led[i] \in Nat
      BY <1>2, <1>3, <2>1
    <2>5. CASE i = j
      <3>1. i \notin u /\ i \in s
        BY <2>1, <2>5
      <3> QED BY <1>4, <2>2, <2>3, <2>4, <2>5, <3>1
    <2>6. CASE i # j
      <3>1. i \in u <=> i \in s
        BY <2>1, <2>6
      <3> HIDE DEF u, j
      <3>2. new[j] = led[j]
        BY <1>4, <2>1, <2>6
      <3> QED BY <2>2, <2>3, <2>4, <3>1, <3>2
    <2> QED BY <2>5, <2>6
  <1>7. T = Nat
    <2> HIDE DEF T
    <2>1. T \in SUBSET Nat
      BY DEF T
    <2> QED BY <1>5, <1>6, <2>1, FirstGap
  <1>8. Good(Ids)
    <2>1. Cardinality(Ids) \in Nat
      BY LessOne
    <2> QED BY <1>7, <2>1
  <1> QED BY <1>2, <1>3, <1>8 DEF new

\* The sum of naturals is one.
LEMMA SumNat ==
    ASSUME NEW led \in [Ids -> Nat]
    PROVE  Outstanding(led) \in Nat
  <1>1. PICK it \in [SUBSET Ids -> Nat] : Outstanding(led) = it[Ids]
    BY SumIs
  <1> QED BY <1>1

\* Nothing is outstanding on an empty ledger.
LEMMA SumZero ==
    ASSUME NEW led \in [Ids -> Nat], \A i \in Ids : led[i] = 0
    PROVE  Outstanding(led) = 0
  <1>1. PICK it \in [SUBSET Ids -> Nat] : /\ \A s \in SUBSET Ids : it[s] = Summed(it, led, s)
                                          /\ Outstanding(led) = it[Ids]
    BY SumIs
  <1> DEFINE T == {n \in Nat : \A s \in SUBSET Ids : Cardinality(s) = n => it[s] = 0}
  <1>2. 0 \in T
    BY <1>1, LessOne DEF Summed
  <1>3. ASSUME NEW n \in Nat, n \in T PROVE n + 1 \in T
    <2> SUFFICES ASSUME NEW s \in SUBSET Ids, Cardinality(s) = n + 1 PROVE it[s] = 0
      OBVIOUS
    <2>1. s # {} /\ Pick(s) \in Ids /\ it[s \ {Pick(s)}] = 0
      BY <1>3, PickIn, LessOne
    <2> QED BY <1>1, <2>1 DEF Summed
  <1>4. T = Nat
    <2> HIDE DEF T
    <2>1. T \in SUBSET Nat
      BY DEF T
    <2> QED BY <1>2, <1>3, <2>1, FirstGap
  <1> QED BY <1>1, <1>4, LessOne

-----------------------------------------------------------------------------
(* What advanceRun does to a run and to the ledger.                         *)

\* The slots were filled: the head of the queue is being dispatched, or the run
\* waits, ends or starves the rest; nothing that waited is forgotten.
Filled(r, s, led, due) ==
    /\ s \in RunRecord /\ Shape(s) /\ s.inflight = r.inflight
    /\ s.pc \in {"placeholder", "idle", "finalize", "starve"}
    /\ PendIds(s) \cup SentId(s) \subseteq PendIds(r)
    /\ \A i \in PendIds(r) : Owes(s, i)
    /\ s.pc # "placeholder" => due = led
    /\ s.pc = "placeholder" =>
           /\ due = IF admission THEN [led EXCEPT ![s.id] = Estimate] ELSE led
           /\ admission => \E room \in Rooms : Outstanding(led) + Estimate <= room

\* Or a worker that is no longer live was taken out of flight first.
Reaped(r, s, led, due) ==
    \E i \in InflightOf(r) :
        /\ s \in RunRecord /\ Shape(s) /\ s.pc = "snapshot" /\ s.id = i
        /\ s.inflight = [r.inflight EXCEPT ![i] = 0] /\ s.pending = r.pending
        /\ due = [led EXCEPT ![i] = 0]

\* The run record that results, for a run t and the ledger.
Advanced(t, r, led) ==
    \E s : Put(t, s) /\ (Filled(r, s, led, reserved') \/ Reaped(r, s, led, reserved'))

\* maybeFinalize keeps a run with tasks open and sends an empty one to its round trip.
LEMMA FinalizeOrIdle ==
    ASSUME NEW t \in Triggers, NEW r \in RunRecord, Apart(r), MaybeFinalize(t, r)
    PROVE  \E s : Put(t, s) /\ \A led : Filled(r, s, led, led)
  <1> DEFINE pc == IF r.pending # <<>> \/ InflightOf(r) # {} THEN "idle" ELSE "finalize"
             s == [Resumed(r) EXCEPT !.pc = pc]
  <1>1. /\ s.pc = pc /\ s.pending = r.pending /\ s.inflight = r.inflight /\ s.id = 0
        /\ s.todo = r.todo /\ s.parked = r.parked /\ s.closed = r.closed
        /\ s.conv = 0 /\ s.card = Summary
    BY DEF Resumed, RunRecord
  <1>2. s \in RunRecord
    <2>1. pc \in Awaits \cup {"off", "idle"} /\ 0 \in 0..MaxConv /\ Summary \in Titles
      BY NightAssumption DEF Awaits, Titles
    <2> HIDE DEF pc
    <2> QED BY <2>1 DEF RunRecord, Resumed
  <1>3. Put(t, s)
    BY DEF MaybeFinalize
  <1> HIDE DEF s
  <1>4. Shape(s) /\ PendIds(s) = PendIds(r)
    BY <1>1 DEF Shape, Apart, PendIds, InflightOf, Unopened, Opening, Reaping, Sending
  <1>5. \A led : Filled(r, s, led, led)
    BY <1>1, <1>2, <1>4 DEF Filled, SentId, Sending, Owes
  <1> QED BY <1>3, <1>5

\* The head of a queue and its tail.
LEMMA HeadAndTail ==
    ASSUME NEW q \in Seq(Task), q # <<>>, \A a, b \in DOMAIN q : q[a].id = q[b].id => a = b
    PROVE  /\ Head(q) \in Task /\ Tail(q) \in Seq(Task) /\ Len(Tail(q)) = Len(q) - 1
           /\ \A a, b \in DOMAIN Tail(q) : Tail(q)[a].id = Tail(q)[b].id => a = b
           /\ {Tail(q)[a].id : a \in DOMAIN Tail(q)} = {q[a].id : a \in DOMAIN q} \ {Head(q).id}
           /\ Head(q).id \in {q[a].id : a \in DOMAIN q}
  <1>1. /\ Len(q) \in Nat \ {0} /\ DOMAIN q = 1..Len(q) /\ Head(q) = q[1] /\ q[1] \in Task
        /\ Tail(q) \in Seq(Task) /\ Len(Tail(q)) = Len(q) - 1 /\ DOMAIN Tail(q) = 1..(Len(q) - 1)
        /\ \A a \in 1..(Len(q) - 1) : Tail(q)[a] = q[a + 1]
    BY EmptySeq, ElementOfSeq
  <1>2. \A a \in DOMAIN Tail(q) : a + 1 \in DOMAIN q /\ a + 1 # 1
    BY <1>1
  <1>3. \A a \in DOMAIN q : a = 1 \/ (a - 1 \in DOMAIN Tail(q) /\ Tail(q)[a - 1] = q[a])
    BY <1>1
  <1>4. \A a, b \in DOMAIN Tail(q) : Tail(q)[a].id = Tail(q)[b].id => a = b
    BY <1>1, <1>2
  <1>5. {Tail(q)[a].id : a \in DOMAIN Tail(q)} \subseteq {q[a].id : a \in DOMAIN q} \ {Head(q).id}
    BY <1>1, <1>2
  <1>6. {q[a].id : a \in DOMAIN q} \ {Head(q).id} \subseteq {Tail(q)[a].id : a \in DOMAIN Tail(q)}
    <2> SUFFICES ASSUME NEW a \in DOMAIN q, q[a].id # Head(q).id
                 PROVE  \E b \in DOMAIN Tail(q) : Tail(q)[b].id = q[a].id
      OBVIOUS
    <2>1. a # 1
      BY <1>1
    <2>2. a - 1 \in DOMAIN Tail(q) /\ Tail(q)[a - 1] = q[a]
      BY <1>3, <2>1
    <2> QED BY <2>2
  <1>7. Head(q).id \in {q[a].id : a \in DOMAIN q}
    BY <1>1
  <1> QED BY <1>1, <1>4, <1>5, <1>6, <1>7

\* The head of the queue is admitted: it is dispatched next and booked.
LEMMA AdmitHead ==
    ASSUME NEW t \in Triggers, NEW r \in RunRecord, Apart(r), NEW led \in [Ids -> Nat], Admit(t, r, led)
    PROVE  \E s : Put(t, s) /\ Filled(r, s, led, reserved')
  <1> DEFINE task == Head(r.pending)
             s == [r EXCEPT !.pc = "placeholder", !.pending = Tail(r.pending),
                            !.id = task.id, !.conv = 0, !.card = task.card]
  <1>1. /\ Put(t, s)
        /\ \E room \in Rooms : Admissible(r, led, room)
        /\ reserved' = IF admission THEN [led EXCEPT ![task.id] = Estimate] ELSE led
    BY DEF Admit, RunRecord
  <1>2. r.pending # <<>> /\ (admission => \E room \in Rooms : Outstanding(led) + Estimate <= room)
    BY <1>1 DEF Admissible
  <1>3. r.pending \in Seq(Task)
    BY DEF RunRecord
  <1>4. /\ task \in Task /\ Tail(r.pending) \in Seq(Task)
        /\ \A a, b \in DOMAIN Tail(r.pending) : Tail(r.pending)[a].id = Tail(r.pending)[b].id => a = b
        /\ {Tail(r.pending)[a].id : a \in DOMAIN Tail(r.pending)} = PendIds(r) \ {task.id}
        /\ task.id \in PendIds(r)
    <2> DEFINE q == r.pending
    <2>1. q \in Seq(Task) /\ q # <<>> /\ \A a, b \in DOMAIN q : q[a].id = q[b].id => a = b
      BY <1>2, <1>3 DEF Apart
    <2> HIDE DEF q
    <2>2. /\ Head(q) \in Task /\ Tail(q) \in Seq(Task)
          /\ \A a, b \in DOMAIN Tail(q) : Tail(q)[a].id = Tail(q)[b].id => a = b
          /\ {Tail(q)[a].id : a \in DOMAIN Tail(q)} = {q[a].id : a \in DOMAIN q} \ {Head(q).id}
          /\ Head(q).id \in {q[a].id : a \in DOMAIN q}
      BY <2>1, HeadAndTail
    <2> QED BY <2>2 DEF q, PendIds
  <1>5. /\ s.pc = "placeholder" /\ s.pending = Tail(r.pending) /\ s.inflight = r.inflight
        /\ s.id = task.id
    BY DEF RunRecord
  <1>6. s \in RunRecord
    <2> HIDE DEF task
    <2>1. "placeholder" \in Awaits \cup {"off", "idle"}
      BY DEF Awaits
    <2>2. 0 \in 0..MaxConv
      BY NightAssumption
    <2>3. task.id \in Ids \cup {0} /\ task.card \in Titles
      BY <1>4 DEF Task, Titles
    <2> QED BY <1>4, <2>1, <2>2, <2>3 DEF RunRecord
  <1>7. task.id \in Ids
    BY <1>4 DEF Task
  <1> HIDE DEF s, task
  <1>8. PendIds(s) = PendIds(r) \ {task.id}
    <2>1. PendIds(s) = {Tail(r.pending)[a].id : a \in DOMAIN Tail(r.pending)}
      BY <1>5, Zenon DEF PendIds
    <2> QED BY <1>4, <2>1
  <1>9. Shape(s)
    <2>1. Apart(s)
      BY <1>4, <1>5, <1>8 DEF Apart, InflightOf
    <2>2. task.id \notin PendIds(s) \cup InflightOf(s)
      BY <1>4, <1>5, <1>8 DEF Apart, InflightOf
    <2> QED BY <1>5, <1>7, <2>1, <2>2 DEF Shape, Unopened, Opening, Reaping, Sending
  <1> QED BY <1>1, <1>2, <1>4, <1>5, <1>6, <1>8, <1>9 DEF Filled, SentId, Sending, Owes

\* What Filled and Reaped say of a run is about its queue and its workers.
LEMMA FilledAlike ==
    ASSUME NEW r, NEW u, NEW s, NEW led, NEW due, u.pending = r.pending, u.inflight = r.inflight,
           Filled(u, s, led, due)
    PROVE  Filled(r, s, led, due)
  BY DEF Filled, PendIds

\* Nothing is admitted: the run waits or ends and the ledger stays.
LEMMA AdmitNothing ==
    ASSUME NEW t \in Triggers, NEW r \in RunRecord, Apart(r), NEW led, AdmitNone(t, r, led)
    PROVE  \E s : Put(t, s) /\ Filled(r, s, led, reserved')
  <1>1. PICK wakeKnown \in BOOLEAN :
            MaybeFinalize(t, [r EXCEPT !.parked =
                admission /\ wakeKnown /\ InflightOf(r) = {} /\ r.pending # <<>>])
    BY DEF AdmitNone
  <1> DEFINE p == admission /\ wakeKnown /\ InflightOf(r) = {} /\ r.pending # <<>>
             u == [r EXCEPT !.parked = p]
  <1>2. p \in BOOLEAN
    OBVIOUS
  <1> HIDE DEF p
  <1>3. u \in RunRecord /\ u.pending = r.pending /\ u.inflight = r.inflight
    BY <1>2 DEF RunRecord
  <1>4. MaybeFinalize(t, u)
    BY <1>1 DEF p
  <1> HIDE DEF u
  <1>5. Apart(u)
    BY <1>3 DEF Apart, PendIds, InflightOf
  <1>6. PICK s : Put(t, s) /\ Filled(u, s, led, led)
    BY <1>3, <1>4, <1>5, FinalizeOrIdle
  <1>7. reserved' = led
    BY DEF AdmitNone
  <1> QED BY <1>3, <1>6, <1>7, FilledAlike

\* fillSlots.
LEMMA SlotsFilled ==
    ASSUME NEW t \in Triggers, NEW r \in RunRecord, Apart(r), NEW led \in [Ids -> Nat],
           FillSlots(t, r, led)
    PROVE  \E s : Put(t, s) /\ Filled(r, s, led, reserved')
  <1> DEFINE waits == admission /\ (r.closed \/ r.parked)
             starves == r.closed /\ InflightOf(r) = {} /\ r.pending # <<>>
  <1>1. CASE waits /\ starves
    <2> DEFINE left == {task.id : task \in Range(r.pending)}
               s == [Resumed(r) EXCEPT !.pc = "starve", !.pending = <<>>, !.todo = left]
    <2>1. Put(t, s) /\ reserved' = led
      BY <1>1 DEF FillSlots
    <2>2. /\ s.pc = "starve" /\ s.pending = <<>> /\ s.inflight = r.inflight /\ s.id = 0
          /\ s.todo = left /\ s.parked = r.parked /\ s.closed = r.closed
          /\ s.conv = 0 /\ s.card = Summary
      BY DEF Resumed, RunRecord
    <2>3. left = PendIds(r) /\ PendIds(r) \subseteq Ids /\ PendIds(r) # {}
      <3>1. left = PendIds(r)
        BY DEF PendIds, Range
      <3>2. r.pending \in Seq(Task) /\ r.pending # <<>>
        BY <1>1 DEF RunRecord
      <3>3. \A a \in DOMAIN r.pending : r.pending[a] \in Task
        BY <3>2, ElementOfSeq
      <3>4. 1 \in DOMAIN r.pending
        BY <3>2, EmptySeq
      <3> HIDE DEF left, s
      <3>5. \A a \in DOMAIN r.pending : r.pending[a].id \in Ids
        BY <3>3 DEF Task
      <3>6. PendIds(r) \subseteq Ids
        BY <3>5 DEF PendIds
      <3>7. PendIds(r) # {}
        BY <3>4 DEF PendIds
      <3> QED BY <3>1, <3>6, <3>7
    <2>4. s \in RunRecord
      <3>1. "starve" \in Awaits \cup {"off", "idle"} /\ 0 \in 0..MaxConv /\ Summary \in Titles
            /\ <<>> \in Seq(Task)
        BY NightAssumption DEF Awaits, Titles
      <3> HIDE DEF left
      <3> QED BY <2>3, <3>1 DEF RunRecord, Resumed
    <2> HIDE DEF s, left
    <2>5. Shape(s)
      <3>1. DOMAIN s.pending = {} /\ PendIds(s) = {}
        BY <2>2 DEF PendIds
      <3>2. Apart(s)
        BY <2>2, <3>1, EmptySeq, IdsFinite DEF Apart
      <3> QED BY <2>2, <2>3, <3>2 DEF Shape, Unopened, Opening, Reaping, Sending
    <2>6. PendIds(s) = {} /\ SentId(s) = {}
      BY <2>2 DEF PendIds, SentId, Sending
    <2>7. \A i \in PendIds(r) : Owes(s, i)
      BY <2>2, <2>3 DEF Owes
    <2> QED BY <2>1, <2>2, <2>4, <2>5, <2>6, <2>7 DEF Filled
  <1>2. CASE waits /\ ~starves
    <2>1. MaybeFinalize(t, r) /\ reserved' = led
      BY <1>2 DEF FillSlots
    <2> QED BY <2>1, FinalizeOrIdle
  <1>3. CASE ~waits
    <2>1. Admit(t, r, led) \/ AdmitNone(t, r, led)
      BY <1>3 DEF FillSlots
    <2> QED BY <2>1, AdmitHead, AdmitNothing
  <1> QED BY <1>1, <1>2, <1>3

\* reapFinished.
LEMMA WorkersReaped ==
    ASSUME NEW t \in Triggers, NEW r \in RunRecord, Apart(r), r.todo \subseteq InflightOf(r),
           NEW led \in [Ids -> Nat], ReapFinished(t, r, led)
    PROVE  Advanced(t, r, led)
  <1> DEFINE gone == {i \in r.todo : conv[r.inflight[i]].st \notin Open}
  <1>1. CASE gone = {}
    <2> DEFINE u == [r EXCEPT !.todo = {}]
    <2>1. FillSlots(t, u, led)
      BY <1>1 DEF ReapFinished
    <2>2. u \in RunRecord /\ u.pending = r.pending /\ u.inflight = r.inflight
      BY DEF RunRecord
    <2> HIDE DEF u
    <2>3. Apart(u)
      BY <2>2 DEF Apart, PendIds, InflightOf
    <2>4. PICK s : Put(t, s) /\ Filled(u, s, led, reserved')
      BY <2>1, <2>2, <2>3, SlotsFilled
    <2> QED BY <2>2, <2>4, FilledAlike DEF Advanced
  <1>2. CASE gone # {}
    <2>1. PICK i \in gone :
            /\ Put(t, [r EXCEPT !.pc = "snapshot", !.todo = @ \ {i}, !.id = i,
                                !.conv = r.inflight[i], !.inflight[i] = 0])
            /\ reserved' = [led EXCEPT ![i] = 0]
      BY <1>2 DEF ReapFinished
    <2> DEFINE s == [r EXCEPT !.pc = "snapshot", !.todo = r.todo \ {i}, !.id = i,
                              !.conv = r.inflight[i], !.inflight = [r.inflight EXCEPT ![i] = 0]]
    <2>2. Put(t, s)
      <3>1. [r EXCEPT !.pc = "snapshot", !.todo = @ \ {i}, !.id = i,
                      !.conv = r.inflight[i], !.inflight[i] = 0] = s
        BY DEF RunRecord
      <3> QED BY <2>1, <3>1
    <2>3. i \in Ids /\ i \in InflightOf(r) /\ r.inflight \in [Ids -> 0..MaxConv]
      BY DEF InflightOf, RunRecord
    <2>4. /\ s.pc = "snapshot" /\ s.todo = r.todo \ {i} /\ s.id = i /\ s.pending = r.pending
          /\ s.inflight = [r.inflight EXCEPT ![i] = 0]
      BY DEF RunRecord
    <2>5. s \in RunRecord
      <3>1. /\ "snapshot" \in Awaits \cup {"off", "idle"} /\ i \in Ids \cup {0}
            /\ r.inflight[i] \in 0..MaxConv /\ r.todo \ {i} \in SUBSET Ids
        BY <2>3 DEF RunRecord, Awaits
      <3>2. 0 \in 0..MaxConv
        BY NightAssumption
      <3>3. [r.inflight EXCEPT ![i] = 0] \in [Ids -> 0..MaxConv]
        BY <2>3, <3>2
      <3> QED BY <3>1, <3>3 DEF RunRecord
    <2> HIDE DEF s
    <2>6. InflightOf(s) = InflightOf(r) \ {i}
      BY <2>3, <2>4 DEF InflightOf
    <2>7. PendIds(s) = PendIds(r)
      BY <2>4 DEF PendIds
    <2>8. Shape(s)
      BY <2>3, <2>4, <2>6, <2>7 DEF Shape, Apart, Unopened, Opening, Reaping, Sending
    <2> QED BY <2>1, <2>2, <2>3, <2>4, <2>5, <2>8 DEF Advanced, Reaped
  <1> QED BY <1>1, <1>2

\* advanceRun.
LEMMA RunAdvanced ==
    ASSUME NEW t \in Triggers, NEW r \in RunRecord, Apart(r), reserved \in [Ids -> Nat],
           AdvanceRun(t, r)
    PROVE  Advanced(t, r, reserved)
  <1> DEFINE u == [r EXCEPT !.todo = InflightOf(r)]
  <1>1. ReapFinished(t, u, reserved)
    BY DEF AdvanceRun
  <1>2. u \in RunRecord /\ u.pending = r.pending /\ u.inflight = r.inflight /\ u.todo = InflightOf(r)
    BY DEF RunRecord, InflightOf
  <1> HIDE DEF u
  <1>3. Apart(u) /\ InflightOf(u) = InflightOf(r) /\ PendIds(u) = PendIds(r)
    BY <1>2 DEF Apart, PendIds, InflightOf
  <1>4. Advanced(t, u, reserved)
    BY <1>1, <1>2, <1>3, WorkersReaped
  <1>5. PICK s : Put(t, s) /\ (Filled(u, s, reserved, reserved') \/ Reaped(u, s, reserved, reserved'))
    BY <1>4 DEF Advanced
  <1>6. Reaped(u, s, reserved, reserved') => Reaped(r, s, reserved, reserved')
    BY <1>2, <1>3 DEF Reaped
  <1> QED BY <1>2, <1>5, <1>6, FilledAlike DEF Advanced

-----------------------------------------------------------------------------
(* What each step does to a run.                                            *)

\* Only the await the call is in, and its flags, may differ.
Kept(r, s) == s.pending = r.pending /\ s.inflight = r.inflight /\ s.id = r.id
\* So what the run tracks, in flight or being dispatched, is the same.
Same(r, s) == Kept(r, s) /\ SentId(s) = SentId(r)

\* A step to another await changes nothing else of the run.
LEMMA MovedTo ==
    ASSUME RunInv, NEW t \in Triggers, NEW pc \in Awaits \cup {"off", "idle"}, To(t, pc)
    PROVE  \E s : /\ Put(t, s) /\ s \in RunRecord /\ s.pc = pc /\ s.todo = run[t].todo
                  /\ s.conv = run[t].conv /\ s.card = run[t].card /\ Kept(run[t], s)
  <1> DEFINE s == [run[t] EXCEPT !.pc = pc]
  <1>1. run[t] \in RunRecord /\ run \in [Triggers -> RunRecord]
    BY DEF RunInv
  <1>2. s \in RunRecord /\ s.pc = pc /\ s.todo = run[t].todo /\ s.pending = run[t].pending
        /\ s.inflight = run[t].inflight /\ s.id = run[t].id
        /\ s.conv = run[t].conv /\ s.card = run[t].card
    BY <1>1 DEF RunRecord
  <1>3. Put(t, s)
    BY <1>1 DEF To, Put
  <1> QED BY <1>2, <1>3 DEF Kept

\* Putting a run back keeps what the runs are like.
LEMMA RunPut ==
    ASSUME RunInv, NEW t \in Triggers, NEW s \in RunRecord, Shape(s), Put(t, s),
           reserved' \in [Ids -> Nat]
    PROVE  /\ RunInv' /\ run'[t] = s
           /\ \A u \in Triggers \ {t} : run'[u] = run[u]
  <1>1. run \in [Triggers -> RunRecord] /\ run' = [run EXCEPT ![t] = s]
    BY DEF RunInv, Put
  <1>2. run' \in [Triggers -> RunRecord] /\ run'[t] = s /\ \A u \in Triggers \ {t} : run'[u] = run[u]
    BY <1>1
  <1>3. \A u \in Triggers : Shape(run[u])
    BY DEF RunInv
  <1> QED BY <1>2, <1>3 DEF RunInv

\* The scheduler considers a run.
LEMMA OnwardConsider ==
    ASSUME RunInv, Consider
    PROVE  \E s : /\ "scheduler" \in Triggers /\ Put("scheduler", s) /\ s \in RunRecord /\ Shape(s)
                  /\ Same(run["scheduler"], s)
                  /\ run["scheduler"].pc = "off" /\ s.pc = "consider"
  <1>1. "consider" \in Awaits \cup {"off", "idle"}
    BY DEF Awaits
  <1>2. "scheduler" \in Triggers /\ run["scheduler"].pc = "off" /\ To("scheduler", "consider")
    BY DEF Consider
  <1>3. PICK s : /\ Put("scheduler", s) /\ s \in RunRecord /\ s.pc = "consider"
                 /\ Kept(run["scheduler"], s)
    BY <1>1, <1>2, MovedTo
  <1>4. Shape(run["scheduler"])
    BY <1>2 DEF RunInv
  <1>5. Shape(s) /\ Same(run["scheduler"], s)
    BY <1>2, <1>3, <1>4 DEF Shape, Same, Kept, Apart, PendIds, InflightOf, SentId, Unopened, Opening,
                            Reaping, Sending
  <1> QED BY <1>2, <1>3, <1>5

\* runNightshift goes on to its scan, or is refused.
LEMMA OnwardOpen ==
    ASSUME RunInv, NEW t \in Triggers, RunNightshift(t)
    PROVE  \E s : /\ Put(t, s) /\ s \in RunRecord /\ Shape(s) /\ Same(run[t], s)
                  /\ run[t].pc \in {"consider", "off"}
                  /\ \/ s.pc = "scan" /\ opens' = opens + 1
                     \/ s.pc = "off" /\ opens' = opens
  <1>1. {"scan", "off"} \subseteq Awaits \cup {"off", "idle"}
    BY DEF Awaits
  <1>2. /\ run[t].pc \in {"consider", "off"}
        /\ \/ To(t, "scan") /\ opens' = opens + 1
           \/ To(t, "off") /\ opens' = opens
    BY DEF RunNightshift
  <1>3. PICK pc \in {"scan", "off"} : /\ To(t, pc)
                                      /\ pc = "scan" => opens' = opens + 1
                                      /\ pc = "off" => opens' = opens
    BY <1>2
  <1>4. PICK s : /\ Put(t, s) /\ s \in RunRecord /\ s.pc = pc /\ Kept(run[t], s)
    BY <1>1, <1>3, MovedTo
  <1>5. Shape(run[t])
    BY DEF RunInv
  <1>6. Shape(s) /\ Same(run[t], s)
    BY <1>2, <1>4, <1>5 DEF Shape, Same, Kept, Apart, PendIds, InflightOf, SentId, Unopened, Opening,
                            Reaping, Sending
  <1> QED BY <1>2, <1>3, <1>4, <1>6

\* The placeholder is written, or lost.
LEMMA OnwardPlaceholder ==
    ASSUME RunInv, NEW t \in Triggers, Placeholder(t)
    PROVE  \E s : /\ Put(t, s) /\ s \in RunRecord /\ Shape(s) /\ Same(run[t], s)
                  /\ run[t].pc = "placeholder" /\ s.pc = "untag"
  <1>1. "untag" \in Awaits \cup {"off", "idle"}
    BY DEF Awaits
  <1>2. run[t].pc = "placeholder" /\ To(t, "untag")
    BY DEF Placeholder
  <1>3. PICK s : /\ Put(t, s) /\ s \in RunRecord /\ s.pc = "untag" /\ Kept(run[t], s)
    BY <1>1, <1>2, MovedTo
  <1>4. Shape(run[t])
    BY DEF RunInv
  <1>5. Shape(s) /\ Same(run[t], s)
    BY <1>2, <1>3, <1>4 DEF Shape, Same, Kept, Apart, PendIds, InflightOf, SentId, Unopened, Opening,
                            Reaping, Sending
  <1> QED BY <1>2, <1>3, <1>5

\* The card is untagged, or not.
LEMMA OnwardUntag ==
    ASSUME RunInv, NEW t \in Triggers, Untag(t)
    PROVE  \E s : /\ Put(t, s) /\ s \in RunRecord /\ Shape(s) /\ Same(run[t], s)
                  /\ run[t].pc = "untag" /\ s.pc = "spawn"
  <1>1. "spawn" \in Awaits \cup {"off", "idle"}
    BY DEF Awaits
  <1>2. run[t].pc = "untag" /\ To(t, "spawn")
    BY DEF Untag
  <1>3. PICK s : /\ Put(t, s) /\ s \in RunRecord /\ s.pc = "spawn" /\ Kept(run[t], s)
    BY <1>1, <1>2, MovedTo
  <1>4. Shape(run[t])
    BY DEF RunInv
  <1>5. Shape(s) /\ Same(run[t], s)
    BY <1>2, <1>3, <1>4 DEF Shape, Same, Kept, Apart, PendIds, InflightOf, SentId, Unopened, Opening,
                            Reaping, Sending
  <1> QED BY <1>2, <1>3, <1>5

\* The clock and the usage events change the flags of a run.
LEMMA OnwardFlags ==
    ASSUME RunInv, NEW t \in Triggers, NEW p \in BOOLEAN, NEW c \in BOOLEAN,
           Put(t, [run[t] EXCEPT !.parked = p, !.closed = c])
    PROVE  \E s : /\ Put(t, s) /\ s \in RunRecord /\ Shape(s) /\ Same(run[t], s)
                  /\ s.pc = run[t].pc /\ s.todo = run[t].todo
  <1> DEFINE s == [run[t] EXCEPT !.parked = p, !.closed = c]
  <1>1. run[t] \in RunRecord /\ Shape(run[t])
    BY DEF RunInv
  <1>2. s \in RunRecord /\ s.pc = run[t].pc /\ s.todo = run[t].todo /\ Kept(run[t], s)
    BY <1>1 DEF RunRecord, Kept
  <1> HIDE DEF s
  <1>3. Shape(s) /\ Same(run[t], s)
    BY <1>1, <1>2 DEF Shape, Same, Kept, Apart, PendIds, InflightOf, SentId, Unopened, Opening,
                      Reaping, Sending
  <1> QED BY <1>2, <1>3 DEF s

\* The wake time of a parked run passes.
LEMMA OnwardSleep ==
    ASSUME RunInv, NEW t \in Triggers, SleepOver(t)
    PROVE  \E s : /\ Put(t, s) /\ s \in RunRecord /\ Shape(s) /\ Same(run[t], s)
                  /\ s.pc = run[t].pc /\ s.todo = run[t].todo
  <1>1. run[t] \in RunRecord /\ Put(t, [run[t] EXCEPT !.parked = FALSE])
    BY DEF RunInv, SleepOver
  <1>2. run[t].closed \in BOOLEAN
        /\ [run[t] EXCEPT !.parked = FALSE] = [run[t] EXCEPT !.parked = FALSE, !.closed = run[t].closed]
    BY <1>1 DEF RunRecord
  <1>3. Put(t, [run[t] EXCEPT !.parked = FALSE, !.closed = run[t].closed])
    BY <1>1, <1>2
  <1> QED BY <1>2, <1>3, OnwardFlags

\* The window closes.
LEMMA OnwardWindow ==
    ASSUME RunInv, NEW t \in Triggers, WindowCloses(t)
    PROVE  \E s : /\ Put(t, s) /\ s \in RunRecord /\ Shape(s) /\ Same(run[t], s)
                  /\ s.pc = run[t].pc /\ s.todo = run[t].todo
  <1>1. run[t] \in RunRecord /\ Put(t, [run[t] EXCEPT !.closed = TRUE])
    BY DEF RunInv, WindowCloses
  <1>2. run[t].parked \in BOOLEAN
        /\ [run[t] EXCEPT !.closed = TRUE] = [run[t] EXCEPT !.parked = run[t].parked, !.closed = TRUE]
    BY <1>1 DEF RunRecord
  <1>3. Put(t, [run[t] EXCEPT !.parked = run[t].parked, !.closed = TRUE])
    BY <1>1, <1>2
  <1> QED BY <1>2, <1>3, OnwardFlags

\* A queue of nothing is the empty one.
LEMMA NoneWaiting ==
    ASSUME NEW q \in Seq(Task), \A a \in DOMAIN q : FALSE
    PROVE  q = <<>>
  <1>1. Len(q) \in Nat /\ DOMAIN q = 1..Len(q)
    OBVIOUS
  <1>2. Len(q) = 0
    <2>1. Len(q) # 0 => 1 \in DOMAIN q
      BY <1>1
    <2> QED BY <2>1
  <1> QED BY <1>2, EmptySeq

\* One skipped card less to write.
LEMMA OnwardStarve ==
    ASSUME RunInv, NEW t \in Triggers, Starve(t)
    PROVE  \E s : /\ Put(t, s) /\ s \in RunRecord /\ Shape(s) /\ Same(run[t], s)
                  /\ run[t].pc = "starve" /\ s.pc \in {"starve", "idle", "finalize"}
                  /\ s.pc = "starve" => s.todo = run[t].todo \ {Min(run[t].todo)}
                  /\ s.pc # "starve" => run[t].todo \subseteq {Min(run[t].todo)}
  <1> DEFINE r == run[t]
             rest == r.todo \ {Min(r.todo)}
  <1>1. r \in RunRecord /\ Shape(r) /\ r.pc = "starve"
    BY DEF RunInv, Starve
  <1>2. CASE rest # {}
    <2> DEFINE s == [r EXCEPT !.todo = rest]
    <2>1. Put(t, s)
      BY <1>2 DEF Starve
    <2>2. s \in RunRecord /\ s.pc = "starve" /\ s.todo = rest /\ Kept(r, s)
      BY <1>1 DEF RunRecord, Kept
    <2> HIDE DEF s
    <2>3. Shape(s) /\ Same(r, s)
      BY <1>1, <1>2, <2>2 DEF Shape, Same, Kept, Apart, PendIds, InflightOf, SentId, Unopened, Opening,
                              Reaping, Sending
    <2> QED BY <1>1, <2>1, <2>2, <2>3
  <1>3. CASE rest = {}
    <2> DEFINE u == [r EXCEPT !.todo = {}]
    <2>1. MaybeFinalize(t, u)
      BY <1>3 DEF Starve
    <2>2. u \in RunRecord /\ u.pending = r.pending /\ u.inflight = r.inflight
      BY <1>1 DEF RunRecord
    <2> HIDE DEF u, r
    <2>3. Apart(u)
      BY <1>1, <2>2 DEF Shape, Apart, PendIds, InflightOf
    <2>4. PICK s : Put(t, s) /\ Filled(u, s, reserved, reserved)
      BY <2>1, <2>2, <2>3, FinalizeOrIdle
    <2>5. r.pending = <<>> /\ PendIds(u) = {} /\ r.id = 0
      BY <1>1, <2>2 DEF Shape, PendIds
    <2>6. /\ s \in RunRecord /\ Shape(s) /\ s.inflight = r.inflight /\ PendIds(s) = {} /\ SentId(s) = {}
          /\ s.pc \in {"placeholder", "idle", "finalize", "starve"}
      BY <2>2, <2>4, <2>5 DEF Filled
    <2>7. s.pc # "placeholder"
      BY <2>6 DEF SentId, Sending
    <2>8. s.pending = <<>>
      <3>1. s.pending \in Seq(Task)
        BY <2>6 DEF RunRecord
      <3>2. ASSUME NEW a \in DOMAIN s.pending PROVE FALSE
        <4>1. s.pending[a].id \in PendIds(s)
          BY DEF PendIds
        <4> QED BY <2>6, <4>1
      <3> QED BY <3>1, <3>2, NoneWaiting
    <2>9. s.id = 0 /\ SentId(r) = {}
      BY <1>1, <2>6, <2>7 DEF Shape, SentId, Sending
    <2>10. Same(r, s)
      BY <2>5, <2>6, <2>8, <2>9 DEF Same, Kept
    <2>11. s.pc # "starve"
      <3>1. Put(t, [Resumed(u) EXCEPT !.pc = IF u.pending # <<>> \/ InflightOf(u) # {} THEN "idle" ELSE "finalize"])
        BY <2>1 DEF MaybeFinalize
      <3>2. ([Resumed(u) EXCEPT !.pc = IF u.pending # <<>> \/ InflightOf(u) # {} THEN "idle" ELSE "finalize"]).pc
             \in {"idle", "finalize"}
        BY <2>2 DEF Resumed, RunRecord
      <3>3. run' = [run EXCEPT ![t] = s] /\ run \in [Triggers -> RunRecord]
        BY <2>4 DEF Put, RunInv
      <3>4. run'[t] = s /\ run'[t].pc \in {"idle", "finalize"}
        BY <3>1, <3>2, <3>3 DEF Put
      <3> QED BY <3>4
    <2> QED BY <1>1, <1>3, <2>4, <2>6, <2>7, <2>10, <2>11 DEF r
  <1> QED BY <1>2, <1>3

\* The tagged cards one card further.
LEMMA OneCardMore ==
    ASSUME NEW n \in Ids
    PROVE  /\ TaggedIn(n) \subseteq Ids /\ TaggedIn(n - 1) \subseteq Ids
           /\ Cardinality(TaggedIn(n)) \in Nat /\ Cardinality(TaggedIn(n - 1)) \in Nat
           /\ Cardinality(TaggedIn(n)) <= Cardinality(TaggedIn(n - 1)) + 1
           /\ n \notin TaggedIn(n) => Cardinality(TaggedIn(n)) = Cardinality(TaggedIn(n - 1))
  <1>1. n \in 1..Len(CardSeq) /\ Len(CardSeq) \in Nat /\ Ids = 1..Len(CardSeq)
    BY IdsFinite
  <1>2. /\ TaggedIn(n) \subseteq Ids /\ TaggedIn(n - 1) \subseteq Ids
        /\ n \in TaggedIn(n) => TaggedIn(n) = TaggedIn(n - 1) \cup {n}
        /\ n \notin TaggedIn(n) => TaggedIn(n) = TaggedIn(n - 1)
        /\ n \notin TaggedIn(n - 1)
    <2>1. 1..(n - 1) = (1..n) \ {n} /\ 1..n \subseteq Ids /\ n \in 1..n
      BY <1>1
    <2>2. TaggedIn(n - 1) = TaggedIn(n) \ {n}
      BY <2>1 DEF TaggedIn
    <2>3. TaggedIn(n) \subseteq Ids
      BY <2>1 DEF TaggedIn
    <2>4. n \notin TaggedIn(n) => TaggedIn(n) = TaggedIn(n - 1)
      BY <2>2
    <2>5. n \in TaggedIn(n) => TaggedIn(n) = TaggedIn(n - 1) \cup {n}
      BY <2>2
    <2>6. n \notin TaggedIn(n - 1) /\ TaggedIn(n - 1) \subseteq Ids
      BY <2>2, <2>3
    <2> QED BY <2>3, <2>4, <2>5, <2>6
  <1>3. IsFiniteSet(TaggedIn(n - 1))
    BY <1>2, IdsFinite, FS_Subset
  <1>4. /\ Cardinality(TaggedIn(n - 1)) \in Nat
        /\ Cardinality(TaggedIn(n - 1) \cup {n}) = Cardinality(TaggedIn(n - 1)) + 1
    BY <1>2, <1>3, FS_AddElement, FS_CardinalityType
  <1> QED BY <1>2, <1>4

\* The card that takes a given place among the tagged ones.
LEMMA PlaceTaken ==
    ASSUME NEW i \in 1..Cardinality(TaggedIn(Len(CardSeq)))
    PROVE  \E n \in Ids : n \in TaggedIn(n) /\ Cardinality(TaggedIn(n)) = i
  <1> DEFINE N == Len(CardSeq)
             T == {n \in Ids : i <= Cardinality(TaggedIn(n))}
  <1>1. TaggedIn(0) = {} /\ Cardinality(TaggedIn(0)) = 0
    <2>1. TaggedIn(0) = {}
      BY DEF TaggedIn
    <2> QED BY <2>1, FS_EmptySet
  <1>2. N \in Ids
    <2>1. N \in Nat /\ Ids = 1..N
      BY IdsFinite
    <2>2. N # 0
      BY <1>1
    <2> QED BY <2>1, <2>2
  <1>3. Cardinality(TaggedIn(N)) \in Nat
    BY <1>2, OneCardMore
  <1>4. i \in Nat /\ i >= 1 /\ N \in T
    BY <1>2, <1>3
  <1>5. PICK n \in T : \A m \in T : n <= m
    <2>1. T \in SUBSET Nat
      BY IdsFinite
    <2> QED BY <1>4, <2>1, LeastNumber
  <1>6. n \in Ids /\ n \in Nat \ {0}
    BY IdsFinite
  <1>7. Cardinality(TaggedIn(n - 1)) < i
    <2>1. CASE n = 1
      BY <1>1, <1>4, <2>1
    <2>2. CASE n # 1
      <3>1. n - 1 \in Ids
        BY <1>6, <2>2, IdsFinite
      <3>2. n - 1 \notin T
        BY <1>5, <1>6
      <3>3. Cardinality(TaggedIn(n - 1)) \in Nat
        BY <1>6, OneCardMore
      <3> QED BY <1>4, <3>1, <3>2, <3>3
    <2> QED BY <2>1, <2>2
  <1>8. /\ Cardinality(TaggedIn(n)) \in Nat /\ Cardinality(TaggedIn(n - 1)) \in Nat
        /\ Cardinality(TaggedIn(n)) <= Cardinality(TaggedIn(n - 1)) + 1
        /\ n \notin TaggedIn(n) => Cardinality(TaggedIn(n)) = Cardinality(TaggedIn(n - 1))
    BY <1>6, OneCardMore
  <1> QED BY <1>4, <1>6, <1>7, <1>8

\* The queue the scan builds.
LEMMA QueueBuilt ==
    /\ Numbered \in Seq(Task) /\ Len(Numbered) <= Len(CardSeq)
    /\ \A a \in DOMAIN Numbered : Numbered[a].id = a
    /\ tagged = Cards => DOMAIN Numbered = Ids
  <1> DEFINE N == Cardinality(TaggedIn(Len(CardSeq)))
             at(i) == CHOOSE n \in Ids : n \in TaggedIn(n) /\ Cardinality(TaggedIn(n)) = i
  <1>1. N \in Nat /\ N <= Len(CardSeq) /\ (tagged = Cards => N = Len(CardSeq))
    <2>1. TaggedIn(Len(CardSeq)) \subseteq Ids
      BY IdsFinite DEF TaggedIn
    <2>2. Cardinality(Ids) = Len(CardSeq)
      <3>1. Cardinality(1..Len(CardSeq)) = Len(CardSeq)
        BY IdsFinite, FS_Interval
      <3> QED BY <3>1, IdsFinite
    <2>3. N \in Nat /\ N <= Len(CardSeq)
      BY <2>1, <2>2, IdsFinite, FS_Subset, FS_CardinalityType
    <2>4. tagged = Cards => TaggedIn(Len(CardSeq)) = Ids
      <3>1. \A m \in Ids : CardSeq[m] \in Cards
        BY DEF Cards, Ids, Range
      <3> QED BY <3>1, IdsFinite DEF TaggedIn
    <2> QED BY <2>2, <2>3, <2>4
  <1>2. Numbered = [i \in 1..N |-> [id |-> i, card |-> CardSeq[at(i)]]]
    BY DEF Numbered
  <1>3. \A i \in 1..N : at(i) \in Ids
    BY PlaceTaken
  <1> HIDE DEF N, at
  <1>4. \A i \in 1..N : [id |-> i, card |-> CardSeq[at(i)]] \in Task
    <2>1. \A m \in Ids : CardSeq[m] \in Cards
      BY DEF Cards, Ids, Range
    <2>2. 1..N \subseteq Ids
      BY <1>1, IdsFinite
    <2> QED BY <1>3, <2>1, <2>2 DEF Task
  <1>5. Numbered \in [1..N -> Task]
    BY <1>2, <1>4
  <1>6. Numbered \in Seq(Task) /\ Len(Numbered) = N /\ DOMAIN Numbered = 1..N
    BY <1>1, <1>5
  <1>7. \A a \in DOMAIN Numbered : Numbered[a].id = a
    BY <1>2
  <1> QED BY <1>1, <1>6, <1>7, IdsFinite

\* No run is a run that holds nothing.
LEMMA NoRunIs == /\ NoRun \in RunRecord /\ Shape(NoRun) /\ NoRun.pc = "off" /\ NoRun.pending = <<>>
                 /\ InflightOf(NoRun) = {} /\ NoRun.id = 0 /\ NoRun.todo = {}
                 /\ PendIds(NoRun) = {} /\ SentId(NoRun) = {}
  <1>1. /\ NoRun.pc = "off" /\ NoRun.pending = <<>> /\ NoRun.id = 0 /\ NoRun.todo = {}
        /\ NoRun.inflight = [i \in Ids |-> 0]
    BY DEF NoRun
  <1>2. NoRun \in RunRecord
    <2>1. 0 \in 0..MaxConv /\ Summary \in Titles /\ <<>> \in Seq(Task)
      BY NightAssumption DEF Titles
    <2> QED BY <2>1 DEF NoRun, RunRecord
  <1>3. InflightOf(NoRun) = {} /\ PendIds(NoRun) = {} /\ SentId(NoRun) = {}
    BY <1>1 DEF InflightOf, PendIds, SentId, Sending
  <1>4. Len(NoRun.pending) <= Len(CardSeq)
    BY <1>1, EmptySeq, IdsFinite
  <1>5. Apart(NoRun)
    BY <1>1, <1>3, <1>4 DEF Apart
  <1> QED BY <1>1, <1>2, <1>3, <1>5 DEF Shape, Unopened, Opening, Reaping, Sending

\* The scan gives a call its queue, or ends it.
LEMMA BoardScanned ==
    ASSUME RunInv, NEW t \in Triggers, ScanBoard(t)
    PROVE  \E s : /\ Put(t, s) /\ s \in RunRecord /\ Shape(s)
                  /\ run[t].pc = "scan" /\ s.pc \in {"off", "start"}
                  /\ s.id = 0 /\ InflightOf(s) = {} /\ SentId(s) = {}
                  /\ s.pc = "start" => s.pending = Numbered
  <1>1. PICK ok \in BOOLEAN :
          Put(t, [NoRun EXCEPT !.pc = IF (IF ok THEN Numbered ELSE <<>>) = <<>> THEN "off" ELSE "start",
                               !.pending = IF ok THEN Numbered ELSE <<>>])
    BY DEF ScanBoard
  <1> DEFINE found == IF ok THEN Numbered ELSE <<>>
             pc == IF found = <<>> THEN "off" ELSE "start"
             s == [NoRun EXCEPT !.pc = pc, !.pending = found]
  <1>2. Put(t, s) /\ run[t].pc = "scan"
    BY <1>1 DEF ScanBoard
  <1>3. found \in Seq(Task) /\ Len(found) <= Len(CardSeq) /\ (found # <<>> => found = Numbered)
        /\ \A a \in DOMAIN found : found[a].id = a
    <2>1. CASE ok
      BY <2>1, QueueBuilt
    <2>2. CASE ~ok
      BY <2>2, IdsFinite, EmptySeq
    <2> QED BY <2>1, <2>2
  <1>4. pc \in {"off", "start"} /\ (pc = "off" => found = <<>>) /\ (pc = "start" => found = Numbered)
    BY <1>3
  <1> HIDE DEF pc, found
  <1>5. s.pc = pc /\ s.pending = found /\ s.inflight = NoRun.inflight /\ s.id = 0
    BY DEF NoRun
  <1>6. s \in RunRecord
    <2>1. pc \in Awaits \cup {"off", "idle"}
      BY <1>4 DEF Awaits
    <2> QED BY <1>3, <2>1, NoRunIs DEF RunRecord
  <1> HIDE DEF s
  <1>7. InflightOf(s) = {} /\ SentId(s) = {}
    BY <1>4, <1>5, NoRunIs DEF InflightOf, SentId, Sending
  <1>8. Apart(s)
    <2>1. \A a, b \in DOMAIN s.pending : s.pending[a].id = s.pending[b].id => a = b
      BY <1>3, <1>5
    <2> QED BY <1>3, <1>5, <1>7, <2>1 DEF Apart
  <1>9. Shape(s)
    BY <1>4, <1>5, <1>7, <1>8 DEF Shape, Unopened, Opening, Reaping, Sending
  <1> QED BY <1>2, <1>4, <1>5, <1>6, <1>7, <1>9

\* What advanceRun does depends on the queue and on what is in flight only.
LEMMA AdvancedAlike ==
    ASSUME NEW t, NEW r, NEW u, u.pending = r.pending, u.inflight = r.inflight,
           Advanced(t, u, reserved)
    PROVE  Advanced(t, r, reserved)
  <1>1. PICK s : Put(t, s) /\ (Filled(u, s, reserved, reserved') \/ Reaped(u, s, reserved, reserved'))
    BY DEF Advanced
  <1>2. Reaped(u, s, reserved, reserved') => Reaped(r, s, reserved, reserved')
    BY DEF Reaped, InflightOf
  <1> QED BY <1>1, <1>2, FilledAlike DEF Advanced

\* Who advances a run: the tick,
LEMMA TickAdvances ==
    ASSUME RunInv, NEW t \in Triggers, Tick(t)
    PROVE  run[t].pc = "idle" /\ Advanced(t, run[t], reserved)
  <1>1. run[t] \in RunRecord /\ Apart(run[t]) /\ reserved \in [Ids -> Nat]
    BY DEF RunInv, Shape
  <1>2. run[t].pc = "idle" /\ AdvanceRun(t, run[t])
    BY DEF Tick
  <1> QED BY <1>1, <1>2, RunAdvanced

\* run_start, unless its answer is lost,
LEMMA StartAdvances ==
    ASSUME RunInv, NEW t \in Triggers, RunStart(t)
    PROVE  /\ run[t].pc = "start"
           /\ \/ lost' = lost + 1 /\ Put(t, NoRun) /\ UNCHANGED <<runmd, active, reserved>>
              \/ Advanced(t, run[t], reserved) /\ runmd' = IF runmd = None THEN "running" ELSE runmd
  <1>1. run[t] \in RunRecord /\ Apart(run[t]) /\ reserved \in [Ids -> Nat]
    BY DEF RunInv, Shape
  <1>2. PICK ok \in BOOLEAN :
         /\ Rpc(ok)
         /\ IF ok
            THEN /\ runmd' = IF runmd = None THEN "running" ELSE runmd
                 /\ active' = t
                 /\ AdvanceRun(t, run[t])
            ELSE Put(t, NoRun) /\ UNCHANGED <<runmd, active, reserved>>
    BY DEF RunStart
  <1>3. run[t].pc = "start"
    BY DEF RunStart
  <1>4. CASE ok
    BY <1>1, <1>2, <1>3, <1>4, RunAdvanced
  <1>5. CASE ~ok
    <2>1. lost' = lost + 1
      BY <1>2, <1>5 DEF Rpc
    <2> QED BY <1>2, <1>3, <1>5, <2>1
  <1> QED BY <1>4, <1>5

\* the rest of a reap,
LEMMA ReapingAdvances ==
    ASSUME RunInv, NEW t \in Triggers, Reaping(run[t]), ReapFinished(t, run[t], reserved)
    PROVE  Advanced(t, run[t], reserved)
  <1>1. /\ run[t] \in RunRecord /\ Apart(run[t]) /\ reserved \in [Ids -> Nat]
        /\ run[t].todo \subseteq InflightOf(run[t])
    BY DEF RunInv, Shape
  <1> QED BY <1>1, WorkersReaped

\* the snapshot of a settled card; of another one it goes to the patch or to the ladder,
LEMMA SnapshotMoves ==
    ASSUME RunInv, NEW t \in Triggers, Snapshot(t)
    PROVE  /\ run[t].pc = "snapshot"
           /\ \/ Advanced(t, run[t], reserved) /\ UNCHANGED ladder
              \/ \E s : /\ Put(t, s) /\ s \in RunRecord /\ Shape(s) /\ Same(run[t], s)
                        /\ reserved' = reserved
                        /\ \/ s.pc = "patch" /\ UNCHANGED ladder
                           \/ /\ s.pc = "ladder" /\ IsCrashEnd(run[t].conv)
                              /\ ladder' = [ladder EXCEPT ![run[t].id] =
                                               [NoLadder EXCEPT !.pc = "read", !.conv = run[t].conv]]
  <1>1. run[t].pc = "snapshot" /\ Shape(run[t]) /\ Reaping(run[t])
    BY DEF Snapshot, RunInv, Reaping
  <1>2. \/ /\ IsCrashEnd(run[t].conv) /\ To(t, "ladder") /\ UNCHANGED reserved
           /\ ladder' = [ladder EXCEPT ![run[t].id] =
                            [NoLadder EXCEPT !.pc = "read", !.conv = run[t].conv]]
        \/ To(t, "patch") /\ UNCHANGED <<ladder, reserved>>
        \/ ReapFinished(t, run[t], reserved) /\ UNCHANGED ladder
    BY DEF Snapshot
  <1>3. {"ladder", "patch"} \subseteq Awaits \cup {"off", "idle"}
    BY DEF Awaits
  <1>4. ASSUME NEW pc \in {"ladder", "patch"}, To(t, pc)
        PROVE  \E s : /\ Put(t, s) /\ s \in RunRecord /\ Shape(s) /\ Same(run[t], s) /\ s.pc = pc
    <2>1. PICK s : /\ Put(t, s) /\ s \in RunRecord /\ s.pc = pc /\ Kept(run[t], s)
                   /\ s.todo = run[t].todo
      BY <1>3, <1>4, MovedTo
    <2>2. Shape(s) /\ Same(run[t], s)
      BY <1>1, <2>1 DEF Shape, Same, Kept, Apart, PendIds, InflightOf, SentId, Unopened, Opening,
                        Reaping, Sending
    <2> QED BY <2>1, <2>2
  <1>5. CASE /\ IsCrashEnd(run[t].conv) /\ To(t, "ladder") /\ UNCHANGED reserved
             /\ ladder' = [ladder EXCEPT ![run[t].id] =
                              [NoLadder EXCEPT !.pc = "read", !.conv = run[t].conv]]
    <2>1. PICK s : /\ Put(t, s) /\ s \in RunRecord /\ Shape(s) /\ Same(run[t], s) /\ s.pc = "ladder"
      BY <1>4, <1>5
    <2> QED BY <1>1, <1>5, <2>1
  <1>6. CASE To(t, "patch") /\ UNCHANGED <<ladder, reserved>>
    <2>1. PICK s : /\ Put(t, s) /\ s \in RunRecord /\ Shape(s) /\ Same(run[t], s) /\ s.pc = "patch"
      BY <1>4, <1>6
    <2> QED BY <1>1, <1>6, <2>1
  <1>7. CASE ReapFinished(t, run[t], reserved) /\ UNCHANGED ladder
    BY <1>1, <1>7, ReapingAdvances
  <1> QED BY <1>2, <1>5, <1>6, <1>7

\* the patch of a card,
LEMMA PatchAdvances ==
    ASSUME RunInv, NEW t \in Triggers, PatchErrored(t)
    PROVE  run[t].pc = "patch" /\ Advanced(t, run[t], reserved)
  BY ReapingAdvances DEF PatchErrored, Reaping

\* the ladder the tick waited for,
LEMMA AwaitedAdvances ==
    ASSUME RunInv, NEW t \in Triggers, LadderAwaited(t)
    PROVE  run[t].pc = "ladder" /\ Advanced(t, run[t], reserved)
  BY ReapingAdvances DEF LadderAwaited, Reaping

\* and a usage event that wakes a parked run between two ticks.
LEMMA UsageMoves ==
    ASSUME RunInv, NEW t \in Triggers, UsageEvent(t)
    PROVE  \/ run[t].pc = "idle" /\ Advanced(t, run[t], reserved)
           \/ \E s : /\ Put(t, s) /\ s \in RunRecord /\ Shape(s) /\ Same(run[t], s)
                     /\ s.pc = run[t].pc /\ s.todo = run[t].todo /\ reserved' = reserved
  <1> DEFINE r == [run[t] EXCEPT !.parked = FALSE]
  <1>1. run[t] \in RunRecord /\ Apart(run[t]) /\ reserved \in [Ids -> Nat]
    BY DEF RunInv, Shape
  <1>2. /\ r \in RunRecord /\ r.pc = run[t].pc /\ r.pending = run[t].pending
        /\ r.inflight = run[t].inflight
    BY <1>1 DEF RunRecord
  <1>3. IF r.pc = "idle" THEN AdvanceRun(t, r) ELSE Put(t, r) /\ UNCHANGED reserved
    BY DEF UsageEvent
  <1>4. CASE r.pc = "idle"
    <2> HIDE DEF r
    <2>1. Apart(r)
      BY <1>1, <1>2 DEF Apart, PendIds, InflightOf
    <2>2. Advanced(t, r, reserved)
      BY <1>1, <1>2, <1>3, <1>4, <2>1, RunAdvanced
    <2> QED BY <1>2, <1>4, <2>2, AdvancedAlike
  <1>5. CASE r.pc # "idle"
    <2>1. run[t].closed \in BOOLEAN /\ r = [run[t] EXCEPT !.parked = FALSE, !.closed = run[t].closed]
      BY <1>1 DEF RunRecord
    <2>2. Put(t, [run[t] EXCEPT !.parked = FALSE, !.closed = run[t].closed]) /\ reserved' = reserved
      BY <1>3, <1>5, <2>1
    <2> HIDE DEF r
    <2>3. PICK s : /\ Put(t, s) /\ s \in RunRecord /\ Shape(s) /\ Same(run[t], s)
                   /\ s.pc = run[t].pc /\ s.todo = run[t].todo
      BY <2>1, <2>2, OnwardFlags
    <2> QED BY <2>2, <2>3
  <1> QED BY <1>4, <1>5

\* A spawn that is not refused takes a fresh conversation for the task.
LEMMA WorkerSpawned ==
    ASSUME Typed, NEW out \in SpawnOutcome, NEW i \in Ids, NEW c \in Titles, NEW again \in BOOLEAN,
           Spawn(out, i, c, again), out # "refused"
    PROVE  /\ Min(Unused) \in Convs /\ conv[Min(Unused)].st = "none"
           /\ conv' \in [Convs -> ConvRecord]
           /\ conv'[Min(Unused)].id = i /\ conv'[Min(Unused)].st = "booting"
           /\ conv'[Min(Unused)].retry = again
           /\ \A k \in Convs : k # Min(Unused) => conv'[k] = conv[k]
  <1> DEFINE k == Min(Unused)
             w == [NoConv EXCEPT !.id = i, !.card = c, !.st = "booting", !.retry = again]
  <1>1. Unused # {} /\ conv' = [conv EXCEPT ![k] = w]
    BY DEF Spawn
  <1>2. k \in Convs /\ conv[k].st = "none"
    <2>1. Unused \in SUBSET Nat
      BY NightAssumption DEF Unused, Convs
    <2>2. k \in Unused
      BY <1>1, <2>1, MinOf
    <2> QED BY <2>2 DEF Unused
  <1>3. w \in ConvRecord /\ w.id = i /\ w.st = "booting" /\ w.retry = again
    BY DEF NoConv, ConvRecord
  <1>4. conv \in [Convs -> ConvRecord]
    BY DEF Typed
  <1> HIDE DEF k, w
  <1>5. /\ conv' \in [Convs -> ConvRecord] /\ conv'[k] = w
        /\ \A m \in Convs : m # k => conv'[m] = conv[m]
    BY <1>1, <1>2, <1>3, <1>4
  <1> QED BY <1>2, <1>3, <1>5 DEF k

\* The task whose worker was just spawned is in flight.
Launched(r, k) == [r EXCEPT !.inflight = [r.inflight EXCEPT ![r.id] = k]]

\* A run whose task was just launched is still well formed.
LEMMA LaunchedIs ==
    ASSUME NEW r \in RunRecord, Shape(r), r.id \in Ids, NEW k \in Convs,
           r.id \notin PendIds(r) \cup InflightOf(r)
    PROVE  /\ Launched(r, k) \in RunRecord /\ Apart(Launched(r, k))
           /\ Launched(r, k).pending = r.pending
           /\ Launched(r, k).inflight = [r.inflight EXCEPT ![r.id] = k]
           /\ InflightOf(Launched(r, k)) = InflightOf(r) \cup {r.id}
           /\ PendIds(Launched(r, k)) = PendIds(r)
  <1> DEFINE u == Launched(r, k)
  <1>1. r.inflight \in [Ids -> 0..MaxConv] /\ k \in 0..MaxConv /\ k # 0
    BY NightAssumption DEF RunRecord, Convs
  <1>2. u.pending = r.pending /\ u.inflight = [r.inflight EXCEPT ![r.id] = k]
    BY DEF Launched, RunRecord
  <1>3. u \in RunRecord
    <2>1. [r.inflight EXCEPT ![r.id] = k] \in [Ids -> 0..MaxConv]
      BY <1>1
    <2> QED BY <2>1 DEF Launched, RunRecord
  <1> HIDE DEF u
  <1>4. InflightOf(u) = InflightOf(r) \cup {r.id}
    BY <1>1, <1>2 DEF InflightOf
  <1>5. PendIds(u) = PendIds(r)
    BY <1>2 DEF PendIds
  <1>6. Apart(u)
    BY <1>2, <1>4, <1>5 DEF Apart, Shape
  <1> QED BY <1>2, <1>3, <1>4, <1>5, <1>6 DEF u

\* A spawn puts its task in flight and fills the next slot, or fails and gives its tokens back.
LEMMA SpawnMoves ==
    ASSUME RunInv, Typed, NEW t \in Triggers, SpawnWorker(t)
    PROVE  /\ run[t].pc = "spawn" /\ run[t].id \in Ids
           /\ \E out \in SpawnOutcome : Spawn(out, run[t].id, run[t].card, FALSE)
           /\ \/ \E s : /\ Put(t, s) /\ Filled(Launched(run[t], Min(Unused)), s, reserved, reserved')
                        /\ Min(Unused) \in Convs /\ conv'[Min(Unused)].id = run[t].id
              \/ \E s : /\ Put(t, s) /\ s \in RunRecord /\ Shape(s) /\ Kept(run[t], s)
                        /\ s.pc = "failed" /\ reserved' = [reserved EXCEPT ![run[t].id] = 0]
  <1>1. /\ run[t].pc = "spawn" /\ run[t] \in RunRecord /\ Shape(run[t]) /\ Sending(run[t])
        /\ reserved \in [Ids -> Nat]
    BY DEF SpawnWorker, RunInv, Sending
  <1>2. run[t].id \in Ids /\ run[t].id \notin PendIds(run[t]) \cup InflightOf(run[t]) /\ run[t].card \in Titles
    BY <1>1 DEF Shape, RunRecord
  <1>3. PICK out \in SpawnOutcome :
          /\ Spawn(out, run[t].id, run[t].card, FALSE)
          /\ IF out = "ok"
             THEN \/ Admit(t, [run[t] EXCEPT !.inflight[run[t].id] = Min(Unused)], reserved)
                  \/ AdmitNone(t, [run[t] EXCEPT !.inflight[run[t].id] = Min(Unused)], reserved)
             ELSE To(t, "failed") /\ reserved' = [reserved EXCEPT ![run[t].id] = 0]
    BY DEF SpawnWorker
  <1>4. CASE out = "ok"
    <2> DEFINE k == Min(Unused)
    <2>1. k \in Convs /\ conv'[k].id = run[t].id
      BY <1>2, <1>3, <1>4, WorkerSpawned
    <2> HIDE DEF k
    <2>2. [run[t] EXCEPT !.inflight[run[t].id] = k] = Launched(run[t], k)
      BY <1>1 DEF Launched, RunRecord
    <2>3. \/ Admit(t, Launched(run[t], k), reserved)
          \/ AdmitNone(t, Launched(run[t], k), reserved)
      BY <1>3, <1>4, <2>2 DEF k
    <2>4. Launched(run[t], k) \in RunRecord /\ Apart(Launched(run[t], k))
      BY <1>1, <1>2, <2>1, LaunchedIs
    <2>5. PICK s : Put(t, s) /\ Filled(Launched(run[t], k), s, reserved, reserved')
      BY <1>1, <2>3, <2>4, AdmitHead, AdmitNothing
    <2> QED BY <1>1, <1>2, <1>3, <2>1, <2>5 DEF k
  <1>5. CASE out # "ok"
    <2>1. To(t, "failed") /\ reserved' = [reserved EXCEPT ![run[t].id] = 0]
      BY <1>3, <1>5
    <2>2. "failed" \in Awaits \cup {"off", "idle"}
      BY DEF Awaits
    <2>3. PICK s : /\ Put(t, s) /\ s \in RunRecord /\ s.pc = "failed" /\ Kept(run[t], s)
      BY <2>1, <2>2, MovedTo
    <2>4. Shape(s)
      BY <1>1, <1>2, <2>3 DEF Shape, Kept, Apart, PendIds, InflightOf, Unopened, Opening,
                              Reaping, Sending
    <2> QED BY <1>1, <1>2, <1>3, <2>1, <2>3, <2>4
  <1> QED BY <1>4, <1>5

\* A failed spawn is over and the slots are filled.
LEMMA FailedMoves ==
    ASSUME RunInv, NEW t \in Triggers, SpawnFailed(t)
    PROVE  /\ run[t].pc = "failed" /\ run[t].id \in Ids
           /\ \E s : Put(t, s) /\ Filled(run[t], s, reserved, reserved')
  <1>1. /\ run[t].pc = "failed" /\ run[t] \in RunRecord /\ Shape(run[t])
        /\ reserved \in [Ids -> Nat]
    BY DEF SpawnFailed, RunInv
  <1>2. run[t].id \in Ids /\ Apart(run[t])
    BY <1>1 DEF Shape
  <1>3. Admit(t, run[t], reserved) \/ AdmitNone(t, run[t], reserved)
    BY DEF SpawnFailed
  <1> QED BY <1>1, <1>2, <1>3, AdmitHead, AdmitNothing

-----------------------------------------------------------------------------
(* The runs and the ledger, step by step.                                   *)

\* One run moved, and the ledger with it: on to its next await; slots filled or
\* a worker reaped; a worker spawned; a spawn failed; a call over or its scan done.
Opens(r, s)    == Unopened(r) /\ s.pc = "scan" /\ opens' = opens + 1
Onward(r, s)   == /\ Same(r, s) /\ reserved' = reserved /\ (Reaping(s) => Reaping(r))
                  /\ \/ Opens(r, s)
                     \/ (Opening(s) <=> Opening(r)) /\ (Unopened(s) <=> Unopened(r))
Advances(r, s) == ~Unopened(r) /\ ~Sending(r) /\ (\/ Filled(r, s, reserved, reserved')
                                                   \/ Reaped(r, s, reserved, reserved'))
Launches(r, s) == /\ r.pc = "spawn" /\ Min(Unused) \in Convs /\ conv'[Min(Unused)].id = r.id
                  /\ Filled(Launched(r, Min(Unused)), s, reserved, reserved')
Fails(r, s)    == /\ r.pc = "spawn" /\ s.pc = "failed" /\ Kept(r, s)
                  /\ reserved' = [reserved EXCEPT ![r.id] = 0]
Empties(r, s)  == /\ r.pc \in {"scan", "start", "finalize"} /\ reserved' = reserved
                  /\ InflightOf(s) = {} /\ SentId(s) = {} /\ s.id = 0
                  /\ s.pc = "off" \/ (s.pc = "start" /\ r.pc = "scan")
Moves(t, s) ==
    /\ Put(t, s) /\ s \in RunRecord /\ Shape(s)
    /\ \/ Onward(run[t], s) \/ Advances(run[t], s) \/ Launches(run[t], s) \/ Fails(run[t], s)
       \/ Empties(run[t], s)

\* Advancing is one of the moves.
LEMMA AdvancedMoves ==
    ASSUME NEW t, Advanced(t, run[t], reserved), ~Unopened(run[t]), ~Sending(run[t])
    PROVE  \E s : Moves(t, s)
  <1>1. PICK s : Put(t, s) /\ (Filled(run[t], s, reserved, reserved') \/ Reaped(run[t], s, reserved, reserved'))
    BY DEF Advanced
  <1>2. s \in RunRecord /\ Shape(s)
    BY <1>1 DEF Filled, Reaped
  <1> QED BY <1>1, <1>2 DEF Moves, Advances

\* Every step but a restart leaves runs and ledger alone or moves one run.
LEMMA RunSteps ==
    ASSUME RunInv, Typed, Next
    PROVE  \/ UNCHANGED <<run, reserved>>
           \/ \E t \in Triggers, s \in RunRecord : Moves(t, s)
           \/ Restart
  <1> SUFFICES ASSUME ~Restart PROVE UNCHANGED <<run, reserved>> \/ \E t \in Triggers : \E s : Moves(t, s)
    BY DEF Moves
  <1>1. CASE Consider
    <2>1. reserved' = reserved
      BY <1>1 DEF Consider
    <2> QED BY <1>1, <2>1, OnwardConsider DEF Moves, Onward, Opens, Opening, Unopened, Reaping
  <1>2. ASSUME NEW t \in Triggers, Advance(t) PROVE \E s : Moves(t, s)
    <2>1. CASE RunNightshift(t)
      <3>1. reserved' = reserved
        BY <2>1 DEF RunNightshift
      <3> QED BY <2>1, <3>1, OnwardOpen DEF Moves, Onward, Opens, Opening, Unopened, Reaping
    <2>2. CASE ScanBoard(t)
      <3>1. reserved' = reserved
        BY <2>2 DEF ScanBoard
      <3> QED BY <2>2, <3>1, BoardScanned DEF Moves, Empties
    <2>3. CASE RunStart(t)
      <3>1. run[t].pc = "start"
        BY <2>3 DEF RunStart
      <3>2. CASE Advanced(t, run[t], reserved)
        BY <3>1, <3>2, AdvancedMoves DEF Unopened, Sending
      <3>3. CASE Put(t, NoRun) /\ reserved' = reserved
        BY <3>1, <3>3, NoRunIs DEF Moves, Empties
      <3> QED BY <2>3, <3>2, <3>3, StartAdvances
    <2>4. CASE Tick(t)
      BY <2>4, TickAdvances, AdvancedMoves DEF Unopened, Sending
    <2>5. CASE Snapshot(t)
      <3>1. run[t].pc = "snapshot"
        BY <2>5 DEF Snapshot
      <3>2. CASE Advanced(t, run[t], reserved)
        BY <3>1, <3>2, AdvancedMoves DEF Unopened, Sending
      <3>3. CASE ~Advanced(t, run[t], reserved)
        BY <2>5, <3>3, SnapshotMoves DEF Moves, Onward, Opening, Unopened, Reaping
      <3> QED BY <3>2, <3>3
    <2>6. CASE PatchErrored(t)
      BY <2>6, PatchAdvances, AdvancedMoves DEF Unopened, Sending
    <2>7. CASE LadderAwaited(t)
      BY <2>7, AwaitedAdvances, AdvancedMoves DEF Unopened, Sending
    <2>8. CASE Starve(t)
      <3>1. reserved' = reserved
        BY <2>8 DEF Starve
      <3> QED BY <2>8, <3>1, OnwardStarve DEF Moves, Onward, Opens, Opening, Unopened, Reaping
    <2>9. CASE Placeholder(t)
      <3>1. reserved' = reserved
        BY <2>9 DEF Placeholder
      <3> QED BY <2>9, <3>1, OnwardPlaceholder DEF Moves, Onward, Opens, Opening, Unopened, Reaping
    <2>10. CASE Untag(t)
      <3>1. reserved' = reserved
        BY <2>10 DEF Untag
      <3> QED BY <2>10, <3>1, OnwardUntag DEF Moves, Onward, Opens, Opening, Unopened, Reaping
    <2>11. CASE SpawnWorker(t)
      <3>1. CASE \E s : /\ Put(t, s) /\ Filled(Launched(run[t], Min(Unused)), s, reserved, reserved')
                        /\ Min(Unused) \in Convs /\ conv'[Min(Unused)].id = run[t].id
        <4>1. run[t].pc = "spawn"
          BY <2>11 DEF SpawnWorker
        <4> QED BY <3>1, <4>1 DEF Moves, Launches, Filled
      <3>2. CASE \E s : /\ Put(t, s) /\ s \in RunRecord /\ Shape(s) /\ Kept(run[t], s)
                        /\ s.pc = "failed" /\ reserved' = [reserved EXCEPT ![run[t].id] = 0]
        <4>1. run[t].pc = "spawn"
          BY <2>11 DEF SpawnWorker
        <4> QED BY <3>2, <4>1 DEF Moves, Fails
      <3> QED BY <2>11, <3>1, <3>2, SpawnMoves
    <2>12. CASE SpawnFailed(t)
      <3>1. run[t].pc = "failed" /\ \E s : Put(t, s) /\ Filled(run[t], s, reserved, reserved')
        BY <2>12, FailedMoves
      <3> QED BY <3>1, AdvancedMoves DEF Advanced, Unopened, Sending
    <2>13. CASE Finalize(t)
      <3>1. run[t].pc = "finalize" /\ Put(t, NoRun) /\ reserved' = reserved
        BY <2>13 DEF Finalize
      <3> QED BY <3>1, NoRunIs DEF Moves, Empties
    <2> QED BY <1>2, <2>1, <2>2, <2>3, <2>4, <2>5, <2>6, <2>7, <2>8, <2>9, <2>10, <2>11, <2>12, <2>13
            DEF Advance
  <1>3. ASSUME NEW t \in Triggers, UsageEvent(t) PROVE \E s : Moves(t, s)
    <2>1. CASE run[t].pc = "idle" /\ Advanced(t, run[t], reserved)
      BY <2>1, AdvancedMoves DEF Unopened, Sending
    <2>2. CASE \E s : /\ Put(t, s) /\ s \in RunRecord /\ Shape(s) /\ Same(run[t], s)
                      /\ s.pc = run[t].pc /\ reserved' = reserved
      BY <2>2 DEF Moves, Onward, Opening, Unopened, Reaping
    <2> QED BY <1>3, <2>1, <2>2, UsageMoves
  <1>4. ASSUME NEW t \in Triggers, SleepOver(t) PROVE \E s : Moves(t, s)
    <2>1. reserved' = reserved
      BY <1>4 DEF SleepOver
    <2> QED BY <1>4, <2>1, OnwardSleep DEF Moves, Onward, Opens, Opening, Unopened, Reaping
  <1>5. ASSUME NEW t \in Triggers, WindowCloses(t) PROVE \E s : Moves(t, s)
    <2>1. reserved' = reserved
      BY <1>5 DEF WindowCloses
    <2> QED BY <1>5, <2>1, OnwardWindow DEF Moves, Onward, Opens, Opening, Unopened, Reaping
  <1>6. ASSUME NEW i \in Ids, Settle(i) PROVE UNCHANGED <<run, reserved>>
    BY <1>6 DEF Settle, LadderRead, LadderBump, LadderRespawn, LadderStamp
  <1>7. CASE Sweep
    BY <1>7 DEF Sweep, SweepStart, SweepRead, SweepStamp, SweepLadder
  <1>8. ASSUME NEW k \in Convs, Worker(k) \/ Watchdog(k) PROVE UNCHANGED <<run, reserved>>
    BY <1>8 DEF Worker, Watchdog, Boot, Report, WorkerEnds, SocketCloses, WatchdogStamps, WatchdogKills,
                BrokerUnchanged
  <1> QED BY <1>1, <1>2, <1>3, <1>4, <1>5, <1>6, <1>7, <1>8 DEF Next

\* The ledger stays a ledger.
LEMMA LedgerTyped ==
    ASSUME RunInv, NEW t \in Triggers, NEW s \in RunRecord, Moves(t, s)
    PROVE  reserved' \in [Ids -> Nat]
  <1>1. reserved \in [Ids -> Nat] /\ Estimate \in Nat
    BY NightAssumption DEF RunInv
  <1>2. \A i : [reserved EXCEPT ![i] = 0] \in [Ids -> Nat] /\ [reserved EXCEPT ![i] = Estimate] \in [Ids -> Nat]
    BY <1>1
  <1>3. \A r : Filled(r, s, reserved, reserved') => reserved' \in [Ids -> Nat]
    BY <1>1, <1>2 DEF Filled
  <1>4. \A r : Reaped(r, s, reserved, reserved') => reserved' \in [Ids -> Nat]
    BY <1>2 DEF Reaped
  <1> QED BY <1>1, <1>2, <1>3, <1>4 DEF Moves, Onward, Advances, Launches, Fails, Empties

\* A restart leaves no run and some ledger.
LEMMA RestartEmpties ==
    ASSUME Restart
    PROVE  /\ run' = [t \in Triggers |-> NoRun] /\ reserved' \in [Ids -> Nat] /\ RunInv'
  <1>1. run' = [t \in Triggers |-> NoRun] /\ reserved' \in [Ids -> Nat]
    <2>1. Estimate \in Nat /\ 0 \in Nat
      BY NightAssumption
    <2> QED BY <2>1 DEF Restart
  <1> QED BY <1>1, NoRunIs DEF RunInv

\* Runs and ledger stay well formed.
LEMMA RunsStay ==
    ASSUME RunInv, Typed, [Next]_vars
    PROVE  RunInv'
  <1>1. CASE UNCHANGED <<run, reserved>>
    BY <1>1 DEF RunInv, Shape, Apart
  <1>2. ASSUME NEW t \in Triggers, NEW s \in RunRecord, Moves(t, s) PROVE RunInv'
    <2>1. reserved' \in [Ids -> Nat]
      BY <1>2, LedgerTyped
    <2>2. Put(t, s) /\ Shape(s)
      BY <1>2 DEF Moves
    <2> QED BY <2>1, <2>2, RunPut
  <1>3. UNCHANGED vars => UNCHANGED <<run, reserved>>
    BY DEF vars
  <1> QED BY <1>1, <1>2, <1>3, RunSteps, RestartEmpties

-----------------------------------------------------------------------------
(* The budget.                                                              *)

\* Admission is set once, at boot; only a restart restarts.
LEMMA AdmissionFixed ==
    ASSUME [Next]_vars
    PROVE  admission' = admission /\ (restarts' = restarts \/ Restart)
  <1>1. admission' = admission
    BY DEF Next, Consider, Advance, RunNightshift, ScanBoard, RunStart, Tick, Snapshot,
                  PatchErrored, LadderAwaited, Starve, Placeholder, Untag, SpawnWorker, SpawnFailed,
                  Finalize, UsageEvent, SleepOver, WindowCloses, Settle, LadderRead, LadderBump,
                  LadderRespawn, LadderStamp, Sweep, SweepStart, SweepRead, SweepStamp, SweepLadder,
                  Worker, Watchdog, Boot, Report, WorkerEnds, SocketCloses, WatchdogStamps,
                  WatchdogKills, BrokerUnchanged, vars, control, artifacts, workers, guardian, Restart
  <1>2. restarts' = restarts \/ Restart
    BY DEF Next, Consider, Advance, RunNightshift, ScanBoard, RunStart, Tick, Snapshot,
                  PatchErrored, LadderAwaited, Starve, Placeholder, Untag, SpawnWorker, SpawnFailed,
                  Finalize, UsageEvent, SleepOver, WindowCloses, Settle, LadderRead, LadderBump,
                  LadderRespawn, LadderStamp, Sweep, SweepStart, SweepRead, SweepStamp, SweepLadder,
                  Worker, Watchdog, Boot, Report, WorkerEnds, SocketCloses, WatchdogStamps,
                  WatchdogKills, BrokerUnchanged, vars, control, artifacts, workers, guardian
  <1> QED BY <1>1, <1>2

\* A reservation is added only where the room it was admitted into is left.
LEMMA BudgetStays ==
    ASSUME RunInv, Typed, NeverOverbooked, [Next]_vars
    PROVE  NeverOverbooked'
  <1> SUFFICES ASSUME admission', restarts' = 0 PROVE Outstanding(reserved') <= Max(Rooms)
    BY DEF NeverOverbooked
  <1>1. CASE Restart
    <2>1. restarts' = restarts + 1
      BY <1>1 DEF Restart
    <2>2. restarts \in Nat
      BY NightAssumption DEF Typed
    <2> QED BY <2>1, <2>2
  <1>2. (admission /\ restarts = 0) \/ Restart
    BY AdmissionFixed
  <1>3. /\ reserved \in [Ids -> Nat] /\ Estimate \in Nat /\ Rooms \subseteq Nat /\ Max(Rooms) \in Nat
        /\ \A room \in Rooms : room <= Max(Rooms)
    BY NightAssumption, WidestRoom DEF RunInv
  <1>4. CASE admission /\ restarts = 0
    <2>1. Outstanding(reserved) \in Nat /\ Outstanding(reserved) <= Max(Rooms)
      <3>1. Outstanding(reserved) \in Nat
        BY <1>3, SumNat
      <3> QED BY <1>4, <3>1 DEF NeverOverbooked
    <2>2. ASSUME NEW i \in Ids, reserved' = [reserved EXCEPT ![i] = 0]
          PROVE  Outstanding(reserved') <= Max(Rooms)
      <3>1. Outstanding([reserved EXCEPT ![i] = 0]) = Outstanding(reserved) - reserved[i] + 0
        BY <1>3, SumUpdate
      <3> QED BY <1>3, <2>1, <2>2, <3>1
    <2>3. ASSUME NEW r, NEW s, Filled(r, s, reserved, reserved')
          PROVE  Outstanding(reserved') <= Max(Rooms)
      <3>1. CASE reserved' = reserved
        BY <2>1, <3>1
      <3>2. CASE reserved' # reserved
        <4>1. s.pc = "placeholder" /\ reserved' = [reserved EXCEPT ![s.id] = Estimate]
              /\ s \in RunRecord /\ Shape(s)
          BY <1>4, <2>3, <3>2 DEF Filled
        <4>2. PICK room \in Rooms : Outstanding(reserved) + Estimate <= room
          BY <1>4, <2>3, <4>1 DEF Filled
        <4>3. s.id \in Ids
          BY <4>1 DEF Shape, Sending
        <4>4. Outstanding(reserved') = Outstanding(reserved) - reserved[s.id] + Estimate
          BY <1>3, <4>1, <4>3, SumUpdate
        <4>5. reserved[s.id] \in Nat /\ room \in Nat /\ room <= Max(Rooms)
          BY <1>3, <4>3
        <4> QED BY <1>3, <2>1, <4>2, <4>4, <4>5
      <3> QED BY <3>1, <3>2
    <2>4. ASSUME NEW t \in Triggers, NEW s \in RunRecord, Moves(t, s)
          PROVE  Outstanding(reserved') <= Max(Rooms)
      <3>1. CASE reserved' = reserved
        BY <2>1, <3>1
      <3>2. CASE Advances(run[t], s)
        <4>1. CASE Reaped(run[t], s, reserved, reserved')
          <5>1. PICK i \in InflightOf(run[t]) : reserved' = [reserved EXCEPT ![i] = 0]
            BY <4>1 DEF Reaped
          <5> QED BY <2>2, <5>1 DEF InflightOf
        <4> QED BY <2>3, <3>2, <4>1 DEF Advances
      <3>3. CASE Launches(run[t], s)
        BY <2>3, <3>3 DEF Launches
      <3>4. CASE Fails(run[t], s)
        <4>1. run[t].id \in Ids
          BY <3>4 DEF Fails, RunInv, Shape, Sending
        <4> QED BY <2>2, <3>4, <4>1 DEF Fails
      <3> QED BY <2>4, <3>1, <3>2, <3>3, <3>4 DEF Moves, Onward, Empties
    <2>5. UNCHANGED vars => UNCHANGED <<run, reserved>>
      BY DEF vars
    <2>6. CASE UNCHANGED <<run, reserved>>
      BY <2>1, <2>6
    <2> QED BY <1>1, <2>4, <2>5, <2>6, RunSteps
  <1> QED BY <1>1, <1>2, <1>4

-----------------------------------------------------------------------------
(* The cards' files and the types.                                          *)

\* The listing has a first file.
LEMMA FirstIs ==
    ASSUME NEW i \in Ids, FilesOf(i) # {}
    PROVE  First(i) \in FilesOf(i) /\ First(i) \in Titles
  <1> DEFINE T == {ReadRank[x] : x \in FilesOf(i)}
  <1>1. FilesOf(i) \subseteq Titles /\ ReadRank \in [Titles -> Nat]
    BY NightAssumption DEF FilesOf
  <1>2. T \in SUBSET Nat /\ T # {}
    BY <1>1
  <1>3. PICK n \in T : \A m \in T : n <= m
    <2> HIDE DEF T
    <2> QED BY <1>2, LeastNumber
  <1>4. PICK x \in FilesOf(i) : ReadRank[x] = n
    OBVIOUS
  <1>5. \A y \in FilesOf(i) : ReadRank[x] <= ReadRank[y]
    BY <1>3, <1>4
  <1>6. First(i) \in FilesOf(i)
    BY <1>4, <1>5 DEF First
  <1> QED BY <1>1, <1>6

\* What a reader finds is a file record.
LEMMA ViewIs ==
    ASSUME Typed, NEW i \in Ids
    PROVE  /\ View(i) \in FileRecord /\ View(i).st \in {"none", "running", "done", "errored"}
           /\ View(i).attempts \in 0..AttemptCap /\ View(i).attempts \in Nat
  <1>1. NoFile \in FileRecord
    BY NightAssumption DEF NoFile, FileRecord
  <1>2. file \in [Ids -> [Titles -> FileRecord]]
    BY DEF Typed
  <1>3. View(i) \in FileRecord
    <2>1. CASE FilesOf(i) = {}
      BY <1>1, <2>1 DEF View
    <2>2. CASE FilesOf(i) # {}
      BY <1>2, <2>2, FirstIs DEF View
    <2> QED BY <2>1, <2>2
  <1> QED BY <1>3, NightAssumption DEF FileRecord

\* A file is written, patched or stamped; the files stay files.
LEMMA WriteTyped ==
    ASSUME Typed, NEW i, NEW x, NEW st \in {"running", "done", "errored"}, Write(i, x, st)
    PROVE  file' \in [Ids -> [Titles -> FileRecord]]
  <1>1. file \in [Ids -> [Titles -> FileRecord]]
    BY DEF Typed
  <1>2. [st |-> st, attempts |-> 0] \in FileRecord
    BY NightAssumption DEF FileRecord
  <1> DEFINE f == [st |-> st, attempts |-> 0]
  <1> HIDE DEF f
  <1>3. file' = [file EXCEPT ![i] = [file[i] EXCEPT ![x] = f]]
    BY DEF Write, f
  <1>4. f \in FileRecord
    BY <1>2 DEF f
  <1>5. i \in Ids => [file[i] EXCEPT ![x] = f] \in [Titles -> FileRecord]
    BY <1>1, <1>4
  <1> QED BY <1>1, <1>3, <1>5

\* A patch keeps the files files,
LEMMA PatchTyped ==
    ASSUME Typed, NEW i \in Ids, NEW st \in {"running", "errored"}, NEW n \in 0..AttemptCap, Patch(i, st, n)
    PROVE  file' \in [Ids -> [Titles -> FileRecord]]
  <1>1. file \in [Ids -> [Titles -> FileRecord]]
    BY DEF Typed
  <1> DEFINE f == [st |-> st, attempts |-> n]
  <1>2. f \in FileRecord
    BY DEF FileRecord
  <1> HIDE DEF f
  <1>3. file' = file \/ file' = [file EXCEPT ![i] = [file[i] EXCEPT ![First(i)] = f]]
    BY DEF Patch, f
  <1>4. [file[i] EXCEPT ![First(i)] = f] \in [Titles -> FileRecord]
    BY <1>1, <1>2
  <1> QED BY <1>1, <1>3, <1>4

\* and so does a stamp.
LEMMA StampTyped ==
    ASSUME Typed, NEW i \in Ids, NEW ok \in BOOLEAN, StampErrored(i, ok)
    PROVE  file' \in [Ids -> [Titles -> FileRecord]]
  <1>1. file \in [Ids -> [Titles -> FileRecord]]
    BY DEF Typed
  <1>2. CASE ok
    BY <1>2, ViewIs, PatchTyped DEF StampErrored
  <1>3. CASE ~ok
    BY <1>1, <1>3 DEF StampErrored
  <1> QED BY <1>2, <1>3

\* The count of lost round trips stays in its bound.
LEMMA RpcTyped ==
    ASSUME Typed, NEW ok \in BOOLEAN, Rpc(ok)
    PROVE  lost' \in 0..MaxFaults
  BY NightAssumption DEF Typed, Rpc, FaultLeft

\* What a sweep holds once it moved on.
LEMMA SweepOnTyped ==
    ASSUME Typed, NEW s \in SweepRecord, SweepOn(s)
    PROVE  /\ sweep' \in SweepRecord
           /\ sweep'.pc # "idle" => sweep'.id \in s.todo
           /\ sweep'.todo \subseteq s.todo
           /\ sweep'.pc = "idle" => sweep'.todo = {} /\ sweep'.id = 0
  <1> DEFINE free == {i \in s.todo : ladder[i].pc = "none"}
             m == Min(free)
  <1>1. CASE free = {}
    <2>1. sweep' = NoSweep
      BY <1>1 DEF SweepOn
    <2>2. NoSweep \in SweepRecord /\ NoSweep.pc = "idle" /\ NoSweep.todo = {} /\ NoSweep.id = 0
      BY NightAssumption DEF NoSweep, SweepRecord
    <2> QED BY <2>1, <2>2
  <1>2. CASE free # {}
    <2>1. sweep' = [s EXCEPT !.pc = "read", !.id = m, !.todo = {i \in s.todo : i > m}]
      BY <1>2 DEF SweepOn
    <2>2. m \in s.todo /\ s.todo \subseteq Ids
      <3>1. free \in SUBSET Nat
        BY IdsFinite DEF SweepRecord
      <3>2. m \in free
        <4> HIDE DEF free
        <4> QED BY <1>2, <3>1, MinOf
      <3> QED BY <3>2 DEF SweepRecord
    <2> HIDE DEF m
    <2>3. sweep' \in SweepRecord /\ sweep'.pc = "read" /\ sweep'.id = m /\ sweep'.todo = {i \in s.todo : i > m}
      BY <2>1, <2>2 DEF SweepRecord
    <2> QED BY <2>2, <2>3
  <1> QED BY <1>1, <1>2

-----------------------------------------------------------------------------
(* The conversations, step by step.                                         *)

\* None comes or goes, and none changes its task.
Alike(w, c) == /\ w.id = c.id /\ w.retry = c.retry /\ (w.st = "none" <=> c.st = "none")
               /\ c.st = "none" => w = c
ConvKept == /\ conv' \in [Convs -> ConvRecord]
            /\ \A k \in Convs : Alike(conv'[k], conv[k])
\* Or a fresh one joins.
ConvAdds(i, again) ==
    /\ conv' \in [Convs -> ConvRecord]
    /\ \E n \in Convs : /\ conv[n].st = "none" /\ n = Min(Unused)
                        /\ conv'[n].id = i /\ conv'[n].st = "booting" /\ conv'[n].retry = again
                        /\ \A k \in Convs : k # n => conv'[k] = conv[k]

\* One worker's own step.
LEMMA OneChanges ==
    ASSUME Typed, NEW k \in Convs, NEW w \in ConvRecord, conv' = [conv EXCEPT ![k] = w],
           Alike(w, conv[k])
    PROVE  ConvKept
  <1>1. conv \in [Convs -> ConvRecord]
    BY DEF Typed
  <1>2. conv' \in [Convs -> ConvRecord] /\ conv'[k] = w /\ \A m \in Convs : m # k => conv'[m] = conv[m]
    BY <1>1
  <1> QED BY <1>2 DEF ConvKept, Alike

\* No step of a conversation, no change.
LEMMA ConvSame ==
    ASSUME Typed, conv' = conv
    PROVE  ConvKept
  BY DEF Typed, ConvKept, Alike

\* The steps of a worker and of its watchdog make no conversation.
LEMMA WorkerSteps ==
    ASSUME Typed, NEW k \in Convs, Worker(k) \/ Watchdog(k)
    PROVE  ConvKept
  <1> DEFINE c == conv[k]
  <1>1. c \in ConvRecord /\ conv \in [Convs -> ConvRecord]
    BY DEF Typed
  <1>2. CASE Boot(k)
    <2>1. PICK st \in Open, again \in {FALSE, c.acted} :
             conv' = [conv EXCEPT ![k].st = st, ![k].crash = FALSE, ![k].poked = FALSE,
                                  ![k].acted = again]
      BY <1>2 DEF Boot
    <2> DEFINE w == [c EXCEPT !.st = st, !.crash = FALSE, !.poked = FALSE, !.acted = again]
    <2>2. st \in Open /\ again \in BOOLEAN /\ c.st # "none"
      BY <1>1, <1>2 DEF Boot, ConvRecord
    <2>3. w \in ConvRecord /\ w.id = c.id /\ w.retry = c.retry /\ w.st = st
      BY <1>1, <2>2 DEF ConvRecord
    <2>4. conv' = [conv EXCEPT ![k] = w]
      BY <1>1, <2>1 DEF ConvRecord
    <2>5. st # "none"
      BY <2>2 DEF Open
    <2> HIDE DEF w
    <2> QED BY <2>2, <2>3, <2>4, <2>5, OneChanges DEF Alike
  <1>3. CASE Report(k)
    BY <1>3, ConvSame DEF Report, workers
  <1>4. ASSUME NEW crash \in BOOLEAN, NEW st \in {"closing", "ended"}, End(k, st, crash),
               c.st \in Open
        PROVE  ConvKept
    <2> DEFINE w == [c EXCEPT !.st = st, !.crash = crash, !.killing = FALSE,
                              !.acted = c.acted /\ ~crash]
    <2>1. w \in ConvRecord /\ w.id = c.id /\ w.retry = c.retry /\ w.st = st /\ c.st # "none"
      BY <1>1, <1>4 DEF ConvRecord, Open
    <2>2. conv' = [conv EXCEPT ![k] = w]
      BY <1>1, <1>4 DEF End, ConvRecord
    <2> HIDE DEF w
    <2> QED BY <1>4, <2>1, <2>2, OneChanges DEF Alike
  <1>5. CASE WorkerEnds(k)
    BY <1>4, <1>5 DEF WorkerEnds
  <1>6. CASE WatchdogKills(k)
    <2>1. CASE End(k, "ended", FALSE)
      BY <1>4, <1>6, <2>1 DEF WatchdogKills, Open
    <2>2. CASE conv' = [conv EXCEPT ![k].killing = FALSE]
      <3> DEFINE w == [c EXCEPT !.killing = FALSE]
      <3>1. w \in ConvRecord /\ w.id = c.id /\ w.retry = c.retry /\ w.st = c.st /\ c.st # "none"
        BY <1>1, <1>6 DEF WatchdogKills, ConvRecord
      <3>2. conv' = [conv EXCEPT ![k] = w]
        BY <1>1, <2>2 DEF ConvRecord
      <3> HIDE DEF w
      <3> QED BY <3>1, <3>2, OneChanges DEF Alike
    <2> QED BY <1>6, <2>1, <2>2 DEF WatchdogKills
  <1>7. CASE SocketCloses(k)
    <2> DEFINE w == [c EXCEPT !.st = "ended"]
    <2>1. w \in ConvRecord /\ w.id = c.id /\ w.retry = c.retry /\ w.st = "ended" /\ c.st # "none"
      BY <1>1, <1>7 DEF SocketCloses, ConvRecord
    <2>2. conv' = [conv EXCEPT ![k] = w]
      BY <1>1, <1>7 DEF SocketCloses, ConvRecord
    <2> HIDE DEF w
    <2> QED BY <2>1, <2>2, OneChanges DEF Alike
  <1>8. CASE WatchdogStamps(k)
    <2> DEFINE w == [c EXCEPT !.acted = TRUE, !.killing = TRUE]
    <2>1. w \in ConvRecord /\ w.id = c.id /\ w.retry = c.retry /\ w.st = c.st /\ c.st # "none"
      BY <1>1, <1>8 DEF WatchdogStamps, ConvRecord
    <2>2. conv' = [conv EXCEPT ![k] = w]
      BY <1>1, <1>8 DEF WatchdogStamps, ConvRecord
    <2> HIDE DEF w
    <2> QED BY <2>1, <2>2, OneChanges DEF Alike
  <1> QED BY <1>2, <1>3, <1>5, <1>6, <1>7, <1>8 DEF Worker, Watchdog

\* A spawn adds one conversation, or none.
LEMMA SpawnAdds ==
    ASSUME Typed, NEW out \in SpawnOutcome, NEW i \in Ids, NEW c \in Titles, NEW again \in BOOLEAN,
           Spawn(out, i, c, again)
    PROVE  ConvKept \/ ConvAdds(i, again)
  <1>1. CASE out = "refused"
    BY <1>1, ConvSame DEF Spawn
  <1>2. CASE out # "refused"
    BY <1>2, WorkerSpawned DEF ConvAdds
  <1> QED BY <1>1, <1>2

\* A poke makes no conversation.
LEMMA SweepPokes ==
    ASSUME Typed, WorkInv, SweepRead
    PROVE  ConvKept
  <1> DEFINE k == sweep.dead[sweep.id]
             c == conv[k]
             w == [c EXCEPT !.poked = (c.st = "ended")]
  <1>1. conv' = conv \/ conv' = [conv EXCEPT ![k].poked = (conv[k].st = "ended")]
    BY DEF SweepRead
  <1>2. conv \in [Convs -> ConvRecord]
    BY DEF Typed
  <1>3. CASE conv' # conv /\ k \in Convs
    <2>1. conv' = [conv EXCEPT ![k] = w]
      BY <1>1, <1>3
    <2>2. c \in ConvRecord
      BY <1>2, <1>3
    <2>3. w \in ConvRecord /\ w.id = c.id /\ w.retry = c.retry /\ w.st = c.st
      BY <2>2 DEF ConvRecord
    <2>4. ASSUME c.st = "none" PROVE w = c
      <3>1. c = NoConv
        BY <1>3, <2>4 DEF WorkInv, ConvInv
      <3>2. c.poked = FALSE
        BY <3>1 DEF NoConv
      <3>3. (c.st = "ended") = c.poked
        BY <2>4, <3>2
      <3> HIDE DEF c
      <3> QED BY <2>2, <3>3 DEF ConvRecord
    <2> HIDE DEF w, c
    <2>5. Alike(w, c)
      BY <2>3, <2>4 DEF Alike
    <2> QED BY <1>3, <2>1, <2>3, <2>5, OneChanges DEF c
  <1>4. CASE k \notin Convs
    <2>1. conv' = conv
      BY <1>1, <1>2, <1>4
    <2> QED BY <2>1, ConvSame
  <1> QED BY <1>3, <1>4, ConvSame

\* A restart makes no conversation.
LEMMA RestartKeeps ==
    ASSUME Typed, WorkInv, Restart
    PROVE  ConvKept
  <1>1. conv' = [k \in Convs |-> [conv[k] EXCEPT !.acted = FALSE, !.killing = FALSE,
                   !.st = CASE conv[k].st = "booting" -> "stray" [] conv[k].st = "closing" -> "ended"
                            [] OTHER -> conv[k].st]]
    BY DEF Restart
  <1>2. ASSUME NEW k \in Convs PROVE conv'[k] \in ConvRecord /\ Alike(conv'[k], conv[k])
    <2> DEFINE st == CASE conv[k].st = "booting" -> "stray" [] conv[k].st = "closing" -> "ended"
                       [] OTHER -> conv[k].st
               w == [conv[k] EXCEPT !.acted = FALSE, !.killing = FALSE, !.st = st]
    <2>1. conv[k] \in ConvRecord
      BY DEF Typed
    <2>2. /\ st \in Open \cup {"none", "booting", "closing", "ended", "stray"}
          /\ st = "none" <=> conv[k].st = "none"
      BY <2>1 DEF ConvRecord
    <2>3. conv'[k] = w
      BY <1>1
    <2> HIDE DEF st
    <2>4. w \in ConvRecord /\ w.id = conv[k].id /\ w.retry = conv[k].retry /\ w.st = st
      BY <2>1, <2>2 DEF ConvRecord
    <2>5. ASSUME conv[k].st = "none" PROVE w = conv[k]
      <3>1. conv[k] = NoConv /\ st = "none"
        BY <2>2, <2>5 DEF WorkInv, ConvInv
      <3>2. conv[k].acted = FALSE /\ conv[k].killing = FALSE /\ conv[k].st = st
        BY <2>5, <3>1 DEF NoConv
      <3> QED BY <2>1, <3>2 DEF ConvRecord
    <2> QED BY <2>2, <2>3, <2>4, <2>5 DEF Alike
  <1>3. conv' \in [Convs -> ConvRecord]
    BY <1>1, <1>2
  <1> QED BY <1>2, <1>3 DEF ConvKept

\* A conversation is added by a dispatch or by the ladder, and by nothing else.
LEMMA ConvSteps ==
    ASSUME RunInv, Typed, WorkInv, [Next]_vars
    PROVE  \/ ConvKept
           \/ \E t \in Triggers : SpawnWorker(t) /\ ConvAdds(run[t].id, FALSE) /\ run[t].id \in Ids
           \/ \E i \in Ids : LadderRespawn(i) /\ ConvAdds(i, TRUE)
  <1>1. ASSUME NEW t \in Triggers, SpawnWorker(t)
        PROVE  ConvKept \/ (SpawnWorker(t) /\ ConvAdds(run[t].id, FALSE) /\ run[t].id \in Ids)
    <2>1. run[t].id \in Ids /\ \E out \in SpawnOutcome : Spawn(out, run[t].id, run[t].card, FALSE)
      BY <1>1, SpawnMoves
    <2>2. run[t].card \in Titles
      BY DEF RunInv, RunRecord
    <2> QED BY <1>1, <2>1, <2>2, SpawnAdds
  <1>2. ASSUME NEW i \in Ids, LadderRespawn(i) PROVE ConvKept \/ ConvAdds(i, TRUE)
    <2>1. ladder[i].conv \in Convs
      BY <1>2 DEF LadderRespawn, WorkInv, LadderInv
    <2>2. conv[ladder[i].conv].card \in Titles
      BY <2>1 DEF Typed, ConvRecord
    <2>3. \E out \in SpawnOutcome : Spawn(out, i, conv[ladder[i].conv].card, TRUE)
      BY <1>2 DEF LadderRespawn
    <2> QED BY <2>2, <2>3, SpawnAdds
  <1>3. ASSUME NEW k \in Convs, Worker(k) \/ Watchdog(k) PROVE ConvKept
    BY <1>3, WorkerSteps
  <1>4. CASE conv' = conv
    BY <1>4, ConvSame
  <1>5. ASSUME NEW t \in Triggers, Advance(t) \/ UsageEvent(t) \/ SleepOver(t) \/ WindowCloses(t)
        PROVE  conv' = conv \/ SpawnWorker(t)
    BY <1>5 DEF Advance, RunNightshift, ScanBoard, RunStart, Tick, Snapshot, PatchErrored, LadderAwaited,
            Starve, Placeholder, Untag, SpawnFailed, Finalize, UsageEvent, SleepOver, WindowCloses, workers
  <1>6. ASSUME NEW i \in Ids, Settle(i) PROVE conv' = conv \/ LadderRespawn(i)
    BY <1>6 DEF Settle, LadderRead, LadderBump, LadderStamp, workers
  <1>7. CASE Sweep
    BY <1>7, <1>4, SweepPokes DEF Sweep, SweepStart, SweepStamp, SweepLadder, workers
  <1>8. Consider => conv' = conv
    BY DEF Consider, workers
  <1>9. UNCHANGED vars => conv' = conv
    BY DEF vars, workers
  <1> QED BY <1>1, <1>2, <1>3, <1>4, <1>5, <1>6, <1>7, <1>8, <1>9, RestartKeeps DEF Next

-----------------------------------------------------------------------------
(* What is held across an await has a conversation.                         *)

\* A task keeps the conversations it has.
LEMMA CarriersStay ==
    ASSUME RunInv, Typed, WorkInv, [Next]_vars
    PROVE  /\ ConvInv'
           /\ \A i \in Ids : HasConv(i) => Carried(conv', i)
           /\ conv' \in [Convs -> ConvRecord]
  <1>1. \A k \in Convs : conv[k].st = "none" => conv[k] = NoConv /\ conv[k].id = 0
    <2>1. NoConv.id = 0
      BY DEF NoConv
    <2> QED BY <2>1 DEF WorkInv, ConvInv
  <1>2. CASE ConvKept
    <2>1. \A k \in Convs : Alike(conv'[k], conv[k])
      BY <1>2 DEF ConvKept
    <2>2. ConvInv'
      BY <1>1, <2>1 DEF ConvInv, Alike
    <2>3. \A i \in Ids : HasConv(i) => Carried(conv', i)
      BY <2>1 DEF HasConv, Carried, Alike
    <2> QED BY <1>2, <2>2, <2>3 DEF ConvKept
  <1>3. ASSUME NEW j \in Ids, NEW again, ConvAdds(j, again)
        PROVE  ConvInv' /\ (\A i \in Ids : HasConv(i) => Carried(conv', i)) /\ conv' \in [Convs -> ConvRecord]
    <2>1. PICK n \in Convs : /\ conv[n].st = "none" /\ conv'[n].st = "booting"
                             /\ \A k \in Convs : k # n => conv'[k] = conv[k]
      BY <1>3 DEF ConvAdds
    <2>2. ConvInv'
      BY <1>1, <2>1 DEF ConvInv
    <2>3. \A i \in Ids : HasConv(i) => Carried(conv', i)
      BY <1>1, <2>1, IdsFinite DEF HasConv, Carried
    <2> QED BY <1>3, <2>2, <2>3 DEF ConvAdds
  <1> QED BY <1>2, <1>3, ConvSteps

\* What a run has in flight or reaps has a conversation.
LEMMA CarryStays ==
    ASSUME RunInv, Typed, WorkInv, [Next]_vars
    PROVE  CarryInv'
  <1>1. \A i \in Ids : HasConv(i) => Carried(conv', i)
    BY CarriersStay
  <1>2. \A t \in Triggers : Reaping(run[t]) => run[t].id \in Ids
    BY DEF RunInv, Shape
  <1>3. CASE UNCHANGED <<run, reserved>>
    <2>1. \A t \in Triggers : run'[t] = run[t]
      BY <1>3
    <2> QED BY <1>1, <1>2, <2>1 DEF WorkInv, CarryInv, HasConv, Reaping
  <1>4. CASE Restart
    <2>1. \A t \in Triggers : run'[t] = NoRun
      BY <1>4, RestartEmpties
    <2>2. \A i \in Ids : NoRun.inflight[i] = 0
      BY DEF NoRun
    <2>3. ~Reaping(NoRun)
      BY NoRunIs DEF Reaping
    <2>4. ASSUME NEW t \in Triggers
          PROVE  /\ \A i \in Ids : run'[t].inflight[i] = 0
                 /\ ~Reaping(run'[t])
      BY <2>1, <2>2, <2>3
    <2> QED BY <2>4 DEF CarryInv, Reaping
  <1>5. ASSUME NEW t \in Triggers, NEW s \in RunRecord, Moves(t, s) PROVE CarryInv'
    <2>1. run'[t] = s /\ \A u \in Triggers \ {t} : run'[u] = run[u]
      BY <1>5, LedgerTyped, RunPut DEF Moves
    <2>2. /\ \A i \in Ids : run[t].inflight[i] # 0 => HasConv(i)
          /\ Reaping(run[t]) => HasConv(run[t].id)
      BY DEF WorkInv, CarryInv
    <2>3. run[t].inflight \in [Ids -> 0..MaxConv]
      BY DEF RunInv, RunRecord
    <2> DEFINE Good == /\ \A i \in Ids : s.inflight[i] # 0 => Carried(conv', i)
                       /\ Reaping(s) => Carried(conv', s.id)
    <2>4. ASSUME Onward(run[t], s) PROVE Good
      <3>1. s.inflight = run[t].inflight /\ s.id = run[t].id /\ (Reaping(s) => Reaping(run[t]))
        BY <2>4 DEF Onward, Same, Kept
      <3> QED BY <1>1, <1>2, <2>2, <3>1
    <2>5. ASSUME Advances(run[t], s) PROVE Good
      <3>1. CASE Filled(run[t], s, reserved, reserved')
        <4>1. s.inflight = run[t].inflight /\ ~Reaping(s)
          BY <3>1 DEF Filled, Reaping
        <4> QED BY <1>1, <2>2, <4>1
      <3>2. CASE Reaped(run[t], s, reserved, reserved')
        <4>1. PICK i \in InflightOf(run[t]) : s.inflight = [run[t].inflight EXCEPT ![i] = 0] /\ s.id = i
          BY <3>2 DEF Reaped
        <4>2. i \in Ids /\ run[t].inflight[i] # 0
          BY DEF InflightOf
        <4>3. \A j \in Ids : s.inflight[j] # 0 => run[t].inflight[j] # 0
          BY <2>3, <4>1
        <4> QED BY <1>1, <2>2, <4>1, <4>2, <4>3
      <3> QED BY <2>5, <3>1, <3>2 DEF Advances
    <2>6. ASSUME Launches(run[t], s) PROVE Good
      <3> DEFINE n == Min(Unused)
      <3>1. n \in Convs /\ conv'[n].id = run[t].id /\ Filled(Launched(run[t], n), s, reserved, reserved')
        BY <2>6 DEF Launches
      <3> HIDE DEF n
      <3>2. s.inflight = [run[t].inflight EXCEPT ![run[t].id] = n] /\ ~Reaping(s)
        BY <3>1 DEF Filled, Launched, Reaping, RunInv, RunRecord
      <3>3. \A j \in Ids : s.inflight[j] # 0 => run[t].inflight[j] # 0 \/ j = run[t].id
        BY <2>3, <3>2
      <3>4. run[t].id \in Ids => Carried(conv', run[t].id)
        BY <3>1 DEF Carried
      <3> QED BY <1>1, <2>2, <3>2, <3>3, <3>4
    <2>7. ASSUME Fails(run[t], s) PROVE Good
      <3>1. s.inflight = run[t].inflight /\ ~Reaping(s)
        BY <2>7 DEF Fails, Kept, Reaping
      <3> QED BY <1>1, <2>2, <3>1
    <2>8. ASSUME Empties(run[t], s) PROVE Good
      <3>1. InflightOf(s) = {} /\ ~Reaping(s)
        BY <2>8 DEF Empties, Reaping
      <3> QED BY <3>1 DEF InflightOf
    <2>9. Good
      BY <1>5, <2>4, <2>5, <2>6, <2>7, <2>8 DEF Moves
    <2>10. ASSUME NEW u \in Triggers, u # t
           PROVE  /\ \A i \in Ids : run'[u].inflight[i] # 0 => Carried(conv', i)
                  /\ Reaping(run'[u]) => Carried(conv', run'[u].id)
      <3>1. run'[u] = run[u]
        BY <2>1, <2>10
      <3>2. /\ \A i \in Ids : run[u].inflight[i] # 0 => HasConv(i)
            /\ Reaping(run[u]) => HasConv(run[u].id)
        BY DEF WorkInv, CarryInv
      <3> QED BY <1>1, <1>2, <3>1, <3>2
    <2> QED BY <2>1, <2>9, <2>10 DEF CarryInv, HasConv
  <1>6. UNCHANGED vars => UNCHANGED <<run, reserved>>
    BY DEF vars
  <1> QED BY <1>3, <1>4, <1>5, <1>6, RunSteps

\* A ladder is climbed by the task it was set for; it is set for a task that a
\* conversation carries.
LadderKept(i) == ladder[i].pc # "none" /\ ladder'[i].conv = ladder[i].conv
LadderNext ==
    /\ ladder' \in [Ids -> LadderRecord]
    /\ \A i \in Ids : ladder'[i].pc = "bump" => ladder'[i].attempts < AttemptCap
    /\ \A i \in Ids : ladder'[i].pc # "none" => LadderKept(i) \/ (HasConv(i) /\ ladder'[i].conv \in Convs)

\* No ladder is a ladder that is not being climbed.
LEMMA NoLadderIs == NoLadder \in LadderRecord /\ NoLadder.pc = "none"
  BY NightAssumption DEF NoLadder, LadderRecord

\* One ladder changes.
LEMMA OneClimbs ==
    ASSUME Typed, NEW i \in Ids, NEW l \in LadderRecord, ladder' = [ladder EXCEPT ![i] = l],
           l.pc = "bump" => l.attempts < AttemptCap,
           l.pc # "none" => \/ ladder[i].pc # "none" /\ l.conv = ladder[i].conv
                            \/ HasConv(i) /\ l.conv \in Convs
    PROVE  LadderNext
  <1>1. ladder \in [Ids -> LadderRecord] /\ \A j \in Ids : ladder[j].pc = "bump" => ladder[j].attempts < AttemptCap
    BY DEF Typed
  <1>2. /\ ladder' \in [Ids -> LadderRecord] /\ ladder'[i] = l
        /\ \A j \in Ids : j # i => ladder'[j] = ladder[j]
    BY <1>1
  <1> QED BY <1>1, <1>2 DEF LadderNext, LadderKept

\* No ladder changes.
LEMMA LadderUntouched ==
    ASSUME Typed, ladder' = ladder
    PROVE  LadderNext
  BY DEF Typed, LadderNext, LadderKept

\* A ladder set by the tick or by the sweep.
LEMMA LadderSet ==
    ASSUME Typed, NEW i \in Ids, HasConv(i), NEW k \in 0..MaxConv, IsCrashEnd(k),
           ladder' = [ladder EXCEPT ![i] = [NoLadder EXCEPT !.pc = "read", !.conv = k]]
    PROVE  LadderNext
  <1> DEFINE l == [NoLadder EXCEPT !.pc = "read", !.conv = k]
  <1>1. k \in Convs
    BY NightAssumption DEF IsCrashEnd, Convs
  <1>2. l \in LadderRecord /\ l.pc = "read" /\ l.conv = k
    <2>1. "read" \in {"none", "read", "bump", "respawn", "stamp"}
      OBVIOUS
    <2> QED BY <2>1, NoLadderIs DEF LadderRecord
  <1> HIDE DEF l
  <1> QED BY <1>1, <1>2, OneClimbs DEF l

\* The steps of a ladder.
LEMMA SettleSteps ==
    ASSUME Typed, NEW i \in Ids, Settle(i)
    PROVE  LadderNext
  <1> DEFINE o == ladder[i]
  <1>1. o \in LadderRecord /\ (o.pc = "bump" => o.attempts < AttemptCap)
    BY DEF Typed
  <1>2. CASE ladder' = [ladder EXCEPT ![i] = NoLadder]
    BY <1>2, NoLadderIs, OneClimbs
  <1>3. ASSUME NEW pc \in {"respawn", "stamp"}, ladder' = [ladder EXCEPT ![i].pc = pc], o.pc # "none"
        PROVE  LadderNext
    <2> DEFINE l == [o EXCEPT !.pc = pc]
    <2>1. l \in LadderRecord /\ l.pc = pc /\ l.conv = o.conv
      BY <1>1 DEF LadderRecord
    <2>2. ladder' = [ladder EXCEPT ![i] = l]
      BY <1>3
    <2> HIDE DEF l
    <2> QED BY <1>3, <2>1, <2>2, OneClimbs
  <1>4. CASE LadderRead(i)
    <2>1. \/ ladder' = [ladder EXCEPT ![i] = NoLadder]
          \/ \E retryable \in BOOLEAN :
               ladder' = [ladder EXCEPT ![i].attempts = View(i).attempts,
                   ![i].pc = IF retryable /\ View(i).attempts < AttemptCap THEN "bump" ELSE "stamp"]
      BY <1>4 DEF LadderRead
    <2>2. ASSUME NEW retryable \in BOOLEAN,
                 ladder' = [ladder EXCEPT ![i].attempts = View(i).attempts,
                   ![i].pc = IF retryable /\ View(i).attempts < AttemptCap THEN "bump" ELSE "stamp"]
          PROVE  LadderNext
      <3> DEFINE pc == IF retryable /\ View(i).attempts < AttemptCap THEN "bump" ELSE "stamp"
                 n  == View(i).attempts
                 l  == [o EXCEPT !.attempts = n, !.pc = pc]
      <3>1. ladder' = [ladder EXCEPT ![i] = l]
        <4>1. ladder \in [Ids -> LadderRecord]
          BY DEF Typed
        <4> HIDE DEF pc, n
        <4> QED BY <2>2, <4>1 DEF pc, n
      <3>2. pc \in {"bump", "stamp"} /\ (pc = "bump" => n < AttemptCap) /\ n \in 0..AttemptCap
        BY ViewIs
      <3> HIDE DEF pc, n
      <3>3. l \in LadderRecord /\ l.pc = pc /\ l.conv = o.conv /\ l.attempts = n
        BY <1>1, <3>2 DEF LadderRecord
      <3>4. o.pc # "none"
        BY <1>4 DEF LadderRead
      <3> HIDE DEF l
      <3> QED BY <3>1, <3>2, <3>3, <3>4, OneClimbs
    <2> QED BY <1>2, <2>1, <2>2
  <1>5. CASE LadderBump(i)
    BY <1>3, <1>5 DEF LadderBump, Climb
  <1>6. CASE LadderRespawn(i)
    <2>1. o.pc = "respawn" /\ (ladder' = [ladder EXCEPT ![i] = NoLadder] \/ ladder' = [ladder EXCEPT ![i] = [o EXCEPT !.pc = "stamp"]])
      BY <1>6 DEF LadderRespawn
    <2>2. CASE ladder' = [ladder EXCEPT ![i] = [o EXCEPT !.pc = "stamp"]]
      BY <1>3, <2>1, <2>2
    <2> QED BY <1>2, <2>1, <2>2
  <1>7. CASE LadderStamp(i)
    BY <1>2, <1>7 DEF LadderStamp
  <1> QED BY <1>4, <1>5, <1>6, <1>7 DEF Settle

\* Every step of the system, as the ladders see it.
LEMMA LadderSteps ==
    ASSUME RunInv, Typed, WorkInv, [Next]_vars
    PROVE  LadderNext
  <1>1. ASSUME NEW t \in Triggers, Snapshot(t) PROVE LadderNext
    <2>1. run[t].id \in Ids /\ HasConv(run[t].id)
      BY <1>1 DEF Snapshot, RunInv, Shape, Reaping, WorkInv, CarryInv
    <2>2. run[t].conv \in 0..MaxConv
      BY DEF RunInv, RunRecord
    <2>3. \/ ladder' = ladder
          \/ /\ IsCrashEnd(run[t].conv)
             /\ ladder' = [ladder EXCEPT ![run[t].id] = [NoLadder EXCEPT !.pc = "read", !.conv = run[t].conv]]
      BY <1>1 DEF Snapshot
    <2> QED BY <2>1, <2>2, <2>3, LadderSet, LadderUntouched
  <1>2. CASE SweepRead
    <2>1. sweep.id \in Ids /\ HasConv(sweep.id)
      BY <1>2, IdsFinite DEF SweepRead, WorkInv, SweepInv
    <2>2. sweep.dead[sweep.id] \in 0..MaxConv
      BY <2>1 DEF Typed, SweepRecord
    <2>3. \/ ladder' = ladder
          \/ /\ IsCrashEnd(sweep.dead[sweep.id])
             /\ ladder' = [ladder EXCEPT ![sweep.id] = [NoLadder EXCEPT !.pc = "read", !.conv = sweep.dead[sweep.id]]]
      BY <1>2 DEF SweepRead
    <2> QED BY <2>1, <2>2, <2>3, LadderSet, LadderUntouched
  <1>3. CASE Restart
    <2>1. ladder' = [i \in Ids |-> NoLadder]
      BY <1>3 DEF Restart
    <2>2. ladder' \in [Ids -> LadderRecord] /\ \A i \in Ids : ladder'[i].pc = "none"
      BY <2>1, NoLadderIs
    <2> QED BY <2>2 DEF LadderNext
  <1>4. CASE ladder' = ladder
    BY <1>4, LadderUntouched
  <1>5. ASSUME NEW t \in Triggers, Advance(t) \/ UsageEvent(t) \/ SleepOver(t) \/ WindowCloses(t)
        PROVE  ladder' = ladder \/ Snapshot(t)
    BY <1>5 DEF Advance, RunNightshift, ScanBoard, RunStart, Tick, PatchErrored, LadderAwaited,
            Starve, Placeholder, Untag, SpawnWorker, SpawnFailed, Finalize, UsageEvent, SleepOver, WindowCloses,
            guardian
  <1>6. ASSUME NEW i \in Ids, Settle(i) PROVE LadderNext
    BY <1>6, SettleSteps
  <1>7. CASE Sweep
    BY <1>2, <1>4, <1>7 DEF Sweep, SweepStart, SweepStamp, SweepLadder
  <1>8. ASSUME NEW k \in Convs, Worker(k) \/ Watchdog(k) PROVE ladder' = ladder
    BY <1>8 DEF Worker, Watchdog, Boot, Report, WorkerEnds, SocketCloses, WatchdogStamps, WatchdogKills,
                BrokerUnchanged, guardian
  <1>9. Consider => ladder' = ladder
    BY DEF Consider, guardian
  <1>10. UNCHANGED vars => ladder' = ladder
    BY DEF vars, guardian
  <1> QED BY <1>1, <1>3, <1>4, <1>5, <1>6, <1>7, <1>8, <1>9, <1>10 DEF Next

\* The sweep works on tasks that had a conversation when it began.
SweepNext == /\ sweep' \in SweepRecord
             /\ sweep'.pc # "idle" => sweep'.id \in Ids
             /\ \A i \in sweep'.todo \cup {sweep'.id} : i # 0 => HasConv(i)

\* A sweep goes on to a task it had found.
LEMMA SweepMovesOn ==
    ASSUME Typed, NEW s \in SweepRecord, SweepOn(s), \A i \in s.todo : HasConv(i)
    PROVE  SweepNext
  <1>1. s.todo \subseteq Ids
    BY DEF SweepRecord
  <1> QED BY <1>1, SweepOnTyped DEF SweepNext, SweepRecord

\* Every step of the system, as the sweep sees it.
LEMMA SweepSteps ==
    ASSUME RunInv, Typed, WorkInv, [Next]_vars
    PROVE  SweepNext
  <1>1. /\ sweep \in SweepRecord /\ (sweep.pc # "idle" => sweep.id \in Ids)
        /\ \A i \in sweep.todo \cup {sweep.id} : i # 0 => HasConv(i)
    BY DEF Typed, WorkInv, SweepInv
  <1>2. \A i \in sweep.todo : HasConv(i)
    <2>1. sweep.todo \subseteq Ids
      BY <1>1 DEF SweepRecord
    <2> QED BY <1>1, <2>1, IdsFinite
  <1>3. CASE sweep' = sweep
    BY <1>1, <1>3 DEF SweepNext
  <1>4. CASE SweepOn(sweep)
    BY <1>1, <1>2, <1>4, SweepMovesOn
  <1>5. ASSUME NEW pc \in {"ladder", "stamp"}, sweep' = [sweep EXCEPT !.pc = pc], sweep.pc # "idle"
        PROVE  SweepNext
    <2>1. sweep' \in SweepRecord /\ sweep'.id = sweep.id /\ sweep'.todo = sweep.todo
      BY <1>1, <1>5 DEF SweepRecord
    <2> QED BY <1>1, <1>5, <2>1 DEF SweepNext
  <1>6. CASE SweepStart
    <2> DEFINE s == [NoSweep EXCEPT !.todo = Orphans,
                       !.dead = [i \in Ids |-> IF i \in Orphans THEN lastEnd[i] ELSE 0]]
    <2>1. SweepOn(s)
      BY <1>6 DEF SweepStart
    <2>2. s \in SweepRecord /\ s.todo = Orphans
      <3>1. Orphans \in SUBSET Ids
        BY DEF Orphans
      <3>2. [i \in Ids |-> IF i \in Orphans THEN lastEnd[i] ELSE 0] \in [Ids -> 0..MaxConv]
        BY NightAssumption DEF Typed
      <3>3. NoSweep \in SweepRecord
        BY NightAssumption DEF NoSweep, SweepRecord
      <3> DEFINE d == [i \in Ids |-> IF i \in Orphans THEN lastEnd[i] ELSE 0]
      <3> HIDE DEF d
      <3>4. d \in [Ids -> 0..MaxConv]
        BY <3>2 DEF d
      <3>5. [NoSweep EXCEPT !.todo = Orphans, !.dead = d] \in SweepRecord
            /\ [NoSweep EXCEPT !.todo = Orphans, !.dead = d].todo = Orphans
        BY <3>1, <3>3, <3>4 DEF SweepRecord
      <3> QED BY <3>5 DEF d
    <2> HIDE DEF s
    <2>3. \A i \in Orphans : HasConv(i)
      BY DEF Orphans, Backing, HasConv, Carried
    <2> QED BY <2>1, <2>2, <2>3, SweepMovesOn
  <1>7. CASE SweepRead
    <2>1. SweepOn(sweep) \/ sweep' = [sweep EXCEPT !.pc = "ladder"] \/ sweep' = [sweep EXCEPT !.pc = "stamp"]
      BY <1>7 DEF SweepRead
    <2>2. sweep.pc # "idle"
      BY <1>7 DEF SweepRead
    <2> QED BY <1>4, <1>5, <2>1, <2>2
  <1>8. CASE SweepStamp \/ SweepLadder
    BY <1>4, <1>8 DEF SweepStamp, SweepLadder
  <1>9. CASE Restart
    <2>1. sweep' = NoSweep
      BY <1>9 DEF Restart
    <2>2. NoSweep \in SweepRecord /\ NoSweep.pc = "idle" /\ NoSweep.todo = {} /\ NoSweep.id = 0
      BY NightAssumption DEF NoSweep, SweepRecord
    <2> QED BY <2>1, <2>2 DEF SweepNext
  <1>10. ASSUME NEW t \in Triggers, Advance(t) \/ UsageEvent(t) \/ SleepOver(t) \/ WindowCloses(t)
         PROVE  sweep' = sweep
    BY <1>10 DEF Advance, RunNightshift, ScanBoard, RunStart, Tick, Snapshot, PatchErrored, LadderAwaited,
            Starve, Placeholder, Untag, SpawnWorker, SpawnFailed, Finalize, UsageEvent, SleepOver, WindowCloses,
            guardian
  <1>11. ASSUME NEW i \in Ids, Settle(i) PROVE sweep' = sweep
    BY <1>11 DEF Settle, LadderRead, LadderBump, LadderRespawn, LadderStamp
  <1>12. ASSUME NEW k \in Convs, Worker(k) \/ Watchdog(k) PROVE sweep' = sweep
    BY <1>12 DEF Worker, Watchdog, Boot, Report, WorkerEnds, SocketCloses, WatchdogStamps, WatchdogKills,
                 BrokerUnchanged, guardian
  <1>13. Consider \/ UNCHANGED vars => sweep' = sweep
    BY DEF Consider, vars, guardian
  <1> QED BY <1>3, <1>6, <1>7, <1>8, <1>9, <1>10, <1>11, <1>12, <1>13 DEF Next, Sweep

\* What is held across an await keeps its conversation.
LEMMA WorkStays ==
    ASSUME RunInv, Typed, WorkInv, [Next]_vars
    PROVE  WorkInv'
  <1>1. ConvInv' /\ CarryInv' /\ \A i \in Ids : HasConv(i) => Carried(conv', i)
    BY CarriersStay, CarryStays
  <1>2. LadderInv'
    <2>1. \A i \in Ids : ladder'[i].pc # "none" => HasConv(i) /\ ladder'[i].conv \in Convs
      BY LadderSteps DEF LadderNext, LadderKept, WorkInv, LadderInv
    <2> QED BY <1>1, <2>1 DEF LadderInv, HasConv
  <1>3. SweepInv'
    <2>1. sweep'.todo \cup {sweep'.id} \subseteq Ids \cup {0}
      BY SweepSteps DEF SweepNext, SweepRecord
    <2> QED BY <1>1, <2>1, SweepSteps DEF SweepNext, SweepInv, HasConv
  <1> QED BY <1>1, <1>2, <1>3 DEF WorkInv

-----------------------------------------------------------------------------
(* Types.                                                                   *)

\* The types are kept.
LEMMA TypesStay ==
    ASSUME RunInv, Typed, WorkInv, [Next]_vars
    PROVE  Typed'
  <1>1. tagged' \subseteq Cards
    <2>1. tagged' = tagged \/ \E t \in Triggers : Untag(t)
      BY ZenonT(60) DEF Next, Consider, Advance, RunNightshift, ScanBoard, RunStart, Tick, Snapshot,
                    PatchErrored, LadderAwaited, Starve, Placeholder, SpawnWorker, SpawnFailed,
                    Finalize, UsageEvent, SleepOver, WindowCloses, Settle, LadderRead, LadderBump,
                    LadderRespawn, LadderStamp, Sweep, SweepStart, SweepRead, SweepStamp, SweepLadder,
                    Worker, Watchdog, Boot, Report, WorkerEnds, SocketCloses, WatchdogStamps,
                    WatchdogKills, BrokerUnchanged, vars, control, artifacts, workers, guardian, Restart
    <2>2. \A t \in Triggers : Untag(t) => tagged' \subseteq tagged
      BY DEF Untag
    <2> QED BY <2>1, <2>2 DEF Typed
  <1>2. ranToday' \in BOOLEAN
    <2>1. ranToday' = ranToday \/ (\E t \in Triggers : RunNightshift(t)) \/ ranToday' = FALSE
      BY DEF Next, Consider, Advance, ScanBoard, RunStart, Tick, Snapshot, PatchErrored,
                    LadderAwaited, Starve, Placeholder, Untag, SpawnWorker, SpawnFailed, Finalize,
                    UsageEvent, SleepOver, WindowCloses, Settle, LadderRead, LadderBump, LadderRespawn,
                    LadderStamp, Sweep, SweepStart, SweepRead, SweepStamp, SweepLadder, Worker,
                    Watchdog, Boot, Report, WorkerEnds, SocketCloses, WatchdogStamps, WatchdogKills,
                    BrokerUnchanged, vars, control, artifacts, workers, guardian, Restart
    <2>2. \A t \in Triggers : RunNightshift(t) => ranToday' \in BOOLEAN
      BY DEF RunNightshift
    <2> QED BY <2>1, <2>2 DEF Typed
  <1>3. active' \in Triggers \cup {None}
    <2>1. active' = active \/ active' = None \/ \E t \in Triggers : active' = t
      BY ZenonT(60) DEF Next, Consider, Advance, RunNightshift, ScanBoard, RunStart, Tick, Snapshot,
                    PatchErrored, LadderAwaited, Starve, Placeholder, Untag, SpawnWorker, SpawnFailed,
                    Finalize, UsageEvent, SleepOver, WindowCloses, Settle, LadderRead, LadderBump,
                    LadderRespawn, LadderStamp, Sweep, SweepStart, SweepRead, SweepStamp, SweepLadder,
                    Worker, Watchdog, Boot, Report, WorkerEnds, SocketCloses, WatchdogStamps,
                    WatchdogKills, BrokerUnchanged, vars, control, artifacts, workers, guardian, Restart
    <2> QED BY <2>1 DEF Typed
  <1>4. file' \in [Ids -> [Titles -> FileRecord]]
    <2>1. \/ file' = file
          \/ \E t \in Triggers : PatchErrored(t) \/ Placeholder(t) \/ SpawnFailed(t)
          \/ \E i \in Ids : LadderBump(i) \/ LadderStamp(i)
          \/ SweepStamp
          \/ \E k \in Convs : Report(k) \/ WatchdogStamps(k)
      BY DEF Next, Consider, Advance, RunNightshift, ScanBoard, RunStart, Tick, Snapshot,
                    LadderAwaited, Starve, Untag, SpawnWorker, Finalize, UsageEvent, SleepOver,
                    WindowCloses, Settle, LadderRead, LadderRespawn, Sweep, SweepStart, SweepRead,
                    SweepLadder, Worker, Watchdog, Boot, WorkerEnds, SocketCloses, WatchdogKills,
                    BrokerUnchanged, vars, control, artifacts, workers, guardian, Restart
    <2>2. ASSUME NEW t \in Triggers, PatchErrored(t) \/ SpawnFailed(t)
          PROVE  file' \in [Ids -> [Titles -> FileRecord]]
      <3>1. run[t].id \in Ids
        BY <2>2 DEF RunInv, Shape, Reaping, PatchErrored, SpawnFailed
      <3> QED BY <2>2, <3>1, StampTyped DEF PatchErrored, SpawnFailed
    <2>3. ASSUME NEW t \in Triggers, Placeholder(t) PROVE file' \in [Ids -> [Titles -> FileRecord]]
      BY <2>3, WriteTyped DEF Placeholder, Typed
    <2>4. ASSUME NEW i \in Ids, LadderBump(i) PROVE file' \in [Ids -> [Titles -> FileRecord]]
      <3>1. ladder[i] \in LadderRecord /\ ladder[i].attempts < AttemptCap
        BY <2>4 DEF LadderBump, Typed
      <3>2. ladder[i].attempts + 1 \in 0..AttemptCap
        BY <3>1, NightAssumption DEF LadderRecord
      <3>3. file' = file \/ Patch(i, "running", ladder[i].attempts + 1)
        BY <2>4 DEF LadderBump
      <3> QED BY <3>2, <3>3, PatchTyped DEF Typed
    <2>5. ASSUME NEW i \in Ids, LadderStamp(i) PROVE file' \in [Ids -> [Titles -> FileRecord]]
      BY <2>5, StampTyped DEF LadderStamp
    <2>6. CASE SweepStamp
      <3>1. sweep.id \in Ids
        BY <2>6 DEF SweepStamp, WorkInv, SweepInv
      <3> QED BY <2>6, <3>1, StampTyped DEF SweepStamp
    <2>7. ASSUME NEW k \in Convs, Report(k) \/ WatchdogStamps(k)
          PROVE  file' \in [Ids -> [Titles -> FileRecord]]
      BY <2>7, WriteTyped DEF Report, WatchdogStamps, Typed
    <2> QED BY <2>1, <2>2, <2>3, <2>4, <2>5, <2>6, <2>7 DEF Typed
  <1>5. skipped' \subseteq Ids
    <2>1. skipped' = skipped \/ \E t \in Triggers : Starve(t)
      BY DEF Next, Consider, Advance, RunNightshift, ScanBoard, RunStart, Tick, Snapshot,
                    PatchErrored, LadderAwaited, Placeholder, Untag, SpawnWorker, SpawnFailed, Finalize,
                    UsageEvent, SleepOver, WindowCloses, Settle, LadderRead, LadderBump, LadderRespawn,
                    LadderStamp, Sweep, SweepStart, SweepRead, SweepStamp, SweepLadder, Worker,
                    Watchdog, Boot, Report, WorkerEnds, SocketCloses, WatchdogStamps, WatchdogKills,
                    BrokerUnchanged, vars, control, artifacts, workers, guardian, Restart
    <2>2. ASSUME NEW t \in Triggers, Starve(t) PROVE skipped' \subseteq Ids
      <3>1. run[t].todo \subseteq Ids /\ run[t].todo # {}
        BY <2>2 DEF Starve, RunInv, RunRecord, Shape
      <3>2. Min(run[t].todo) \in Ids
        BY <3>1, IdsFinite, MinOf
      <3>3. skipped' = skipped \/ skipped' = skipped \cup {Min(run[t].todo)}
        BY <2>2 DEF Starve
      <3> QED BY <3>2, <3>3 DEF Typed
    <2> QED BY <2>1, <2>2 DEF Typed
  <1>6. runmd' \in {None, "running", "done"}
    <2>1. runmd' = runmd \/ runmd' = "running" \/ runmd' = "done"
      BY ZenonT(60) DEF Next, Consider, Advance, RunNightshift, ScanBoard, RunStart, Tick, Snapshot,
                    PatchErrored, LadderAwaited, Starve, Placeholder, Untag, SpawnWorker, SpawnFailed,
                    Finalize, UsageEvent, SleepOver, WindowCloses, Settle, LadderRead, LadderBump,
                    LadderRespawn, LadderStamp, Sweep, SweepStart, SweepRead, SweepStamp, SweepLadder,
                    Worker, Watchdog, Boot, Report, WorkerEnds, SocketCloses, WatchdogStamps,
                    WatchdogKills, BrokerUnchanged, vars, control, artifacts, workers, guardian, Restart
    <2> QED BY <2>1 DEF Typed
  <1>7. conv' \in [Convs -> ConvRecord]
    BY CarriersStay
  <1>8. lastEnd' \in [Ids -> 0..MaxConv]
    <2>1. lastEnd' = lastEnd \/ \E k \in Convs : lastEnd' = [lastEnd EXCEPT ![conv[k].id] = k]
      BY ZenonT(60) DEF Next, Consider, Advance, RunNightshift, ScanBoard, RunStart, Tick, Snapshot,
                    PatchErrored, LadderAwaited, Starve, Placeholder, Untag, SpawnWorker, SpawnFailed,
                    Finalize, UsageEvent, SleepOver, WindowCloses, Settle, LadderRead, LadderBump,
                    LadderRespawn, LadderStamp, Sweep, SweepStart, SweepRead, SweepStamp, SweepLadder,
                    Worker, Watchdog, Boot, Report, WorkerEnds, SocketCloses, WatchdogStamps,
                    WatchdogKills, BrokerUnchanged, vars, control, artifacts, workers, guardian, Restart, End
    <2>2. \A k \in Convs : k \in 0..MaxConv
      BY NightAssumption DEF Convs
    <2>3. lastEnd \in [Ids -> 0..MaxConv]
      BY DEF Typed
    <2>4. ASSUME NEW k \in Convs, NEW i PROVE [lastEnd EXCEPT ![i] = k] \in [Ids -> 0..MaxConv]
      BY <2>2, <2>3
    <2> QED BY <2>1, <2>3, <2>4
  <1>9. ladder' \in [Ids -> LadderRecord] /\ \A i \in Ids : ladder'[i].pc = "bump" => ladder'[i].attempts < AttemptCap
    BY LadderSteps DEF LadderNext
  <1>10. sweep' \in SweepRecord
    BY SweepSteps DEF SweepNext
  <1>11. pokes' \in [Ids -> 0..MaxPokes]
    <2>1. \/ pokes' = pokes
          \/ pokes' = [i \in Ids |-> IF AnyLive(i) THEN 0 ELSE pokes[i]]
          \/ pokes' = [i \in Ids |-> 0]
          \/ \E i \in Ids : pokes' = [pokes EXCEPT ![i] = 0]
          \/ pokes' = [pokes EXCEPT ![sweep.id] = 0]
          \/ PokesLeft(sweep.id) /\ pokes' = [pokes EXCEPT ![sweep.id] = pokes[sweep.id] + 1] /\ SweepRead
      BY ZenonT(60) DEF Next, Consider, Advance, RunNightshift, ScanBoard, RunStart, Tick, Snapshot,
                    PatchErrored, LadderAwaited, Starve, Placeholder, Untag, SpawnWorker, SpawnFailed,
                    Finalize, UsageEvent, SleepOver, WindowCloses, Settle, LadderRead, LadderBump,
                    LadderRespawn, LadderStamp, Sweep, SweepStart, SweepRead, SweepStamp, SweepLadder,
                    Worker, Watchdog, Boot, Report, WorkerEnds, SocketCloses, WatchdogStamps,
                    WatchdogKills, BrokerUnchanged, vars, control, artifacts, workers, guardian, Restart
    <2>2. pokes \in [Ids -> 0..MaxPokes] /\ MaxPokes \in Nat
      BY NightAssumption DEF Typed
    <2>3. ASSUME NEW i PROVE [pokes EXCEPT ![i] = 0] \in [Ids -> 0..MaxPokes]
      <3>1. 0 \in 0..MaxPokes
        BY <2>2
      <3> QED BY <2>2, <3>1
    <2>4. ASSUME PokesLeft(sweep.id), SweepRead
          PROVE  [pokes EXCEPT ![sweep.id] = pokes[sweep.id] + 1] \in [Ids -> 0..MaxPokes]
      <3>1. sweep.id \in Ids
        BY <2>4 DEF SweepRead, WorkInv, SweepInv
      <3> QED BY <2>2, <2>4, <3>1 DEF PokesLeft
    <2>5. [i \in Ids |-> IF AnyLive(i) THEN 0 ELSE pokes[i]] \in [Ids -> 0..MaxPokes]
      BY <2>2
    <2>6. [i \in Ids |-> 0] \in [Ids -> 0..MaxPokes]
      BY <2>2
    <2> QED BY <2>1, <2>2, <2>3, <2>4, <2>5, <2>6
  <1>12. admission' = admission
    BY AdmissionFixed
  <1>13. opens' \in 0..MaxOpens
    <2>1. opens' = opens \/ (opens < MaxOpens /\ opens' = opens + 1)
      BY ZenonT(60) DEF Next, Consider, Advance, RunNightshift, ScanBoard, RunStart, Tick, Snapshot,
                    PatchErrored, LadderAwaited, Starve, Placeholder, Untag, SpawnWorker, SpawnFailed,
                    Finalize, UsageEvent, SleepOver, WindowCloses, Settle, LadderRead, LadderBump,
                    LadderRespawn, LadderStamp, Sweep, SweepStart, SweepRead, SweepStamp, SweepLadder,
                    Worker, Watchdog, Boot, Report, WorkerEnds, SocketCloses, WatchdogStamps,
                    WatchdogKills, BrokerUnchanged, vars, control, artifacts, workers, guardian, Restart
    <2> QED BY <2>1, NightAssumption DEF Typed
  <1>14. lost' \in 0..MaxFaults
    <2>1. lost' = lost \/ \E ok \in BOOLEAN : Rpc(ok)
      BY ZenonT(60) DEF Next, Consider, Advance, RunNightshift, ScanBoard, RunStart, Tick, Snapshot,
                    PatchErrored, LadderAwaited, Starve, Placeholder, Untag, SpawnWorker, SpawnFailed,
                    Finalize, UsageEvent, SleepOver, WindowCloses, Settle, LadderRead, LadderBump,
                    LadderRespawn, LadderStamp, Sweep, SweepStart, SweepRead, SweepStamp, SweepLadder,
                    Worker, Watchdog, Boot, Report, WorkerEnds, SocketCloses, WatchdogStamps,
                    WatchdogKills, BrokerUnchanged, vars, control, artifacts, workers, guardian, Restart
    <2> QED BY <2>1, RpcTyped DEF Typed
  <1>15. restarts' \in 0..MaxFaults
    <2>1. restarts' = restarts \/ (FaultLeft /\ restarts' = restarts + 1)
      BY AdmissionFixed DEF Restart
    <2> QED BY <2>1, NightAssumption DEF Typed, FaultLeft
  <1> QED BY <1>1, <1>2, <1>3, <1>4, <1>5, <1>6, <1>7, <1>8, <1>9, <1>10, <1>11, <1>12, <1>13, <1>14,
             <1>15 DEF Typed

\* What every later argument starts from.
BaseInv == RunInv /\ Typed /\ WorkInv

\* The common part of the invariants: it is kept,
LEMMA BaseStays == ASSUME BaseInv, [Next]_vars PROVE BaseInv'
  BY RunsStay, TypesStay, WorkStays DEF BaseInv

\* it holds at first,
LEMMA BaseInit == ASSUME Init PROVE BaseInv
  <1>1. RunInv
    <2>1. run = [t \in Triggers |-> NoRun] /\ reserved = [i \in Ids |-> 0]
      BY DEF Init
    <2> QED BY <2>1, NoRunIs DEF RunInv
  <1>2. Typed
    <2>1. NoFile \in FileRecord
      BY NightAssumption DEF NoFile, FileRecord
    <2>2. NoConv \in ConvRecord
      BY DEF NoConv, ConvRecord, Titles
    <2>3. NoSweep \in SweepRecord
      BY NightAssumption DEF NoSweep, SweepRecord
    <2>4. file \in [Ids -> [Titles -> FileRecord]]
      BY <2>1 DEF Init
    <2>5. conv \in [Convs -> ConvRecord]
      BY <2>2 DEF Init
    <2>6. ladder \in [Ids -> LadderRecord] /\ \A i \in Ids : ladder[i].pc = "none"
      BY NoLadderIs DEF Init
    <2>7. /\ lastEnd \in [Ids -> 0..MaxConv] /\ pokes \in [Ids -> 0..MaxPokes]
          /\ opens \in 0..MaxOpens /\ lost \in 0..MaxFaults /\ restarts \in 0..MaxFaults
      <3>1. 0 \in 0..MaxConv /\ 0 \in 0..MaxPokes /\ 0 \in 0..MaxOpens /\ 0 \in 0..MaxFaults
        BY NightAssumption
      <3> QED BY <3>1 DEF Init
    <2>8. /\ tagged \subseteq Cards /\ ranToday \in BOOLEAN /\ active \in Triggers \cup {None}
          /\ skipped \subseteq Ids /\ runmd \in {None, "running", "done"}
          /\ sweep \in SweepRecord /\ admission \in BOOLEAN
      BY <2>3, NightAssumption DEF Init
    <2> QED BY <2>4, <2>5, <2>6, <2>7, <2>8 DEF Typed
  <1>3. WorkInv
    <2>1. ConvInv
      BY DEF Init, ConvInv
    <2>2. CarryInv
      <3>1. \A t \in Triggers : run[t] = NoRun
        BY DEF Init
      <3>2. (\A i \in Ids : NoRun.inflight[i] = 0) /\ ~Reaping(NoRun)
        BY NoRunIs DEF NoRun, Reaping
      <3> QED BY <3>1, <3>2 DEF CarryInv
    <2>3. LadderInv
      <3>1. \A i \in Ids : ladder[i].pc = "none"
        BY NoLadderIs DEF Init
      <3> QED BY <3>1 DEF LadderInv
    <2>4. SweepInv
      <3>1. sweep.pc = "idle" /\ sweep.todo = {} /\ sweep.id = 0
        BY DEF Init, NoSweep
      <3> QED BY <3>1 DEF SweepInv
    <2> QED BY <2>1, <2>2, <2>3, <2>4 DEF WorkInv
  <1> QED BY <1>1, <1>2, <1>3 DEF BaseInv

\* and so it always holds.
LEMMA BaseAlways == Spec => []BaseInv
  <1> QED BY BaseInit, BaseStays, PTL DEF Spec

\* A run's queue is a bounded sequence.
LEMMA QueueIs ==
    ASSUME NEW q \in Seq(Task), Len(q) <= Len(CardSeq)
    PROVE  q \in SeqOf(Task, Len(CardSeq))
  <1>1. Len(q) \in 0..Len(CardSeq) /\ q \in [1..Len(q) -> Task]
    BY IdsFinite
  <1> QED BY <1>1 DEF SeqOf

\* Every variable of the night run keeps to its type: a run's queue never
\* outgrows the board, attempts and pokes never pass their caps, every spawned
\* conversation and every fault stays within its bound.
THEOREM NightTyped == Spec => []TypeOK
  <1>1. BaseInv => TypeOK
    <2> SUFFICES ASSUME BaseInv PROVE TypeOK
      OBVIOUS
    <2> DEFINE R == [pc : Awaits \cup {"off", "idle"},
                     pending : SeqOf(Task, Len(CardSeq)),
                     inflight : [Ids -> 0..MaxConv], todo : SUBSET Ids,
                     parked : BOOLEAN, closed : BOOLEAN,
                     id : Ids \cup {0}, conv : 0..MaxConv, card : Titles]
    <2>1. ASSUME NEW t \in Triggers PROVE run[t] \in R
      <3>1. run[t] \in RunRecord /\ Len(run[t].pending) <= Len(CardSeq)
        BY DEF BaseInv, RunInv, Shape, Apart
      <3>2. run[t].pending \in SeqOf(Task, Len(CardSeq))
        BY <3>1, QueueIs DEF RunRecord
      <3> QED BY <3>1, <3>2 DEF RunRecord
    <2>2. run \in [Triggers -> R]
      <3> HIDE DEF R
      <3>1. run \in [Triggers -> RunRecord]
        BY DEF BaseInv, RunInv
      <3> QED BY <2>1, <3>1
    <2>3. reserved \in [Ids -> Nat] /\ Typed
      BY DEF BaseInv, RunInv
    <2> QED BY <2>2, <2>3 DEF TypeOK, Typed, FileRecord, ConvRecord, LadderRecord, SweepRecord
  <1> QED BY <1>1, BaseAlways, PTL

\* Until a restart, what admitAvailable has reserved for parallel dispatches fits
\* the widest headroom the oracle ever reads, whatever is admitted, released by a
\* failed spawn or reaped in between.
THEOREM LedgerWithinBudget == Spec => []NeverOverbooked
  <1>1. Init => NeverOverbooked
    <2> SUFFICES ASSUME Init PROVE NeverOverbooked
      OBVIOUS
    <2>1. reserved \in [Ids -> Nat] /\ \A i \in Ids : reserved[i] = 0
      BY DEF Init
    <2>2. Outstanding(reserved) = 0 /\ Max(Rooms) \in Nat
      BY <2>1, SumZero, WidestRoom, NightAssumption
    <2> QED BY <2>2 DEF NeverOverbooked
  <1>2. BaseInv /\ NeverOverbooked /\ [Next]_vars => NeverOverbooked'
    BY BudgetStays DEF BaseInv
  <1> QED BY <1>1, <1>2, BaseAlways, PTL DEF Spec

-----------------------------------------------------------------------------
(* One run a day.                                                           *)

\* Only runNightshift counts an opening.
LEMMA OpeningsCounted ==
    ASSUME BaseInv, [Next]_vars
    PROVE  /\ opens \in Nat /\ opens' \in Nat
           /\ opens' = opens \/ (opens' = opens + 1 /\ \E t \in Triggers : RunNightshift(t))
  <1>1. opens' = opens \/ (opens' = opens + 1 /\ \E t \in Triggers : RunNightshift(t))
    <2>1. opens' = opens \/ \E t \in Triggers : RunNightshift(t)
      BY DEF Next, Consider, Advance, ScanBoard, RunStart, Tick, Snapshot, PatchErrored,
                    LadderAwaited, Starve, Placeholder, Untag, SpawnWorker, SpawnFailed, Finalize,
                    UsageEvent, SleepOver, WindowCloses, Settle, LadderRead, LadderBump, LadderRespawn,
                    LadderStamp, Sweep, SweepStart, SweepRead, SweepStamp, SweepLadder, Worker,
                    Watchdog, Boot, Report, WorkerEnds, SocketCloses, WatchdogStamps, WatchdogKills,
                    BrokerUnchanged, vars, control, artifacts, workers, guardian, Restart
    <2>2. \A t \in Triggers : RunNightshift(t) => opens' = opens \/ opens' = opens + 1
      BY DEF RunNightshift
    <2> QED BY <2>1, <2>2
  <1>2. opens \in Nat
    BY NightAssumption DEF BaseInv, Typed
  <1> QED BY <1>1, <1>2

\* Nobody but a dispatch gives a task its first conversation.
LEMMA CarriersKnown ==
    ASSUME BaseInv, [Next]_vars, \A t \in Triggers : ~SpawnWorker(t)
    PROVE  /\ \A i \in Ids : Carried(conv', i) => HasConv(i)
           /\ (\A k \in Convs : conv[k].st = "none") => \A k \in Convs : conv'[k].st = "none"
  <1>1. CASE ConvKept
    BY <1>1 DEF ConvKept, Alike, Carried, HasConv
  <1>2. ASSUME NEW i \in Ids, LadderRespawn(i), ConvAdds(i, TRUE)
        PROVE  /\ \A j \in Ids : Carried(conv', j) => HasConv(j)
               /\ ~ \A k \in Convs : conv[k].st = "none"
    <2>1. HasConv(i)
      BY <1>2 DEF LadderRespawn, BaseInv, WorkInv, LadderInv
    <2>2. \A j \in Ids : Carried(conv', j) => HasConv(j)
      BY <1>2, <2>1 DEF ConvAdds, Carried, HasConv
    <2>3. \A k \in Convs : conv[k].st = "none" => conv[k].id = 0
      <3>1. NoConv.id = 0
        BY DEF NoConv
      <3> QED BY <3>1 DEF BaseInv, WorkInv, ConvInv
    <2> QED BY <2>1, <2>2, <2>3, IdsFinite DEF HasConv, Carried
  <1> QED BY <1>1, <1>2, ConvSteps DEF BaseInv

\* What a moved run waits for or dispatches it did before, unless its scan ended.
LEMMA NothingNew ==
    ASSUME BaseInv, NEW t \in Triggers, NEW s \in RunRecord, Moves(t, s)
    PROVE  \/ PendIds(s) \cup SentId(s) \subseteq PendIds(run[t]) \cup SentId(run[t])
           \/ run[t].pc = "scan"
  <1>1. run[t] \in RunRecord /\ Shape(run[t]) /\ Shape(s)
    BY DEF BaseInv, RunInv, Moves
  <1>2. CASE Onward(run[t], s)
    BY <1>2 DEF Onward, Same, Kept, PendIds
  <1>3. CASE Advances(run[t], s)
    <2>1. CASE Reaped(run[t], s, reserved, reserved')
      BY <2>1 DEF Reaped, PendIds, SentId, Sending
    <2> QED BY <1>3, <2>1 DEF Advances, Filled
  <1>4. CASE Launches(run[t], s)
    <2>1. PendIds(Launched(run[t], Min(Unused))) = PendIds(run[t])
      BY <1>1 DEF Launched, PendIds, RunRecord
    <2> QED BY <1>4, <2>1 DEF Launches, Filled
  <1>5. CASE Fails(run[t], s)
    BY <1>5 DEF Fails, Kept, PendIds, SentId, Sending
  <1>6. CASE Empties(run[t], s)
    <2>1. CASE s.pc = "off"
      <3>1. PendIds(s) = {}
        BY <1>1, <2>1 DEF Shape, Unopened, PendIds
      <3> QED BY <1>6, <3>1 DEF Empties
    <2> QED BY <1>6, <2>1 DEF Empties
  <1> QED BY <1>2, <1>3, <1>4, <1>5, <1>6 DEF Moves

\* A run that has not opened waits for nothing.
LEMMA UnopenedIdle ==
    ASSUME BaseInv, NEW t \in Triggers, Unopened(run[t])
    PROVE  PendIds(run[t]) = {} /\ SentId(run[t]) = {} /\ InflightOf(run[t]) = {} /\ ~Opening(run[t])
  BY DEF BaseInv, RunInv, Shape, PendIds, SentId, Sending, Unopened, Opening

\* Tasks of a queue are tasks of the board.
LEMMA PendAreIds ==
    ASSUME NEW r \in RunRecord
    PROVE  PendIds(r) \subseteq Ids
  <1>1. r.pending \in Seq(Task)
    BY DEF RunRecord
  <1>2. \A a \in DOMAIN r.pending : r.pending[a] \in Task
    BY <1>1, ElementOfSeq
  <1>3. \A a \in DOMAIN r.pending : r.pending[a].id \in Ids
    BY <1>2 DEF Task
  <1> QED BY <1>3 DEF PendIds

\* One run at a time, and before its dispatch a task is without a conversation.
LEMMA AloneStays ==
    ASSUME BaseInv, AloneInv, [Next]_vars
    PROVE  AloneInv'
  <1>1. opens \in Nat /\ opens' \in Nat
        /\ (opens' = opens \/ (opens' = opens + 1 /\ \E t \in Triggers : RunNightshift(t)))
    BY OpeningsCounted
  <1>2. AtMostOne /\ NoneYet /\ AllFresh
    BY DEF AloneInv
  <1>3. BaseInv'
    BY BaseStays
  \* A run opens.
  <1>4. ASSUME opens' = opens + 1, NEW t \in Triggers, RunNightshift(t) PROVE AloneInv'
    <2>1. PICK s : /\ Put(t, s) /\ s \in RunRecord /\ Shape(s) /\ Same(run[t], s)
                   /\ s.pc = "scan" /\ run[t].pc \in {"consider", "off"}
      BY <1>1, <1>4, OnwardOpen DEF BaseInv
    <2>2. conv' = conv /\ reserved' = reserved
      BY <1>4 DEF RunNightshift, workers
    <2>3. run'[t] = s /\ \A u \in Triggers \ {t} : run'[u] = run[u]
      BY <2>1, <2>2, RunPut DEF BaseInv, RunInv
    <2>4. NoneYet'
      BY <1>1, <1>4 DEF NoneYet
    <2>5. CASE opens' <= 1
      <3>1. opens = 0
        BY <1>1, <1>4, <2>5
      <3>2. (\A u \in Triggers : Unopened(run[u])) /\ \A k \in Convs : conv[k].st = "none"
        BY <1>2, <3>1 DEF NoneYet
      <3>3. AtMostOne'
        BY <2>3, <3>2 DEF AtMostOne, Unopened
      <3>4. \A k \in Convs : conv'[k].st = "none" /\ conv'[k].id = 0
        <4>1. NoConv.id = 0
          BY DEF NoConv
        <4> QED BY <2>2, <3>2, <4>1 DEF BaseInv, WorkInv, ConvInv
      <3>5. \A i \in Ids : ~Carried(conv', i)
        BY <3>4, IdsFinite DEF Carried
      <3>6. ASSUME NEW u \in Triggers PROVE Fresh(run'[u], conv')
        <4>1. PendIds(run'[u]) \cup SentId(run'[u]) = {}
          <5>1. CASE u = t
            <6>1. PendIds(run[t]) = {} /\ SentId(run[t]) = {}
              BY <3>2, UnopenedIdle
            <6> QED BY <2>1, <2>3, <5>1, <6>1 DEF Same, Kept, PendIds
          <5>2. CASE u # t
            BY <2>3, <3>2, <5>2, UnopenedIdle
          <5> QED BY <5>1, <5>2
        <4> QED BY <3>4, <4>1 DEF Fresh
      <3>7. AllFresh'
        <4>1. AllFresh' <=> (opens' <= 1 => \A u \in Triggers : Fresh(run'[u], conv'))
          BY DEF AllFresh, Fresh, Opening, PendIds, SentId, Carried
        <4> QED BY <3>6, <4>1
      <3> QED BY <2>4, <3>3, <3>7 DEF AloneInv
    <2>6. CASE ~(opens' <= 1)
      BY <2>4, <2>6 DEF AtMostOne, AllFresh, AloneInv
    <2> QED BY <2>5, <2>6
  <1>5. CASE opens' = opens /\ opens > 1
    BY <1>1, <1>5 DEF AtMostOne, AllFresh, NoneYet, AloneInv
  <1>6. ASSUME opens' = opens, opens <= 1, ~Restart PROVE AloneInv'
    <2>1. AllFresh' <=> (opens' <= 1 => \A u \in Triggers : Fresh(run'[u], conv'))
      BY DEF AllFresh, Fresh, Opening, PendIds, SentId, Carried
    \* A dispatch.
    <2>2. ASSUME NEW t \in Triggers, SpawnWorker(t) PROVE AloneInv'
      <3>1. run[t].pc = "spawn" /\ run[t].id \in Ids
        BY <2>2, SpawnMoves DEF BaseInv
      <3>2. PICK s \in RunRecord : /\ Put(t, s) /\ Shape(s)
                                   /\ PendIds(s) \cup SentId(s) \subseteq PendIds(run[t])
                                   /\ ~Unopened(s) /\ ~Opening(s) /\ reserved' \in [Ids -> Nat]
        <4>1. run[t] \in RunRecord
          BY DEF BaseInv, RunInv
        <4>2. CASE \E s : /\ Put(t, s) /\ Filled(Launched(run[t], Min(Unused)), s, reserved, reserved')
          <5>1. PICK s : Put(t, s) /\ Filled(Launched(run[t], Min(Unused)), s, reserved, reserved')
            BY <4>2
          <5>2. PendIds(Launched(run[t], Min(Unused))) = PendIds(run[t])
            BY <4>1 DEF Launched, PendIds, RunRecord
          <5> QED BY <1>3, <5>1, <5>2 DEF Filled, Unopened, Opening, BaseInv, RunInv
        <4>3. CASE \E s : /\ Put(t, s) /\ s \in RunRecord /\ Shape(s) /\ Kept(run[t], s) /\ s.pc = "failed"
          <5>1. PICK s : Put(t, s) /\ s \in RunRecord /\ Shape(s) /\ Kept(run[t], s) /\ s.pc = "failed"
            BY <4>3
          <5> QED BY <1>3, <5>1 DEF Kept, PendIds, SentId, Sending, Unopened, Opening, BaseInv, RunInv
        <4> QED BY <2>2, <4>2, <4>3, SpawnMoves DEF BaseInv
      <3>3. run'[t] = s /\ \A u \in Triggers \ {t} : run'[u] = run[u]
        BY <3>2, RunPut DEF BaseInv
      <3>4. opens = 1 /\ \A u \in Triggers : u # t => Unopened(run[u])
        BY <1>1, <1>2, <1>6, <3>1 DEF NoneYet, AtMostOne, Unopened
      <3>5. AtMostOne' /\ NoneYet'
        BY <1>6, <3>3, <3>4 DEF AtMostOne, NoneYet, Unopened
      <3>6. \A i \in Ids : Carried(conv', i) => HasConv(i) \/ i = run[t].id
        <4>1. CASE ConvKept
          BY <4>1 DEF ConvKept, Alike, Carried, HasConv
        <4>2. CASE ConvAdds(run[t].id, FALSE)
          BY <4>2 DEF ConvAdds, Carried, HasConv
        <4>3. run[t].card \in Titles /\ \E out \in SpawnOutcome : Spawn(out, run[t].id, run[t].card, FALSE)
          BY <2>2, SpawnMoves DEF BaseInv, RunInv, RunRecord
        <4> QED BY <3>1, <4>1, <4>2, <4>3, SpawnAdds DEF BaseInv
      <3>7. ASSUME NEW u \in Triggers PROVE Fresh(run'[u], conv')
        <4>1. CASE u = t
          <5>1. \A i \in PendIds(run[t]) : i \in Ids /\ ~HasConv(i) /\ i # run[t].id
            <6>1. Fresh(run[t], conv)
              BY <1>2, <1>6 DEF AllFresh
            <6>2. Shape(run[t]) /\ Sending(run[t]) /\ run[t] \in RunRecord
              BY <3>1 DEF BaseInv, RunInv, Sending
            <6> QED BY <6>1, <6>2, PendAreIds DEF Fresh, HasConv, Shape
          <5> QED BY <3>2, <3>3, <3>6, <4>1, <5>1 DEF Fresh
        <4>2. CASE u # t
          BY <3>3, <3>4, <4>2, UnopenedIdle DEF Fresh
        <4> QED BY <4>1, <4>2
      <3> QED BY <2>1, <3>5, <3>7 DEF AloneInv
    \* Any other step.
    <2>3. ASSUME \A t \in Triggers : ~SpawnWorker(t) PROVE AloneInv'
      <3>1. /\ \A i \in Ids : Carried(conv', i) => HasConv(i)
            /\ (\A k \in Convs : conv[k].st = "none") => \A k \in Convs : conv'[k].st = "none"
        BY <2>3, CarriersKnown
      <3>2. ASSUME NEW u \in Triggers, run'[u] = run[u] PROVE Fresh(run'[u], conv')
        <4>1. PendIds(run[u]) \cup SentId(run[u]) \subseteq Ids
          BY PendAreIds DEF BaseInv, RunInv, Shape, SentId
        <4>2. Fresh(run[u], conv)
          BY <1>2, <1>6 DEF AllFresh
        <4> QED BY <3>1, <3>2, <4>1, <4>2 DEF Fresh, HasConv
      <3>3. CASE UNCHANGED <<run, reserved>>
        <4>1. \A u \in Triggers : run'[u] = run[u]
          BY <3>3
        <4>2. AtMostOne' /\ NoneYet'
          BY <1>2, <1>6, <3>1, <4>1 DEF AtMostOne, NoneYet, Unopened
        <4> QED BY <2>1, <3>2, <4>1, <4>2 DEF AloneInv
      <3>4. ASSUME NEW t \in Triggers, NEW s \in RunRecord, Moves(t, s) PROVE AloneInv'
        <4>1. run'[t] = s /\ \A u \in Triggers \ {t} : run'[u] = run[u]
          BY <3>4, LedgerTyped, RunPut DEF Moves, BaseInv
        <4>2. Unopened(run[t]) => Unopened(s)
          <5>1. Unopened(run[t]) => Onward(run[t], s)
            BY <3>4 DEF Moves, Advances, Launches, Fails, Empties, Unopened
          <5> QED BY <1>1, <1>6, <5>1 DEF Onward, Opens
        <4>3. AtMostOne'
          BY <1>2, <1>6, <4>1, <4>2 DEF AtMostOne, Unopened
        <4>4. NoneYet'
          BY <1>2, <1>6, <3>1, <4>1, <4>2 DEF NoneYet, Unopened
        <4>5. Opening(s) => Opening(run[t])
          <5>1. CASE Onward(run[t], s)
            BY <1>1, <1>6, <5>1 DEF Onward, Opens
          <5>2. CASE Advances(run[t], s)
            BY <5>2 DEF Advances, Filled, Reaped, Opening
          <5>3. CASE Launches(run[t], s) \/ Fails(run[t], s)
            BY <5>3 DEF Launches, Fails, Filled, Opening
          <5>4. CASE Empties(run[t], s)
            BY <5>4 DEF Empties, Opening
          <5> QED BY <3>4, <5>1, <5>2, <5>3, <5>4 DEF Moves
        <4>6. Fresh(s, conv')
          <5>1. Fresh(run[t], conv)
            BY <1>2, <1>6 DEF AllFresh
          <5>2. PendIds(s) \cup SentId(s) \subseteq Ids
            BY <3>4, PendAreIds DEF Moves, Shape, SentId
          <5>3. CASE PendIds(s) \cup SentId(s) \subseteq PendIds(run[t]) \cup SentId(run[t])
            BY <3>1, <4>5, <5>1, <5>2, <5>3 DEF Fresh, HasConv
          <5>4. CASE run[t].pc = "scan"
            <6>1. \A k \in Convs : conv[k].st = "none"
              BY <5>1, <5>4 DEF Fresh, Opening
            <6>2. \A k \in Convs : conv[k].id = 0
              <7>1. NoConv.id = 0
                BY DEF NoConv
              <7> QED BY <6>1, <7>1 DEF BaseInv, WorkInv, ConvInv
            <6>3. \A i \in Ids : ~HasConv(i)
              BY <6>2, IdsFinite DEF HasConv, Carried
            <6> QED BY <3>1, <5>2, <6>1, <6>3 DEF Fresh
          <5> QED BY <3>4, <5>3, <5>4, NothingNew
        <4>7. \A u \in Triggers : Fresh(run'[u], conv')
          BY <3>2, <4>1, <4>6
        <4> QED BY <2>1, <4>3, <4>4, <4>7 DEF AloneInv
      <3>5. UNCHANGED vars => UNCHANGED <<run, reserved>>
        BY DEF vars
      <3> QED BY <1>6, <3>3, <3>4, <3>5, RunSteps DEF BaseInv
    <2> QED BY <2>2, <2>3
  <1>7. CASE Restart
    <2>1. \A t \in Triggers : run'[t] = NoRun
      BY <1>7, RestartEmpties
    <2>2. opens' = opens /\ ConvKept
      BY <1>7, RestartKeeps DEF Restart, BaseInv
    <2>3. Unopened(NoRun) /\ ~Opening(NoRun) /\ PendIds(NoRun) = {} /\ SentId(NoRun) = {}
      BY NoRunIs DEF Unopened, Opening
    <2>4. AtMostOne' /\ NoneYet'
      BY <1>2, <2>1, <2>2, <2>3 DEF AtMostOne, NoneYet, Unopened, ConvKept, Alike
    <2>5. \A u \in Triggers : Fresh(run'[u], conv')
      BY <2>1, <2>3 DEF Fresh
    <2>6. AllFresh' <=> (opens' <= 1 => \A u \in Triggers : Fresh(run'[u], conv'))
      BY DEF AllFresh, Fresh, Opening, PendIds, SentId, Carried
    <2> QED BY <2>4, <2>5, <2>6 DEF AloneInv
  <1> QED BY <1>1, <1>4, <1>5, <1>6, <1>7

-----------------------------------------------------------------------------
(* The ledger is exact.                                                     *)

Booked(led) == {i \in Ids : led[i] # 0}

\* What a moved run tracks is what the ledger books for it.
LEMMA BooksFollow ==
    ASSUME BaseInv, admission, NEW t \in Triggers, NEW s \in RunRecord, Moves(t, s),
           ~Unopened(run[t]), Booked(reserved) = Tracked(run[t])
    PROVE  Booked(reserved') = Tracked(s)
  <1>1. /\ run[t] \in RunRecord /\ Shape(run[t]) /\ reserved \in [Ids -> Nat] /\ Estimate \in Nat \ {0}
    BY NightAssumption DEF BaseInv, RunInv
  <1>2. ASSUME NEW r, NEW i, Filled(r, s, reserved, reserved'), Booked(reserved) = InflightOf(r)
        PROVE  Booked(reserved') = Tracked(s)
    <2>1. InflightOf(s) = InflightOf(r) /\ Shape(s)
      BY <1>2 DEF Filled, InflightOf
    <2>2. CASE s.pc = "placeholder"
      <3>1. reserved' = [reserved EXCEPT ![s.id] = Estimate] /\ SentId(s) = {s.id} /\ s.id \in Ids
        BY <1>2, <2>1, <2>2 DEF Filled, SentId, Sending, Shape
      <3>2. Booked(reserved') = Booked(reserved) \cup {s.id}
        BY <1>1, <3>1 DEF Booked
      <3> QED BY <1>2, <2>1, <3>1, <3>2 DEF Tracked
    <2>3. CASE s.pc # "placeholder"
      <3>1. reserved' = reserved /\ SentId(s) = {}
        BY <1>2, <2>3 DEF Filled, SentId, Sending
      <3> QED BY <1>2, <2>1, <3>1 DEF Tracked
    <2> QED BY <2>2, <2>3
  <1>3. CASE Onward(run[t], s)
    BY <1>3 DEF Onward, Same, Kept, Tracked, InflightOf
  <1>4. CASE Advances(run[t], s)
    <2>1. SentId(run[t]) = {} /\ Tracked(run[t]) = InflightOf(run[t])
      BY <1>4 DEF Advances, SentId, Tracked
    <2>2. CASE Reaped(run[t], s, reserved, reserved')
      <3>1. PICK i \in InflightOf(run[t]) : /\ s.inflight = [run[t].inflight EXCEPT ![i] = 0]
                                            /\ s.pc = "snapshot"
                                            /\ reserved' = [reserved EXCEPT ![i] = 0]
        BY <2>2 DEF Reaped
      <3>2. i \in Ids /\ run[t].inflight \in [Ids -> 0..MaxConv]
        BY <1>1 DEF InflightOf, RunRecord
      <3>3. InflightOf(s) = InflightOf(run[t]) \ {i} /\ SentId(s) = {}
        BY <3>1, <3>2 DEF InflightOf, SentId, Sending
      <3>4. Booked(reserved') = Booked(reserved) \ {i}
        BY <1>1, <3>1, <3>2 DEF Booked
      <3> QED BY <2>1, <3>3, <3>4 DEF Tracked
    <2> QED BY <1>2, <1>4, <2>1, <2>2 DEF Advances
  <1>5. CASE Launches(run[t], s)
    <2> DEFINE n == Min(Unused)
    <2>1. /\ n \in Convs /\ Filled(Launched(run[t], n), s, reserved, reserved')
          /\ run[t].pc = "spawn" /\ Sending(run[t])
      BY <1>5 DEF Launches, Sending
    <2> HIDE DEF n
    <2>2. run[t].id \in Ids /\ run[t].id \notin PendIds(run[t]) \cup InflightOf(run[t])
      BY <1>1, <2>1 DEF Shape
    <2>3. InflightOf(Launched(run[t], n)) = Tracked(run[t])
      BY <1>1, <2>1, <2>2, LaunchedIs DEF Tracked, SentId
    <2> QED BY <1>2, <2>1, <2>3
  <1>6. CASE Fails(run[t], s)
    <2>1. /\ s.inflight = run[t].inflight /\ s.pc = "failed" /\ Sending(run[t])
          /\ reserved' = [reserved EXCEPT ![run[t].id] = 0]
      BY <1>6 DEF Fails, Kept, Sending
    <2>2. run[t].id \in Ids /\ run[t].id \notin InflightOf(run[t])
      BY <1>1, <2>1 DEF Shape
    <2>3. InflightOf(s) = InflightOf(run[t]) /\ SentId(s) = {} /\ SentId(run[t]) = {run[t].id}
      BY <2>1 DEF InflightOf, SentId, Sending
    <2>4. Booked(reserved') = Booked(reserved) \ {run[t].id}
      BY <1>1, <2>1, <2>2 DEF Booked
    <2> QED BY <2>2, <2>3, <2>4 DEF Tracked
  <1>7. CASE Empties(run[t], s)
    <2>1. InflightOf(run[t]) = {} /\ SentId(run[t]) = {}
      BY <1>1, <1>7 DEF Empties, Shape, Opening, SentId, Sending
    <2>2. InflightOf(s) = {} /\ SentId(s) = {} /\ reserved' = reserved
      BY <1>7 DEF Empties
    <2> QED BY <2>1, <2>2 DEF Tracked
  <1> QED BY <1>3, <1>4, <1>5, <1>6, <1>7 DEF Moves

\* The books follow the runs.
LEMMA LedgerStays ==
    ASSUME BaseInv, AloneInv, LedgerInv, [Next]_vars
    PROVE  LedgerInv'
  <1> SUFFICES ASSUME admission', restarts' = 0, opens' <= 1
               PROVE  Booked(reserved') = UNION {Tracked(run'[t]) : t \in Triggers}
    BY DEF LedgerInv, Booked, Tracked, InflightOf, SentId, Sending
  <1>1. admission /\ restarts = 0 /\ ~Restart
    <2>1. restarts \in Nat
      BY NightAssumption DEF BaseInv, Typed
    <2>2. Restart => restarts' = restarts + 1
      BY DEF Restart
    <2>3. ~Restart
      BY <2>1, <2>2
    <2>4. restarts = 0
      BY <2>3, AdmissionFixed
    <2>5. admission
      BY AdmissionFixed
    <2> QED BY <2>3, <2>4, <2>5
  <1>2. opens <= 1 /\ opens \in Nat
    BY OpeningsCounted
  <1>3. Booked(reserved) = UNION {Tracked(run[t]) : t \in Triggers}
    BY <1>1, <1>2 DEF LedgerInv, Booked
  <1>4. CASE UNCHANGED <<run, reserved>>
    BY <1>3, <1>4
  <1>5. ASSUME NEW t \in Triggers, NEW s \in RunRecord, Moves(t, s)
        PROVE  Booked(reserved') = UNION {Tracked(run'[u]) : u \in Triggers}
    <2>1. run'[t] = s /\ \A u \in Triggers \ {t} : run'[u] = run[u]
      BY <1>5, LedgerTyped, RunPut DEF Moves, BaseInv
    <2>2. CASE Unopened(run[t])
      <3>1. Onward(run[t], s)
        BY <1>5, <2>2 DEF Moves, Advances, Launches, Fails, Empties, Unopened
      <3>2. Tracked(s) = Tracked(run[t]) /\ reserved' = reserved
        BY <3>1 DEF Onward, Same, Kept, Tracked, InflightOf
      <3>3. \A u \in Triggers : Tracked(run'[u]) = Tracked(run[u])
        BY <2>1, <3>2
      <3> QED BY <1>3, <3>2, <3>3
    <2>3. CASE ~Unopened(run[t])
      <3>1. \A u \in Triggers \ {t} : Tracked(run[u]) = {}
        <4>1. \A u \in Triggers \ {t} : Unopened(run[u])
          BY <1>2, <2>3 DEF AloneInv, AtMostOne
        <4> QED BY <4>1, UnopenedIdle DEF Tracked
      <3>2. UNION {Tracked(run[u]) : u \in Triggers} = Tracked(run[t])
        BY <3>1
      <3>3. \A u \in Triggers \ {t} : Tracked(run'[u]) = {}
        BY <2>1, <3>1
      <3>4. UNION {Tracked(run'[u]) : u \in Triggers} = Tracked(s)
        BY <2>1, <3>3
      <3>5. Booked(reserved') = Tracked(s)
        BY <1>1, <1>3, <1>5, <2>3, <3>2, BooksFollow
      <3> QED BY <3>4, <3>5
    <2> QED BY <2>2, <2>3
  <1>6. UNCHANGED vars => UNCHANGED <<run, reserved>>
    BY DEF vars
  <1> QED BY <1>1, <1>4, <1>5, <1>6, RunSteps DEF BaseInv

\* What the proofs about one run a day start from.
LEMMA AloneAlways == Spec => [](BaseInv /\ AloneInv)
  <1>1. Init => AloneInv
    <2> SUFFICES ASSUME Init PROVE AloneInv
      OBVIOUS
    <2>1. \A t \in Triggers : run[t] = NoRun
      BY DEF Init
    <2>2. \A k \in Convs : conv[k].st = "none"
      BY DEF Init, NoConv
    <2>3. Unopened(NoRun) /\ ~Opening(NoRun) /\ PendIds(NoRun) = {} /\ SentId(NoRun) = {}
      BY NoRunIs DEF Unopened, Opening
    <2> QED BY <2>1, <2>2, <2>3 DEF AloneInv, NoneYet, AtMostOne, AllFresh, Fresh
  <1>2. BaseInv /\ AloneInv /\ [Next]_vars => AloneInv'
    BY AloneStays
  <1> QED BY <1>1, <1>2, BaseInit, BaseStays, PTL DEF Spec

\* Until a restart, and with one run a day, a reservation stands for each task in
\* flight or being dispatched and for nothing else: no failed spawn, reaped
\* worker, starved queue or ended run leaves tokens on the books, and no worker
\* runs off them.
THEOREM LedgerIsExact == Spec => []LedgerExact
  <1>1. Init => LedgerInv
    <2> SUFFICES ASSUME Init PROVE LedgerInv
      OBVIOUS
    <2>1. \A t \in Triggers : Tracked(run[t]) = {}
      BY NoRunIs DEF Init, Tracked
    <2>2. \A i \in Ids : reserved[i] = 0
      BY DEF Init
    <2> QED BY <2>1, <2>2 DEF LedgerInv
  <1>2. BaseInv /\ AloneInv /\ LedgerInv /\ [Next]_vars => LedgerInv'
    BY LedgerStays
  <1>3. LedgerInv => LedgerExact
    <2> SUFFICES ASSUME LedgerInv, admission /\ restarts = 0 /\ opens <= 1
                 PROVE  {i \in Ids : reserved[i] # 0} =
                          UNION {Inflight(t) \cup (IF Dispatching(t) THEN {run[t].id} ELSE {}) : t \in Triggers}
      BY DEF LedgerExact
    <2>1. \A t \in Triggers : Tracked(run[t]) = Inflight(t) \cup (IF Dispatching(t) THEN {run[t].id} ELSE {})
      BY DEF Tracked, Inflight, SentId, Sending, Dispatching
    <2> QED BY <2>1 DEF LedgerInv
  <1> QED BY <1>1, <1>2, <1>3, AloneAlways, PTL DEF Spec
=============================================================================
