-------------------------- MODULE PanelSync_proofs --------------------------
(***************************************************************************)
(* Proofs about the panel's transcript: the seq filter drops nothing the   *)
(* panel lacks, and a panel that is in sync shows the newest row; for any  *)
(* limits, any late and filtered rows, and any number of faults.           *)
(***************************************************************************)
EXTENDS PanelSync, FiniteSetTheorems, SequenceTheorems, NaturalsInduction, TLAPS

(***************************************************************************)
(* The rows and their order.                                               *)
(***************************************************************************)
Numbers == 0 .. Len(place)

\* Every row stands somewhere in the record.
PlaceOK == place \in Seq(Nat) /\ \A n \in Stored : place[n] \in Stored

\* A nonempty set of naturals with a bound has a greatest element.
LEMMA GreatestNumber ==
  ASSUME NEW N \in Nat, NEW T \in SUBSET (0 .. N), T # {}
  PROVE  \E n \in T : \A m \in T : m <= n
<1> DEFINE U == {N - n : n \in T}
<1>1. U \subseteq Nat /\ U # {}
  <2>1. \A n \in T : N - n \in Nat
    OBVIOUS
  <2>2. PICK n \in T : TRUE
    OBVIOUS
  <2>3. N - n \in U
    BY <2>2
  <2> QED
    BY <2>1, <2>3
<1>2. \E x \in U : \A y \in U : <<y, x>> \notin OpToRel(<, Nat)
  <2> DEFINE R == OpToRel(<, Nat)
  <2>1. IsWellFoundedOn(R, Nat)
    BY NatLessThanWellFounded
  <2> HIDE DEF R, U
  <2>2. \E x \in U : \A y \in U : ~ (<<y, x>> \in R)
    BY <1>1, <2>1, WFMin
  <2> QED
    BY <2>2 DEF R
<1>3. \A x, y \in Nat : <<y, x>> \notin OpToRel(<, Nat) => x <= y
  BY DEF OpToRel
<1>4. PICK x \in U : \A y \in U : x <= y
  BY <1>1, <1>2, <1>3
<1>5. PICK n \in T : x = N - n
  BY <1>4
<1>6. \A m \in T : N - n <= N - m
  BY <1>4, <1>5
<1> QED
  BY <1>5, <1>6

\* A part of a finite set of fewer than k is of fewer than k.
LEMMA FewerThan ==
  ASSUME NEW k \in Nat, NEW B, IsFiniteSet(B), Cardinality(B) < k, NEW A \in SUBSET B
  PROVE  Cardinality(A) < k
<1>1. Cardinality(A) <= Cardinality(B) /\ Cardinality(A) \in Nat /\ Cardinality(B) \in Nat
  BY FS_Subset, FS_CardinalityType
<1> QED
  BY <1>1

\* Sets of rows are finite.
LEMMA RowsFinite ==
  ASSUME NEW N \in Nat, NEW S \in SUBSET (1 .. N)
  PROVE  IsFiniteSet(S)
<1>1. IsFiniteSet(1 .. N)
  BY FS_Interval
<1> QED
  BY <1>1, FS_Subset

LEMMA AfterFinite ==
  ASSUME PlaceOK, NEW S \in SUBSET Stored, NEW n
  PROVE  IsFiniteSet(After(S, n))
<1>1. Len(place) \in Nat /\ Stored = 1 .. Len(place)
  BY DEF PlaceOK, Stored
<1>2. After(S, n) \in SUBSET Stored
  BY DEF After
<1> QED
  BY <1>1, <1>2, RowsFinite

\* What a nonempty set has as its newest row is one of its rows.
LEMMA NewestIn ==
  ASSUME PlaceOK, NEW S \in SUBSET Stored
  PROVE  Newest(S) \in S \cup {0} /\ (S # {} => Newest(S) \in S)
<1>1. CASE S = {}
  BY <1>1 DEF Newest
<1>2. CASE S # {}
  <2> DEFINE T == {place[m] : m \in S}
  <2>1. Len(place) \in Nat /\ T \in SUBSET (0 .. Len(place)) /\ T # {}
    <3>1. Len(place) \in Nat /\ \A m \in S : place[m] \in 0 .. Len(place)
      BY DEF PlaceOK, Stored
    <3>2. PICK m \in S : TRUE
      BY <1>2
    <3>3. place[m] \in T
      BY <3>2
    <3> QED
      BY <3>1, <3>3
  <2> HIDE DEF T
  <2>2. PICK p \in T : \A q \in T : q <= p
    BY <2>1, GreatestNumber
  <2>3. PICK n \in S : place[n] = p
    BY <2>2 DEF T
  <2>4. \A m \in S : place[m] \in T /\ place[m] \in Nat /\ place[n] \in Nat
    <3>1. \A m \in S : place[m] \in T
      BY DEF T
    <3>2. T \subseteq Nat
      BY <2>1
    <3> QED
      BY <3>1, <3>2
  <2>5. After(S, n) = {}
    BY <2>2, <2>3, <2>4 DEF After
  <2> QED
    BY <1>2, <2>5 DEF Newest
<1> QED
  BY <1>1, <1>2

\* A row among the last k of a set is among the last k of each subset it is in,
\* and so is every row that stands after it.
LEMMA LastOfSubset ==
  ASSUME PlaceOK, NEW S \in SUBSET Stored, NEW T \in SUBSET S, NEW k \in Nat, NEW n \in T, n \in LastOf(S, k)
  PROVE  n \in LastOf(T, k)
<1>1. IsFiniteSet(After(S, n)) /\ After(T, n) \in SUBSET After(S, n)
  BY AfterFinite DEF After
<1>2. Cardinality(After(T, n)) < k
  BY <1>1, FewerThan DEF LastOf
<1> QED
  BY <1>2 DEF LastOf

LEMMA LaterIsLast ==
  ASSUME PlaceOK, NEW S \in SUBSET Stored, NEW k \in Nat, NEW n \in LastOf(S, k), NEW m \in After(S, n)
  PROVE  m \in LastOf(S, k)
<1>1. n \in S /\ m \in S /\ place[m] > place[n]
  BY DEF LastOf, After
<1>2. \A x \in S : place[x] \in Nat
  BY DEF PlaceOK, Stored
<1>3. IsFiniteSet(After(S, n)) /\ After(S, m) \in SUBSET After(S, n)
  BY <1>1, <1>2, AfterFinite DEF After
<1>4. Cardinality(After(S, m)) < k
  BY <1>3, FewerThan DEF LastOf
<1> QED
  BY <1>1, <1>4 DEF LastOf

(***************************************************************************)
(* The record grows by one row, and the others keep their order: whatever  *)
(* is among the last of them now was among the last before.                *)
(***************************************************************************)
Kept     == pruneLiveTranscript(Stored)
Returned == LastOf(Visible \ Noise, FetchLimit)

LEMMA RecordGrows ==
  ASSUME PlaceOK, addTranscriptEntries
  PROVE  /\ PlaceOK' /\ Len(place) \in Nat /\ Len(place') = Len(place) + 1
         /\ Stored \subseteq Stored' /\ Stored' \subseteq Stored \cup {Len(place')}
         /\ \A m, n \in Stored : place[m] > place[n] <=> place'[m] > place'[n]
<1> DEFINE n == Len(place) + 1
           at(p) == [m \in 1 .. n |-> IF m = n THEN p ELSE IF place[m] < p THEN place[m] ELSE place[m] + 1]
<1>1. Len(place) \in Nat /\ n \in Nat /\ 1 .. n = Stored \cup {n} /\ n \notin Stored
  BY DEF PlaceOK, Stored
<1>2. \A m \in Stored : place[m] \in 1 .. Len(place)
  BY DEF PlaceOK, Stored
<1>3. PICK p \in Stored \cup {n} : place' = at(p)
  BY DEF addTranscriptEntries
<1>4. p \in 1 .. n
  BY <1>1
<1>5. \A m \in 1 .. n : at(p)[m] \in 1 .. n
  BY <1>1, <1>2, <1>4
<1>6. place' \in Seq(Nat) /\ Len(place') = n /\ \A m \in 1 .. n : place'[m] = at(p)[m]
  <2>1. at(p) \in [1 .. n -> Nat]
    BY <1>5
  <2> HIDE DEF at, n
  <2>2. place' \in Seq(Nat) /\ DOMAIN place' = 1 .. n
    BY <1>1, <1>3, <2>1, SeqDef
  <2>3. Len(place') = n
    BY <1>1, <2>2
  <2> QED
    BY <1>3, <2>2, <2>3
<1>7. \A m \in Stored : place'[m] = IF place[m] < p THEN place[m] ELSE place[m] + 1
  BY <1>1, <1>6
<1>8. \A m, k \in Stored : place[m] > place[k] <=> place'[m] > place'[k]
  BY <1>2, <1>4, <1>7
<1>9. Stored' = 1 .. n
  BY <1>6 DEF Stored
<1> HIDE DEF at
<1> QED
  BY <1>1, <1>5, <1>6, <1>8, <1>9 DEF PlaceOK

LEMMA LastBefore ==
  ASSUME PlaceOK, addTranscriptEntries, NEW n \in Stored
  PROVE  /\ n \in Kept' => n \in Kept
         /\ n \in Visible' => n \in Visible
         /\ n \in Returned' => n \in Returned
<1> DEFINE Behind(S) == {m \in S : place[m] > place[n]}
           BehindNow(S) == {m \in S : place'[m] > place'[n]}
<1>1. /\ Len(place') \in Nat /\ Stored \subseteq Stored' /\ Stored' = 1 .. Len(place') /\ PlaceOK'
      /\ \A m \in Stored : place[m] > place[n] => place'[m] > place'[n]
  BY RecordGrows DEF Stored, PlaceOK
<1>2. {LiveCap, Window, FetchLimit} \subseteq Nat
  BY SizesAssumption
<1>3. ASSUME NEW k \in Nat, NEW S \in SUBSET Stored, NEW T \in SUBSET Stored', Behind(S) \subseteq T,
             Cardinality(BehindNow(T)) < k
      PROVE  Cardinality(Behind(S)) < k
  <2>1. IsFiniteSet(BehindNow(T))
    BY <1>1, RowsFinite
  <2>2. Behind(S) \in SUBSET BehindNow(T)
    BY <1>1, <1>3
  <2> QED
    BY <1>3, <2>1, <2>2, FewerThan
<1>4. ASSUME NEW k \in Nat, Cardinality(BehindNow(Stored')) < k PROVE Cardinality(Behind(Stored)) < k
  BY <1>1, <1>3, <1>4
<1>5. n \in Kept' => n \in Kept
  BY <1>2, <1>4 DEF Kept, pruneLiveTranscript, LastOf, After
<1>6. n \in Visible' => n \in Visible
  BY <1>2, <1>4 DEF Visible, LastOf, After
<1>7. ASSUME n \in Returned' PROVE n \in Returned
  <2>1. n \in Visible' \ Noise /\ Cardinality(BehindNow(Visible' \ Noise)) < FetchLimit
    BY <1>7 DEF Returned, LastOf, After
  <2>2. Visible' \subseteq Stored' /\ Visible \subseteq Stored /\ Cardinality(BehindNow(Stored')) < Window
    BY <2>1 DEF Visible, LastOf, After
  <2>3. ASSUME NEW m \in Behind(Stored) PROVE m \in Visible'
    <3>1. m \in Stored' /\ place'[m] > place'[n]
      BY <1>1
    <3>2. \A x \in Stored' : place'[x] \in Nat
      BY <1>1 DEF PlaceOK
    <3>3. {x \in Stored' : place'[x] > place'[m]} \in SUBSET BehindNow(Stored')
      BY <1>1, <3>1, <3>2
    <3>4. IsFiniteSet(BehindNow(Stored'))
      BY <1>1, RowsFinite
    <3>5. Cardinality({x \in Stored' : place'[x] > place'[m]}) < Window
      BY <1>2, <2>2, <3>3, <3>4, FewerThan
    <3> QED
      BY <3>1, <3>5 DEF Visible, LastOf, After
  <2>4. Cardinality(Behind(Visible \ Noise)) < FetchLimit
    <3>1. Behind(Visible \ Noise) \subseteq Visible' \ Noise
      BY <2>2, <2>3
    <3> QED
      BY <1>2, <1>3, <2>1, <2>2, <3>1
  <2> QED
    BY <1>6, <2>1, <2>4 DEF Returned, LastOf, After
<1> QED
  BY <1>5, <1>6, <1>7

\* What a row may be counted among.
LEMMA RecordSets ==
  ASSUME PlaceOK
  PROVE  /\ Len(place) \in Nat /\ Stored = 1 .. Len(place) /\ Stored \subseteq Numbers
         /\ Kept \subseteq Stored /\ Visible \subseteq Stored /\ Returned \subseteq Visible
         /\ FullAnswer.entries = Returned
         /\ Newest(Stored) \in Numbers /\ Newest(Visible) \in Visible \cup {0}
<1>1. Len(place) \in Nat /\ Stored = 1 .. Len(place)
  BY DEF PlaceOK, Stored
<1>2. Kept \subseteq Stored /\ Visible \subseteq Stored /\ Returned \subseteq Visible
  BY DEF Kept, pruneLiveTranscript, Visible, Returned, LastOf
<1>3. FullAnswer.entries = Returned
  BY DEF FullAnswer, FullFetch, Free, Returned
<1>4. Newest(Stored) \in Stored \cup {0} /\ Newest(Visible) \in Visible \cup {0}
  BY <1>2, NewestIn
<1> QED
  BY <1>1, <1>2, <1>3, <1>4 DEF Numbers

(***************************************************************************)
(* The inductive invariant.  A row is watched while its broadcast is on    *)
(* the way and a full fetch would return it, or while it is the newest,    *)
(* and the panel would keep it.  What the panel shows, and what a fetch    *)
(* that was answered is going to show, does not reach past a watched row   *)
(* without it: no request asks only for rows after a watched one, because  *)
(* the check that raised it was answered before the row was stored.        *)
(***************************************************************************)
OnTheWay(n) == \E i \in 1 .. Len(wire) : wire[i].type = "live" /\ n \in wire[i].entries
Watched(n) == n \in Kept /\ \/ OnTheWay(n) /\ n \in Returned
                            \/ n = Len(place)

\* The rows S and the number m do not reach past n without it.
Covers(S, m, n) == (\E y \in S \cup {m} : y >= n) => n \in S

SendOK(m)    == /\ m.type \in {"live", "initial", "sync_ok", "sync_stale"}
                /\ m.entries \subseteq Stored /\ m.seq \in Numbers
RequestOK(f) == /\ f.state \in {"free", "asked", "served"}
                /\ {f.since, f.last} \subseteq Numbers /\ f.entries \subseteq Stored
TInv == /\ PlaceOK
        /\ counter \in Numbers /\ floor \in Numbers /\ held \subseteq Stored
        /\ wire = [i \in 1 .. Len(wire) |-> wire[i]] /\ Len(wire) \in Nat
        /\ \A i \in 1 .. Len(wire) : SendOK(wire[i])
        /\ fetch = [k \in Fetches |-> fetch[k]] /\ \A k \in Fetches : RequestOK(fetch[k])

\* What was sent before a broadcast knows nothing of its row.
LineInv == \A i, j \in 1 .. Len(wire) : i < j /\ wire[j].type = "live" =>
             \A n \in wire[j].entries : wire[i].seq < n /\ \A y \in wire[i].entries : y < n
AskInv  == \A k \in Fetches : fetch[k].state # "free" =>
             \A n \in Stored : OnTheWay(n) \/ n = Len(place) => fetch[k].since < n
AnsInv  == \A k \in Fetches : fetch[k].state = "served" =>
             \A n \in Stored : Watched(n) => Covers(fetch[k].entries, fetch[k].last, n)
ShowInv == \A n \in Stored : Watched(n) => Covers(held, floor, n)
IInv == TInv /\ LineInv /\ AskInv /\ AnsInv /\ ShowInv

(***************************************************************************)
(* How each variable moves.                                                *)
(***************************************************************************)
\* Sending adds one message at the end; delivering takes the first.
LEMMA LineSteps ==
  ASSUME NEW w, Len(w) \in Nat, w = [i \in 1 .. Len(w) |-> w[i]], NEW m
  PROVE  /\ Len(Append(w, m)) = Len(w) + 1
         /\ Append(w, m) = [i \in 1 .. Len(w) + 1 |-> IF i = Len(w) + 1 THEN m ELSE w[i]]
         /\ w # <<>> => /\ Len(w) > 0 /\ Head(w) = w[1] /\ Len(Tail(w)) = Len(w) - 1
                        /\ Tail(w) = [i \in 1 .. Len(w) - 1 |-> w[i + 1]]
<1> DEFINE R == {w[i] : i \in 1 .. Len(w)} \cup {m}
<1>1. \A i \in 1 .. Len(w) : w[i] \in R
  OBVIOUS
<1> HIDE DEF R
<1>2. w \in Seq(R)
  <2>1. w \in [1 .. Len(w) -> R]
    BY <1>1
  <2> QED
    BY <2>1, SeqDef
<1>3. m \in R
  BY DEF R
<1>4. /\ Append(w, m) \in Seq(R) /\ Len(Append(w, m)) = Len(w) + 1
      /\ \A i \in 1 .. Len(w) : Append(w, m)[i] = w[i]
      /\ Append(w, m)[Len(w) + 1] = m
  BY <1>2, <1>3, AppendProperties
<1>5. Append(w, m) = [i \in 1 .. Len(w) + 1 |-> IF i = Len(w) + 1 THEN m ELSE w[i]]
  <2>1. PICK a : a = Append(w, m)
    OBVIOUS
  <2>2. /\ a \in Seq(R) /\ Len(a) = Len(w) + 1 /\ a[Len(w) + 1] = m
        /\ \A i \in 1 .. Len(w) : a[i] = w[i]
    BY <1>4, <2>1
  <2>3. a \in [1 .. Len(w) + 1 -> R]
    BY <2>2, LenProperties
  <2>4. \A i \in 1 .. Len(w) + 1 : i \in 1 .. Len(w) \/ i = Len(w) + 1
    OBVIOUS
  <2>5. a = [i \in 1 .. Len(w) + 1 |-> IF i = Len(w) + 1 THEN m ELSE w[i]]
    BY <2>2, <2>3, <2>4
  <2> QED
    BY <2>1, <2>5
<1>6. ASSUME w # <<>>
      PROVE  /\ Len(w) > 0 /\ Head(w) = w[1] /\ Len(Tail(w)) = Len(w) - 1
             /\ Tail(w) = [i \in 1 .. Len(w) - 1 |-> w[i + 1]]
  <2>1. /\ Tail(w) \in Seq(R) /\ Len(Tail(w)) = Len(w) - 1 /\ Head(w) = w[1]
        /\ \A i \in 1 .. Len(w) - 1 : Tail(w)[i] = w[i + 1]
    BY <1>2, <1>6, HeadTailProperties
  <2>2. Tail(w) \in [1 .. Len(w) - 1 -> R]
    BY <2>1, LenProperties
  <2>3. Len(w) > 0
    BY <1>2, <1>6, EmptySeq
  <2> QED
    BY <2>1, <2>2, <2>3
<1> QED
  BY <1>4, <1>5, <1>6

LEMMA PlaceMoves ==
  ASSUME [Next]_vars
  PROVE  \/ place' = place
         \/ addTranscriptEntries /\ ingestAndBroadcast
         \/ addTranscriptEntries /\ Resend
<1> QED
  BY DEF Next, vars, broker, ingestAndBroadcast, Resend, Open, channelSubscribe, Disconnect, Restart,
         SyncCheck, Deliver, Serve, Apply, Fail

\* The line to the panel: a broadcast is that of the row stored with it.
SendsTo(m) == /\ wire' = Append(wire, m) /\ SendOK(m)'
              /\ m.type = "live" => m = Live(Len(place')) /\ addTranscriptEntries
              /\ m.type # "live" => UNCHANGED panel /\ UNCHANGED fetch

LEMMA WireMoves ==
  ASSUME TInv, [Next]_vars
  PROVE  \/ wire' \in {wire, <<>>}
         \/ wire # <<>> /\ wire' = Tail(wire) /\ place' = place
         \/ \E m : SendsTo(m)
<1>0. /\ Len(place) \in Nat /\ Stored = 1 .. Len(place) /\ Numbers = 0 .. Len(place)
      /\ counter \in Numbers
  BY RecordSets DEF TInv, Numbers
<1>1. CASE ingestAndBroadcast
  <2>1. CASE wire' = Append(wire, Live(Len(place')))
    <3>1. Len(place') = Len(place) + 1
      BY <1>1, RecordGrows DEF ingestAndBroadcast, TInv
    <3>2. PICK m : m = Live(Len(place'))
      OBVIOUS
    <3>3. SendOK(m)'
      BY <1>0, <3>1, <3>2 DEF SendOK, Live, Stored, Numbers
    <3> QED
      BY <1>1, <2>1, <3>2, <3>3 DEF SendsTo, ingestAndBroadcast, Live
  <2> QED
    BY <1>1, <2>1 DEF ingestAndBroadcast
<1>2. CASE Resend
  <2>1. PICK S \in SUBSET (1 .. Len(place')) : wire' = Append(wire, Initial(S))
    BY <1>2 DEF Resend
  <2>2. Len(place') \in Nat
    BY <1>0, <1>2, RecordGrows DEF Resend, TInv
  <2>3. SendOK(Initial(S))'
    BY <2>2 DEF SendOK, Initial, Stored, Numbers
  <2> QED
    BY <1>2, <2>1, <2>3 DEF SendsTo, Resend, Initial
<1>3. CASE SyncCheck
  <2>1. PICK type \in {"sync_ok", "sync_stale"} : wire' = handleSyncCheck(type)
    BY <1>3 DEF SyncCheck
  <2>2. (IF counter > floor THEN counter ELSE 0) \in Numbers
    BY <1>0
  <2>3. Numbers' = Numbers /\ Stored' = Stored
    BY <1>3 DEF SyncCheck, broker, Numbers, Stored
  <2>4. PICK m : m = Answer(type, IF counter > floor THEN counter ELSE 0)
    OBVIOUS
  <2>5. SendOK(m)' /\ m.type # "live"
    BY <2>2, <2>3, <2>4 DEF SendOK, Answer
  <2> QED
    BY <1>3, <2>1, <2>4, <2>5 DEF SendsTo, SyncCheck, handleSyncCheck
<1>4. CASE Deliver
  BY <1>4 DEF Deliver, broker
<1> QED
  BY <1>1, <1>2, <1>3, <1>4
     DEF Next, vars, Open, channelSubscribe, Disconnect, Restart, Serve, Apply, Fail

\* What the panel shows: a batch from the line, an answer that makes it
\* forget its floor, a full answer, a delta.
TakesBatch  == /\ wire # <<>> /\ wire' = Tail(wire) /\ place' = place /\ UNCHANGED fetch
               /\ Head(wire).type \in {"live", "initial"}
               /\ handleTranscriptEntries(Head(wire).entries, Head(wire).type = "initial")
TakesFull(k)  == /\ fetch[k].state = "served" /\ UNCHANGED <<place, wire>>
                 /\ fetch' = [fetch EXCEPT ![k] = Free] /\ setTranscript(fetch[k].entries)
TakesDelta(k) == /\ fetch[k].state = "served" /\ UNCHANGED <<place, wire>>
                 /\ fetch' = [fetch EXCEPT ![k] = Free]
                 /\ applyRefetchedDelta(fetch[k].entries, fetch[k].last)
ForgetsFloor  == UNCHANGED <<place, held>> /\ floor' = 0

LEMMA PanelMoves ==
  ASSUME [Next]_vars
  PROVE  \/ UNCHANGED panel
         \/ TakesBatch \/ ForgetsFloor
         \/ \E k \in Fetches : TakesFull(k) \/ TakesDelta(k)
<1>1. CASE Deliver
  BY <1>1 DEF Deliver, TakesBatch, ForgetsFloor, HandleAnswer, broker
<1>2. ASSUME NEW k \in Fetches, Apply(k) PROVE TakesFull(k) \/ TakesDelta(k)
  BY <1>2 DEF Apply, TakesFull, TakesDelta, broker
<1> QED
  BY <1>1, <1>2 DEF Next, vars, ingestAndBroadcast, Resend, SyncCheck, Open, channelSubscribe, Disconnect,
     Restart, Serve, Fail

\* A request is made, forgotten or answered; one for a delta is made on the
\* answer to a check that found rows above the floor.
AsksDelta(k) == /\ wire # <<>> /\ wire' = Tail(wire) /\ place' = place
                /\ Head(wire).seq > floor /\ fetch'[k] = Delta(floor)
Answered(k)  == /\ fetch[k].state = "asked" /\ UNCHANGED <<place, wire, panel>>
                /\ fetch'[k] = IF fetch[k].full THEN FullAnswer ELSE DeltaAnswer(fetch[k].since)

LEMMA AskSets ==
  ASSUME NEW fs, fs = [k \in Fetches |-> fs[k]], NEW request
  PROVE  /\ Ask(fs, request) = [k \in Fetches |-> Ask(fs, request)[k]]
         /\ \A k \in Fetches : Ask(fs, request)[k] \in {request, fs[k]}
<1> QED
  BY DEF Ask

LEMMA FetchMoves ==
  ASSUME TInv, [Next]_vars
  PROVE  /\ fetch' = [k \in Fetches |-> fetch'[k]]
         /\ \A k \in Fetches :
              \/ fetch'[k] \in {fetch[k], Free, FullFetch}
              \/ AsksDelta(k)
              \/ Answered(k)
<1>0. fetch = [k \in Fetches |-> fetch[k]]
  BY DEF TInv
<1>1. CASE UNCHANGED fetch
  BY <1>0, <1>1
<1>2. CASE Open
  <2>1. fetch' = Ask(fetch, FullFetch)
    BY <1>2 DEF Open, fetchConversationData
  <2> QED
    BY <1>0, <2>1, AskSets
<1>3. CASE Restart
  BY <1>0, <1>3 DEF Restart
<1>4. CASE Deliver
  <2> DEFINE m  == Head(wire)
             fs == IF m.seq > floor THEN Ask(fetch, Delta(floor)) ELSE fetch
  <2>1. fs = [k \in Fetches |-> fs[k]] /\ \A k \in Fetches : fs[k] = fetch[k] \/ (m.seq > floor /\ fs[k] = Delta(floor))
    BY <1>0, AskSets
  <2>2. \/ UNCHANGED fetch
        \/ fetch' = fs
        \/ fetch' = Ask(fs, FullFetch)
    BY <1>4 DEF Deliver, HandleAnswer, fetchConversationData
  <2>3. wire # <<>> /\ wire' = Tail(wire) /\ place' = place
    BY <1>4 DEF Deliver, broker
  <2> HIDE DEF fs
  <2>4. /\ fetch' = [k \in Fetches |-> fetch'[k]]
        /\ \A k \in Fetches : fetch'[k] \in {fetch[k], FullFetch, fs[k]}
    BY <1>0, <2>1, <2>2, AskSets
  <2> QED
    BY <2>1, <2>3, <2>4 DEF AsksDelta
<1>5. ASSUME NEW k \in Fetches, Serve(k)
      PROVE  /\ fetch' = [j \in Fetches |-> fetch'[j]]
             /\ \A j \in Fetches : fetch'[j] \in {fetch[j], Free} \/ Answered(j)
  BY <1>0, <1>5 DEF Serve, Answered
<1>6. ASSUME NEW k \in Fetches, Apply(k) \/ Fail(k)
      PROVE  /\ fetch' = [j \in Fetches |-> fetch'[j]]
             /\ \A j \in Fetches : fetch'[j] \in {fetch[j], Free}
  BY <1>0, <1>6 DEF Apply, Fail
<1> QED
  BY <1>1, <1>2, <1>3, <1>4, <1>5, <1>6
     DEF Next, vars, ingestAndBroadcast, Resend, SyncCheck, channelSubscribe, Disconnect

(***************************************************************************)
(* Nothing comes back: a row that is not on the way any more, or that is   *)
(* not among the last ones, stays so.                                      *)
(***************************************************************************)
LEMMA Forward ==
  ASSUME TInv, [Next]_vars
  PROVE  /\ PlaceOK' /\ Len(place) \in Nat /\ Len(place') \in Nat /\ Len(place) <= Len(place')
         /\ Stored = 1 .. Len(place) /\ Stored' = 1 .. Len(place') /\ Stored \subseteq Stored'
         /\ Numbers = 0 .. Len(place) /\ Numbers' = 0 .. Len(place') /\ Numbers \subseteq Numbers'
         /\ \A n \in Stored : (n \in Kept' => n \in Kept) /\ (n \in Returned' => n \in Returned)
<1>1. PlaceOK /\ Len(place) \in Nat
  BY RecordSets DEF TInv
<1>2. CASE place' = place
  <2>1. PlaceOK' /\ Stored' = Stored /\ Kept' = Kept /\ Returned' = Returned
    BY <1>1, <1>2 DEF PlaceOK, Stored, Kept, pruneLiveTranscript, LastOf, After, Returned, Visible
  <2> QED
    BY <1>1, <1>2, <2>1 DEF Stored, Numbers
<1>3. CASE addTranscriptEntries
  <2>1. PlaceOK' /\ Len(place') = Len(place) + 1
    BY <1>1, <1>3, RecordGrows
  <2>2. \A n \in Stored : (n \in Kept' => n \in Kept) /\ (n \in Returned' => n \in Returned)
    BY <1>1, <1>3, LastBefore
  <2> QED
    BY <1>1, <2>1, <2>2 DEF Stored, Numbers
<1> QED
  BY <1>2, <1>3, PlaceMoves

\* The shape of the line after a step.
LEMMA LineMoves ==
  ASSUME TInv, [Next]_vars
  PROVE  /\ wire' = [i \in 1 .. Len(wire') |-> wire'[i]] /\ Len(wire') \in Nat
         /\ \/ \A i \in 1 .. Len(wire') : i \in 1 .. Len(wire) /\ wire'[i] = wire[i]
            \/ \A i \in 1 .. Len(wire') : i + 1 \in 1 .. Len(wire) /\ wire'[i] = wire[i + 1]
            \/ \E m : /\ SendsTo(m) /\ Len(wire') = Len(wire) + 1 /\ wire'[Len(wire')] = m
                     /\ \A i \in 1 .. Len(wire) : wire'[i] = wire[i]
<1>1. wire = [i \in 1 .. Len(wire) |-> wire[i]] /\ Len(wire) \in Nat
  BY DEF TInv
<1>2. CASE wire' = wire
  BY <1>1, <1>2
<1>3. CASE wire' = <<>>
  <2>1. PICK w : w = <<>>
    OBVIOUS
  <2>2. Len(w) = 0 /\ w = [i \in 1 .. Len(w) |-> w[i]] /\ 1 .. Len(w) = {}
    BY <2>1
  <2>3. wire' = w
    BY <1>3, <2>1
  <2>4. Len(wire') \in Nat /\ wire' = [i \in 1 .. Len(wire') |-> wire'[i]]
    BY <2>2, <2>3
  <2>5. \A i \in 1 .. Len(wire') : i \in 1 .. Len(wire) /\ wire'[i] = wire[i]
    BY <2>2, <2>3
  <2> QED
    BY <2>4, <2>5
<1>4. CASE wire # <<>> /\ wire' = Tail(wire) /\ place' = place
  <2>1. /\ Len(wire) > 0 /\ Len(wire') = Len(wire) - 1
        /\ wire' = [i \in 1 .. Len(wire) - 1 |-> wire[i + 1]]
    BY <1>1, <1>4, LineSteps
  <2>2. Len(wire') \in Nat /\ wire' = [i \in 1 .. Len(wire') |-> wire'[i]]
    BY <1>1, <2>1
  <2>3. \A i \in 1 .. Len(wire') : i \in 1 .. Len(wire) - 1
    BY <1>1, <2>1
  <2>4. \A i \in 1 .. Len(wire) - 1 : wire'[i] = wire[i + 1] /\ i + 1 \in 1 .. Len(wire)
    BY <1>1, <2>1
  <2> QED
    BY <2>2, <2>3, <2>4
<1>5. CASE \E m : SendsTo(m)
  <2>1. PICK m : SendsTo(m)
    BY <1>5
  <2>2. /\ Len(wire') = Len(wire) + 1
        /\ wire' = [i \in 1 .. Len(wire) + 1 |-> IF i = Len(wire) + 1 THEN m ELSE wire[i]]
    BY <1>1, <2>1, LineSteps DEF SendsTo
  <2>3. Len(wire) + 1 \in 1 .. Len(wire) + 1 /\ \A i \in 1 .. Len(wire) : i # Len(wire) + 1 /\ i \in 1 .. Len(wire) + 1
    BY <1>1
  <2>4. wire'[Len(wire')] = m /\ \A i \in 1 .. Len(wire) : wire'[i] = wire[i]
    BY <2>2, <2>3
  <2> QED
    BY <1>1, <2>1, <2>2, <2>4
<1> QED
  BY <1>2, <1>3, <1>4, <1>5, WireMoves

LEMMA StillOnTheWay ==
  ASSUME TInv, [Next]_vars, NEW n \in Stored
  PROVE  /\ OnTheWay(n)' => OnTheWay(n)
         /\ n = Len(place') => n = Len(place)
         /\ Watched(n)' => Watched(n)
<1>1. /\ Len(place) \in Nat /\ Len(place') \in Nat /\ Len(place) <= Len(place') /\ Stored = 1 .. Len(place)
      /\ (n \in Kept' => n \in Kept) /\ (n \in Returned' => n \in Returned) /\ Len(wire) \in Nat
  BY Forward DEF TInv
<1>2. n = Len(place') => n = Len(place)
  BY <1>1
<1>3. ASSUME OnTheWay(n)' PROVE OnTheWay(n)
  <2>1. PICK i \in 1 .. Len(wire') : wire'[i].type = "live" /\ n \in wire'[i].entries
    BY <1>3 DEF OnTheWay
  <2>2. CASE \E j \in 1 .. Len(wire) : wire'[i] = wire[j]
    BY <2>1, <2>2 DEF OnTheWay
  <2>3. ASSUME NEW m, SendsTo(m), wire'[i] = m PROVE FALSE
    <3>1. m = Live(Len(place')) /\ Len(place') = Len(place) + 1
      BY <2>1, <2>3, RecordGrows DEF SendsTo, TInv
    <3> QED
      BY <1>1, <2>1, <2>3, <3>1 DEF Live
  <2>4. i \in 1 .. Len(wire) \/ i = Len(wire') \/ i + 1 \in 1 .. Len(wire) \/ Len(wire') # Len(wire) + 1
    BY <1>1, <2>1
  <2> QED
    BY <2>1, <2>2, <2>3, <2>4, LineMoves
<1> QED
  BY <1>1, <1>2, <1>3 DEF Watched

(***************************************************************************)
(* Types, and the order on the line.                                       *)
(***************************************************************************)
LEMMA PanelKeepsType ==
  ASSUME TInv, [Next]_vars
  PROVE  held' \subseteq Stored /\ floor' \in Numbers
<1>1. PlaceOK /\ held \subseteq Stored /\ floor \in Numbers
  BY DEF TInv
<1>2. Stored \subseteq Numbers /\ 0 \in Numbers
  <2>1. Len(place) \in Nat /\ Stored \subseteq Numbers
    BY RecordSets DEF TInv
  <2> QED
    BY <2>1 DEF Numbers
<1>3. \A S \in SUBSET Stored : Newest(S) \in Numbers
  <2> SUFFICES ASSUME NEW S \in SUBSET Stored PROVE Newest(S) \in Numbers
    OBVIOUS
  <2>1. Newest(S) \in S \cup {0}
    BY <1>1, NewestIn
  <2> QED
    BY <1>2, <2>1
<1>4. \A a, b \in Numbers : Larger(a, b) \in Numbers
  BY DEF Larger
<1>5. \A S : pruneLiveTranscript(S) \subseteq S
  BY DEF pruneLiveTranscript, LastOf
<1>6. CASE TakesBatch
  <2> DEFINE E  == Head(wire).entries
             in == Head(wire).type = "initial"
             A  == applyTranscriptBatch(E, in)
  <2>1. E \subseteq Stored
    <3>1. Len(wire) > 0 /\ Head(wire) = wire[1] /\ Len(wire) \in Nat
      BY <1>6, LineSteps DEF TakesBatch, TInv
    <3> QED
      BY <3>1 DEF TInv, SendOK
  <2>2. A \in SUBSET Stored /\ pruneLiveTranscript(A) \in SUBSET Stored
    BY <1>1, <1>5, <2>1 DEF applyTranscriptBatch
  <2>3. UNCHANGED panel \/ \E S \in SUBSET Stored : held' = S /\ floor' \in {Newest(S), Larger(floor, Newest(S))}
    BY <1>6, <2>2 DEF TakesBatch, handleTranscriptEntries
  <2> QED
    BY <1>1, <1>3, <1>4, <2>3 DEF panel
<1>7. ASSUME NEW k \in Fetches, TakesFull(k) \/ TakesDelta(k)
      PROVE  held' \subseteq Stored /\ floor' \in Numbers
  <2>1. fetch[k].entries \in SUBSET Stored /\ fetch[k].last \in Numbers
    BY DEF TInv, RequestOK
  <2>2. CASE TakesFull(k)
    BY <1>1, <1>3, <2>1, <2>2 DEF TakesFull, setTranscript, panel
  <2>3. CASE TakesDelta(k)
    <3> DEFINE A == applyTranscriptBatch(fetch[k].entries, FALSE)
    <3>1. A \subseteq Stored
      BY <1>1, <2>1 DEF applyTranscriptBatch
    <3>2. \A S \in SUBSET Stored : pruneLiveTranscript(S) \in SUBSET Stored
      BY <1>5
    <3> QED
      BY <1>1, <1>4, <3>2, <2>1, <2>3, <3>1 DEF TakesDelta, applyRefetchedDelta
  <2> QED
    BY <1>7, <2>2, <2>3
<1>8. CASE UNCHANGED panel \/ ForgetsFloor
  BY <1>1, <1>2, <1>8 DEF panel, ForgetsFloor
<1> QED
  BY <1>6, <1>7, <1>8, PanelMoves

\* The greatest row of a batch that is sent again.
LEMMA BatchCounter ==
  ASSUME NEW N \in Nat, NEW S \in (SUBSET (1 .. N)) \ {{}}
  PROVE  (CHOOSE n \in S : \A m \in S : m <= n) \in 0 .. N
<1>1. S \subseteq 1 .. N
  OBVIOUS
<1>2. 1 .. N \subseteq 0 .. N
  OBVIOUS
<1>3. S \in SUBSET (0 .. N) /\ S # {}
  BY <1>1, <1>2, Zenon
<1>4. \E n \in S : \A m \in S : m <= n
  BY <1>3, GreatestNumber
<1>5. \A n \in S : n \in 0 .. N
  BY <1>3, Zenon
<1> QED
  BY <1>4, <1>5

LEMMA CounterKeepsType ==
  ASSUME TInv, [Next]_vars
  PROVE  counter' \in Numbers'
<1>1. /\ Len(place) \in Nat /\ Len(place') \in Nat /\ Numbers' = 0 .. Len(place') /\ Numbers \subseteq Numbers'
      /\ counter \in Numbers
  BY Forward DEF TInv
<1>2. \A a, b \in Numbers' : Larger(a, b) \in Numbers'
  BY DEF Larger
<1>3. 0 \in Numbers' /\ Len(place') \in Numbers' /\ counter \in Numbers'
  BY <1>1
<1>4. CASE ingestAndBroadcast
  BY <1>3, <1>4 DEF ingestAndBroadcast
<1>5. CASE Resend
  <2>1. PICK S \in (SUBSET (1 .. Len(place'))) \ {{}} :
          counter' = Larger(counter, CHOOSE n \in S : \A m \in S : m <= n)
    BY <1>5 DEF Resend

  <2> DEFINE g == CHOOSE n \in S : \A m \in S : m <= n
  <2>2. g \in 0 .. Len(place')
    BY <1>1, BatchCounter
  <2> HIDE DEF g
  <2>3. g \in Numbers'
    BY <1>1, <2>2
  <2> QED
    BY <1>2, <1>3, <2>1, <2>3 DEF g
<1>6. CASE Restart
  BY <1>3, <1>6 DEF Restart
<1>7. ASSUME NEW k \in Fetches, Serve(k) PROVE counter' \in Numbers'
  <2>1. Newest(Stored) \in Numbers
    BY RecordSets DEF TInv
  <2> QED
    BY <1>1, <1>2, <1>3, <1>7, <2>1 DEF Serve, loadTranscriptFromStore
<1>8. CASE UNCHANGED counter
  BY <1>3, <1>8
<1> QED
  BY <1>4, <1>5, <1>6, <1>7, <1>8
     DEF Next, vars, broker, Open, channelSubscribe, Disconnect, SyncCheck, Deliver, Apply, Fail

LEMMA LineKeepsType ==
  ASSUME TInv, [Next]_vars
  PROVE  \A i \in 1 .. Len(wire') : SendOK(wire[i])'
<1>1. \A i \in 1 .. Len(wire) : SendOK(wire[i])
  BY DEF TInv
<1>2. \A x : SendOK(x) => SendOK(x)'
  BY Forward DEF SendOK
<1>3. SUFFICES ASSUME NEW i \in 1 .. Len(wire') PROVE SendOK(wire[i])'
  OBVIOUS
<1>4. ASSUME NEW j \in 1 .. Len(wire), wire'[i] = wire[j] PROVE SendOK(wire[i])'
  BY <1>1, <1>2, <1>4 DEF SendOK
<1>5. ASSUME NEW m, SendsTo(m), wire'[i] = m PROVE SendOK(wire[i])'
  BY <1>5 DEF SendsTo, SendOK
<1>6. Len(wire) \in Nat /\ (Len(wire') = Len(wire) + 1 => i \in 1 .. Len(wire) \/ i = Len(wire'))
  BY DEF TInv
<1> QED
  BY <1>4, <1>5, <1>6, LineMoves

LEMMA FetchKeepsType ==
  ASSUME TInv, [Next]_vars, NEW k \in Fetches
  PROVE  /\ fetch'[k].state \in {"free", "asked", "served"}
         /\ {fetch'[k].since, fetch'[k].last} \subseteq Numbers /\ fetch'[k].entries \subseteq Stored
<1>1. RequestOK(fetch[k]) /\ floor \in Numbers
  BY DEF TInv
<1>2. 0 \in Numbers /\ Stored \subseteq Numbers
  <2>1. Len(place) \in Nat /\ Stored \subseteq Numbers
    BY RecordSets DEF TInv
  <2> QED
    BY <2>1 DEF Numbers
<1>3. CASE fetch'[k] \in {fetch[k], Free, FullFetch}
  <2>1. Free.state = "free" /\ Free.since = 0 /\ Free.last = 0 /\ Free.entries = {}
    BY DEF Free
  <2>2. FullFetch.state = "asked" /\ FullFetch.since = 0 /\ FullFetch.last = 0 /\ FullFetch.entries = {}
    BY DEF Free, FullFetch
  <2>3. \A f \in {Free, FullFetch} : f.state \in {"free", "asked"} /\ f.since = 0 /\ f.last = 0 /\ f.entries = {}
    BY <2>1, <2>2
  <2>4. CASE fetch'[k] = fetch[k]
    BY <1>1, <2>4 DEF RequestOK
  <2> QED
    BY <1>2, <1>3, <2>3, <2>4
<1>4. CASE AsksDelta(k)
  BY <1>1, <1>2, <1>4 DEF AsksDelta, Delta, Free
<1>5. CASE Answered(k)
  <2>1. /\ FullAnswer.state = "served" /\ FullAnswer.since = 0 /\ FullAnswer.last = 0
        /\ FullAnswer.entries = Returned /\ Returned \subseteq Stored /\ Visible \subseteq Stored
        /\ Newest(Visible) \in Numbers
    BY <1>2, RecordSets DEF FullAnswer, FullFetch, Free, TInv
  <2>2. ASSUME NEW q PROVE /\ DeltaAnswer(q).state = "served" /\ DeltaAnswer(q).since = q
                           /\ DeltaAnswer(q).last = Newest(Visible)
                           /\ DeltaAnswer(q).entries = {n \in Visible : n > q}
    BY DEF DeltaAnswer, Delta, Free
  <2>3. \A q : DeltaAnswer(q).entries \subseteq Stored
    BY <2>1, <2>2
  <2>4. CASE fetch'[k] = FullAnswer
    BY <1>2, <2>1, <2>4
  <2>5. CASE fetch'[k] = DeltaAnswer(fetch[k].since)
    BY <1>1, <2>1, <2>2, <2>3, <2>5 DEF RequestOK
  <2> QED
    BY <1>5, <2>4, <2>5 DEF Answered
<1> QED
  BY <1>3, <1>4, <1>5, FetchMoves

LEMMA TypeStep ==
  ASSUME TInv, [Next]_vars
  PROVE  TInv'
<1>1. PlaceOK' /\ Stored \subseteq Stored' /\ Numbers \subseteq Numbers'
  BY Forward
<1>2. counter' \in Numbers' /\ held' \subseteq Stored' /\ floor' \in Numbers'
  BY <1>1, CounterKeepsType, PanelKeepsType
<1>3. wire' = [i \in 1 .. Len(wire') |-> wire'[i]] /\ Len(wire') \in Nat
  BY LineMoves
<1>4. fetch' = [k \in Fetches |-> fetch'[k]]
  BY FetchMoves
<1>5. \A k \in Fetches : RequestOK(fetch[k])'
  BY <1>1, FetchKeepsType DEF RequestOK
<1> QED
  BY <1>1, <1>2, <1>3, <1>4, <1>5, LineKeepsType DEF TInv

LEMMA LineStep ==
  ASSUME TInv, LineInv, [Next]_vars
  PROVE  LineInv'
<1>1. SUFFICES ASSUME NEW i \in 1 .. Len(wire'), NEW j \in 1 .. Len(wire'), i < j, wire'[j].type = "live",
                      NEW n \in wire'[j].entries
               PROVE  wire'[i].seq < n /\ \A y \in wire'[i].entries : y < n
  BY DEF LineInv
<1>2. Len(wire) \in Nat /\ Len(wire') \in Nat
  BY LineMoves DEF TInv
<1>3. ASSUME NEW a \in 1 .. Len(wire), NEW b \in 1 .. Len(wire), a < b, wire'[i] = wire[a], wire'[j] = wire[b]
      PROVE  wire'[i].seq < n /\ \A y \in wire'[i].entries : y < n
  BY <1>1, <1>3 DEF LineInv
<1>4. ASSUME NEW m, SendsTo(m), wire'[j] = m, NEW a \in 1 .. Len(wire), wire'[i] = wire[a]
      PROVE  wire'[i].seq < n /\ \A y \in wire'[i].entries : y < n
  <2>1. m = Live(Len(place')) /\ Len(place') = Len(place) + 1
    BY <1>1, <1>4, RecordGrows DEF SendsTo, TInv
  <2>2. n = Len(place) + 1
    BY <1>4, <2>1 DEF Live
  <2>3. SendOK(wire[a]) /\ Len(place) \in Nat
    BY RecordSets DEF TInv
  <2>4. wire[a].seq < n
    BY <2>2, <2>3 DEF SendOK, Numbers
  <2>5. \A y \in Stored : y < n
    BY <2>2, <2>3 DEF Stored
  <2> QED
    BY <1>4, <2>3, <2>4, <2>5 DEF SendOK
<1>5. CASE \A x \in 1 .. Len(wire') : x \in 1 .. Len(wire) /\ wire'[x] = wire[x]
  BY <1>1, <1>3, <1>5
<1>6. CASE \A x \in 1 .. Len(wire') : x + 1 \in 1 .. Len(wire) /\ wire'[x] = wire[x + 1]
  <2>1. i + 1 < j + 1
    BY <1>1
  <2> QED
    BY <1>3, <1>6, <2>1
<1>7. ASSUME NEW m, SendsTo(m), Len(wire') = Len(wire) + 1, wire'[Len(wire')] = m,
             \A x \in 1 .. Len(wire) : wire'[x] = wire[x]
      PROVE  wire'[i].seq < n /\ \A y \in wire'[i].entries : y < n
  <2>1. i \in 1 .. Len(wire) /\ (j \in 1 .. Len(wire) \/ j = Len(wire'))
    BY <1>1, <1>2, <1>7
  <2> QED
    BY <1>1, <1>3, <1>4, <1>7, <2>1
<1> QED
  BY <1>5, <1>6, <1>7, LineMoves

(***************************************************************************)
(* The requests and their answers.                                         *)
(***************************************************************************)
\* A row that is stored now lies past all the rows and numbers there were.
LEMMA NewRow ==
  ASSUME TInv, [Next]_vars, NEW n \in Stored', n \notin Stored
  PROVE  \A y \in Numbers : y < n
<1>1. Len(place) \in Nat /\ Len(place') \in Nat /\ n \in 1 .. Len(place') /\ n \notin 1 .. Len(place)
      /\ Numbers = 0 .. Len(place)
  BY Forward
<1> QED
  BY <1>1

LEMMA AskStep ==
  ASSUME TInv, LineInv, AskInv, [Next]_vars
  PROVE  AskInv'
<1>1. SUFFICES ASSUME NEW k \in Fetches, fetch'[k].state # "free", NEW n \in Stored', OnTheWay(n)' \/ n = Len(place')
               PROVE  fetch'[k].since < n
  BY DEF AskInv
<1>2. fetch'[k].since \in Numbers
  BY FetchKeepsType
<1>3. CASE n \notin Stored
  BY <1>2, <1>3, NewRow
<1>4. CASE n \in Stored
  <2>1. OnTheWay(n) \/ n = Len(place)
    BY <1>1, <1>4, StillOnTheWay
  <2>2. n > 0 /\ n \in Nat
    BY <1>4, RecordSets DEF TInv
  <2>3. CASE fetch'[k].state # "free" /\ fetch'[k].since = fetch[k].since /\ fetch[k].state # "free"
    BY <1>4, <2>1, <2>3 DEF AskInv
  <2>4. CASE fetch'[k].since = 0
    BY <2>2, <2>4
  <2>5. CASE fetch'[k] \in {fetch[k], Free, FullFetch}
    <3>1. Free.state = "free" /\ FullFetch.since = 0
      BY DEF Free, FullFetch
    <3> QED
      BY <1>1, <2>3, <2>4, <2>5, <3>1
  <2>6. CASE AsksDelta(k)
    <3>1. Len(wire) \in Nat /\ Len(wire) > 0 /\ Head(wire) = wire[1]
          /\ Len(wire') = Len(wire) - 1 /\ wire' = [i \in 1 .. Len(wire) - 1 |-> wire[i + 1]]
      BY <2>6, LineSteps DEF AsksDelta, TInv
    <3>2. wire[1].seq \in Numbers /\ floor \in Numbers /\ Numbers = 0 .. Len(place) /\ Len(place) \in Nat
      BY <3>1, Forward DEF TInv, SendOK
    <3>3. wire[1].seq <= n
      <4>1. CASE n = Len(place')
        BY <2>6, <3>2, <4>1 DEF AsksDelta
      <4>2. CASE OnTheWay(n)'
        <5>1. PICK i \in 1 .. Len(wire') : wire'[i].type = "live" /\ n \in wire'[i].entries
          BY <4>2 DEF OnTheWay
        <5>2. 1 \in 1 .. Len(wire) /\ i + 1 \in 1 .. Len(wire) /\ 1 < i + 1 /\ wire'[i] = wire[i + 1]
          BY <3>1, <5>1
        <5>3. wire[1].seq < n
          BY <5>1, <5>2 DEF LineInv
        <5> QED
          BY <2>2, <3>2, <5>3
      <4> QED
        BY <1>1, <4>1, <4>2
    <3>4. fetch'[k].since = floor /\ wire[1].seq > floor
      BY <2>6, <3>1 DEF AsksDelta, Delta, Free
    <3> QED
      BY <2>2, <3>2, <3>3, <3>4
  <2>7. CASE Answered(k)
    <3>1. FullAnswer.since = 0 /\ DeltaAnswer(fetch[k].since).since = fetch[k].since
      BY DEF FullAnswer, FullFetch, DeltaAnswer, Delta, Free
    <3>2. fetch[k].state # "free"
      BY <2>7 DEF Answered
    <3> QED
      BY <1>1, <2>3, <2>4, <2>7, <3>1, <3>2 DEF Answered
  <2> QED
    BY <2>5, <2>6, <2>7, FetchMoves
<1> QED
  BY <1>3, <1>4

\* What an answer shows of a watched row.
LEMMA AnswersCover ==
  ASSUME TInv, NEW n \in Stored, Watched(n)
  PROVE  /\ Covers(Returned, 0, n)
         /\ \A q \in Numbers : q < n => Covers({x \in Visible : x > q}, Newest(Visible), n)
<1>1. /\ Len(place) \in Nat /\ Returned \subseteq Visible /\ Visible \subseteq Stored
      /\ Newest(Visible) \in Visible \cup {0} /\ n \in 1 .. Len(place)
  BY RecordSets DEF TInv
<1>2. \A x \in Visible : x <= Len(place) /\ x \in Nat
  BY <1>1 DEF Stored
<1>3. n \in Returned \/ n = Len(place)
  BY DEF Watched
<1>4. \A y \in Visible \cup {0} : y >= n => n \in Visible /\ (y \in Returned => n \in Returned)
  BY <1>1, <1>2, <1>3
<1>5. Covers(Returned, 0, n)
  BY <1>1, <1>4 DEF Covers
<1>6. ASSUME NEW q \in Numbers, q < n PROVE Covers({x \in Visible : x > q}, Newest(Visible), n)
  BY <1>1, <1>4, <1>6 DEF Covers, Numbers
<1> QED
  BY <1>5, <1>6

LEMMA AnsStep ==
  ASSUME TInv, AskInv, AnsInv, [Next]_vars
  PROVE  AnsInv'
<1>1. SUFFICES ASSUME NEW k \in Fetches, fetch'[k].state = "served", NEW n \in Stored', Watched(n)'
               PROVE  Covers(fetch'[k].entries, fetch'[k].last, n)
  BY DEF AnsInv, Covers
<1>2. CASE n \notin Stored
  <2>1. fetch'[k].entries \subseteq Stored /\ fetch'[k].last \in Numbers /\ Stored \subseteq Numbers
    BY FetchKeepsType, RecordSets DEF TInv
  <2>2. \A y \in Numbers : y < n /\ y \in Nat
    BY <1>2, NewRow, Forward
  <2>3. n \in Nat
    BY Forward
  <2>4. \A y \in Numbers : ~ (y >= n)
    BY <2>2, <2>3
  <2> QED
    BY <2>1, <2>4 DEF Covers
<1>3. CASE n \in Stored
  <2>1. Watched(n)
    BY <1>1, <1>3, StillOnTheWay
  <2>2. CASE fetch'[k] \in {fetch[k], Free, FullFetch}
    <3>1. Free.state = "free" /\ FullFetch.state = "asked"
      BY DEF Free, FullFetch
    <3>2. fetch'[k] = fetch[k]
      BY <1>1, <2>2, <3>1
    <3> QED
      BY <1>1, <1>3, <2>1, <3>2 DEF AnsInv
  <2>3. CASE AsksDelta(k)
    BY <1>1, <2>3 DEF AsksDelta, Delta, Free
  <2>4. CASE Answered(k)
    <3>1. FullAnswer.entries = Returned /\ FullAnswer.last = 0
      BY RecordSets DEF FullAnswer, FullFetch, Free, TInv
    <3> DEFINE q == fetch[k].since
    <3>2. DeltaAnswer(q).entries = {x \in Visible : x > q} /\ DeltaAnswer(q).last = Newest(Visible)
      BY DEF DeltaAnswer, Delta, Free
    <3>3. q \in Numbers
      BY DEF TInv, RequestOK
    <3>4. q < n
      BY <1>3, <2>1, <2>4 DEF AskInv, Answered, Watched
    <3>5. Covers(Returned, 0, n) /\ Covers({x \in Visible : x > q}, Newest(Visible), n)
      BY <1>3, <2>1, <3>3, <3>4, AnswersCover
    <3>6. fetch'[k] = FullAnswer \/ fetch'[k] = DeltaAnswer(q)
      BY <2>4 DEF Answered
    <3> QED
      BY <3>1, <3>2, <3>5, <3>6
  <2> QED
    BY <2>2, <2>3, <2>4, FetchMoves
<1> QED
  BY <1>2, <1>3

(***************************************************************************)
(* What the panel shows.                                                   *)
(***************************************************************************)
\* Rows that are added, all of them or those above the floor, leave the row
\* covered if they and the number they raise the floor to do.
LEMMA MergeCovers ==
  ASSUME TInv, NEW n \in Stored, Covers(held, floor, n),
         NEW E, NEW q \in Numbers, E \subseteq Stored, Covers(E, q, n)
  PROVE  /\ Covers(held \cup {x \in E : x > floor}, Larger(floor, q), n)
         /\ Covers(held \cup E, 0, n)
<1>1. /\ n \in Nat /\ n > 0 /\ floor \in Nat /\ q \in Nat
  BY Forward, RecordSets DEF TInv, Numbers
<1>2. Larger(floor, q) \in {floor, q}
  BY DEF Larger
<1>3. ~ (0 >= n)
  BY <1>1
<1>4. n \in E => n \in held \cup {x \in E : x > floor}
  BY <1>1 DEF Covers
<1> QED
  BY <1>2, <1>3, <1>4 DEF Covers

\* The prune leaves what the panel keeps, and the newest row shown is a
\* number as good as any.
LEMMA PruneCovers ==
  ASSUME TInv, NEW n \in Kept, NEW S \in SUBSET Stored, NEW q, Covers(S, q, n)
  PROVE  Covers(pruneLiveTranscript(S), q, n)
<1>1. PlaceOK /\ LiveCap \in Nat /\ pruneLiveTranscript(S) \subseteq S
  BY SizesAssumption DEF TInv, pruneLiveTranscript, LastOf
<1>2. n \in S => n \in pruneLiveTranscript(S)
  BY <1>1, LastOfSubset DEF Kept, pruneLiveTranscript
<1> QED
  BY <1>1, <1>2 DEF Covers

LEMMA NewestCovers ==
  ASSUME TInv, NEW n \in Stored, NEW S \in SUBSET Stored, NEW q, Covers(S, q, n)
  PROVE  /\ Covers(S, Newest(S), n)
         /\ Covers(S, Larger(q, Newest(S)), n)
<1>1. Newest(S) \in S \cup {0} /\ ~ (0 >= n)
  <2>1. Newest(S) \in S \cup {0}
    BY NewestIn DEF TInv
  <2>2. n \in Nat /\ n > 0
    BY RecordSets DEF TInv
  <2> QED
    BY <2>1, <2>2
<1>2. Larger(q, Newest(S)) \in {q, Newest(S)}
  BY DEF Larger
<1> QED
  BY <1>1, <1>2 DEF Covers

\* The batch at the head of the line holds no row after one that is still on
\* its way behind it.
LEMMA BatchCovers ==
  ASSUME TInv, LineInv, TakesBatch, NEW n \in Stored, OnTheWay(n)' \/ n = Len(place)
  PROVE  Head(wire).entries \subseteq Stored /\ Covers(Head(wire).entries, 0, n)
<1>1. Len(wire) \in Nat /\ Len(wire) > 0 /\ Head(wire) = wire[1]
      /\ Len(wire') = Len(wire) - 1 /\ wire' = [i \in 1 .. Len(wire) - 1 |-> wire[i + 1]]
  BY LineSteps DEF TakesBatch, TInv
<1>2. wire[1].entries \subseteq Stored
  BY <1>1 DEF TInv, SendOK
<1>3. Len(place) \in Nat /\ n \in Nat /\ n > 0 /\ \A y \in Stored : y \in Nat /\ y <= Len(place)
  BY RecordSets DEF TInv
<1>4. CASE n = Len(place)
  <2>1. \A y \in Stored : y >= n => y = n
    BY <1>3, <1>4
  <2>2. ~ (0 >= n)
    BY <1>3
  <2> QED
    BY <1>1, <1>2, <2>1, <2>2 DEF Covers
<1>5. CASE OnTheWay(n)'
  <2>1. PICK i \in 1 .. Len(wire') : wire'[i].type = "live" /\ n \in wire'[i].entries
    BY <1>5 DEF OnTheWay
  <2>2. 1 \in 1 .. Len(wire) /\ i + 1 \in 1 .. Len(wire) /\ 1 < i + 1 /\ wire'[i] = wire[i + 1]
    BY <1>1, <2>1
  <2>3. \A y \in wire[1].entries : y < n
    BY <2>1, <2>2 DEF LineInv
  <2>4. \A y \in wire[1].entries : y \in Nat /\ y < n
    BY <1>2, <1>3, <2>3
  <2>5. ~ (0 >= n) /\ \A y \in wire[1].entries : ~ (y >= n)
    BY <1>3, <2>4
  <2> QED
    BY <1>1, <1>2, <2>5 DEF Covers
<1> QED
  BY <1>4, <1>5

LEMMA ShowStep ==
  ASSUME IInv, [Next]_vars
  PROVE  ShowInv'
<1>0. TInv /\ LineInv /\ AnsInv /\ ShowInv
  BY DEF IInv
<1>1. SUFFICES ASSUME NEW n \in Stored', Watched(n)' PROVE Covers(held', floor', n)
  BY DEF ShowInv, Covers
<1>2. CASE n \notin Stored
  <2>1. held' \subseteq Stored /\ floor' \in Numbers /\ Stored \subseteq Numbers
    BY <1>0, PanelKeepsType, RecordSets DEF TInv
  <2>2. \A y \in Numbers : y < n /\ y \in Nat
    BY <1>0, <1>2, NewRow, Forward
  <2>3. n \in Nat
    BY <1>0, Forward
  <2>4. \A y \in Numbers : ~ (y >= n)
    BY <2>2, <2>3
  <2> QED
    BY <2>1, <2>4 DEF Covers
<1>3. CASE n \in Stored
  <2>1. Watched(n) /\ n \in Kept /\ (OnTheWay(n)' \/ n = Len(place'))
    BY <1>0, <1>1, <1>3, StillOnTheWay DEF Watched
  <2>2. Covers(held, floor, n)
    BY <1>0, <1>3, <2>1 DEF ShowInv
  <2>3. held \subseteq Stored /\ floor \in Numbers /\ 0 \in Numbers /\ n > 0 /\ n \in Nat
    BY <1>0, <1>3, RecordSets DEF TInv, Numbers
  <2>4. CASE UNCHANGED panel
    BY <2>2, <2>4 DEF panel
  <2>5. CASE ForgetsFloor
    <3>1. ~ (0 >= n)
      BY <2>3
    <3> QED
      BY <2>2, <2>5, <3>1 DEF ForgetsFloor, Covers
  <2>6. ASSUME TakesBatch PROVE Covers(held', floor', n)
    <3> DEFINE E  == Head(wire).entries
               in == Head(wire).type = "initial"
               A  == applyTranscriptBatch(E, in)
    <3>1. E \subseteq Stored /\ Covers(E, 0, n)
      BY <1>0, <1>3, <2>1, <2>6, BatchCovers DEF TakesBatch
    <3>2. /\ Covers(held \cup {x \in E : x > floor}, Larger(floor, 0), n)
          /\ Covers(held \cup E, 0, n)
      BY <1>0, <1>3, <2>2, <2>3, <3>1, MergeCovers
    <3>3. Larger(floor, 0) = floor
      BY <1>0, RecordSets DEF Larger, TInv, Numbers
    <3>4. CASE Head(wire).type = "initial"
      <4>1. A = held \cup E /\ A \in SUBSET Stored
        BY <2>3, <3>1, <3>4 DEF applyTranscriptBatch
      <4>2. held' = A /\ floor' = Newest(A)
        BY <2>6, <3>4 DEF TakesBatch, handleTranscriptEntries
      <4> HIDE DEF A
      <4>3. Covers(A, Newest(A), n)
        BY <1>0, <1>3, <3>2, <4>1, NewestCovers
      <4> QED
        BY <4>2, <4>3
    <3>5. CASE Head(wire).type # "initial"
      <4>1. A = held \cup {x \in E : x > floor} /\ A \in SUBSET Stored
        BY <2>3, <3>1, <3>5 DEF applyTranscriptBatch
      <4> DEFINE P == pruneLiveTranscript(A)
      <4>2. UNCHANGED panel \/ (held' = P /\ floor' = Larger(floor, Newest(P)))
        BY <2>6, <3>5 DEF TakesBatch, handleTranscriptEntries
      <4> HIDE DEF A
      <4>3. Covers(P, floor, n) /\ P \in SUBSET Stored
        BY <1>0, <2>1, <3>2, <3>3, <4>1, PruneCovers DEF pruneLiveTranscript, LastOf
      <4> HIDE DEF P
      <4>4. Covers(P, Larger(floor, Newest(P)), n)
        BY <1>0, <1>3, <4>3, NewestCovers
      <4> QED
        BY <2>2, <4>2, <4>4 DEF panel
    <3> QED
      BY <3>4, <3>5
  <2>7. ASSUME NEW k \in Fetches, TakesFull(k) PROVE Covers(held', floor', n)
    <3> DEFINE S == fetch[k].entries
    <3>1. S \in SUBSET Stored
      BY <1>0 DEF TInv, RequestOK
    <3>2. Covers(S, fetch[k].last, n)
      BY <1>0, <1>3, <2>1, <2>7 DEF TakesFull, AnsInv
    <3>3. UNCHANGED panel \/ (held' = S /\ floor' = Newest(S))
      BY <2>7 DEF TakesFull, setTranscript
    <3>4. Covers(S, Newest(S), n)
      BY <1>0, <1>3, <3>1, <3>2, NewestCovers
    <3> QED
      BY <2>2, <3>3, <3>4 DEF panel
  <2>8. ASSUME NEW k \in Fetches, TakesDelta(k) PROVE Covers(held', floor', n)
    <3> DEFINE E == fetch[k].entries
               A == applyTranscriptBatch(E, FALSE)
               q == Larger(floor, fetch[k].last)
    <3>1. E \subseteq Stored /\ fetch[k].last \in Numbers
      BY <1>0 DEF TInv, RequestOK
    <3>2. Covers(E, fetch[k].last, n)
      BY <1>0, <1>3, <2>1, <2>8 DEF TakesDelta, AnsInv
    <3>3. A = held \cup {x \in E : x > floor} /\ A \in SUBSET Stored
      BY <2>3, <3>1 DEF applyTranscriptBatch
    <3>4. Covers(A, q, n)
      BY <1>0, <1>3, <2>2, <3>1, <3>2, <3>3, MergeCovers
    <3>5. (held' = A \/ held' = pruneLiveTranscript(A)) /\ floor' = q
      BY <2>8 DEF TakesDelta, applyRefetchedDelta
    <3> HIDE DEF A, q
    <3>6. Covers(pruneLiveTranscript(A), q, n)
      BY <1>0, <2>1, <3>3, <3>4, PruneCovers
    <3> QED
      BY <3>4, <3>5, <3>6
  <2> QED
    BY <2>4, <2>5, <2>6, <2>7, <2>8, PanelMoves
<1> QED
  BY <1>2, <1>3

(***************************************************************************)
(* The theorems.                                                           *)
(***************************************************************************)
LEMMA Inductive ==
  ASSUME IInv, [Next]_vars
  PROVE  IInv'
<1> QED
  BY TypeStep, LineStep, AskStep, AnsStep, ShowStep DEF IInv

LEMMA InitInv ==
  ASSUME Init
  PROVE  IInv
<1>1. Len(place) = 0 /\ Stored = {} /\ Numbers = {0} /\ Len(wire) = 0 /\ Fetches = 1 .. MaxFetches
  BY DEF Init, Stored, Numbers, Fetches
<1>2. PlaceOK
  BY <1>1 DEF Init, PlaceOK
<1>3. wire = [i \in 1 .. Len(wire) |-> wire[i]] /\ \A i \in 1 .. Len(wire) : FALSE
  <2>1. PICK w : w = <<>>
    OBVIOUS
  <2>2. Len(w) = 0 /\ w = [i \in 1 .. Len(w) |-> w[i]] /\ 1 .. Len(w) = {}
    BY <2>1
  <2>3. wire = w
    BY <2>1 DEF Init
  <2> QED
    BY <2>2, <2>3
<1>4. fetch = [k \in Fetches |-> fetch[k]] /\ \A k \in Fetches : fetch[k] = Free
  BY DEF Init
<1>5. Free.state = "free" /\ Free.since = 0 /\ Free.last = 0 /\ Free.entries = {}
  BY DEF Free
<1>6. TInv
  BY <1>1, <1>2, <1>3, <1>4, <1>5 DEF Init, TInv, RequestOK
<1>7. LineInv /\ AskInv /\ AnsInv /\ ShowInv
  BY <1>1, <1>3, <1>4, <1>5 DEF LineInv, AskInv, AnsInv, ShowInv
<1> QED
  BY <1>6, <1>7 DEF IInv

LEMMA Invariance == Spec => []IInv
<1>1. IInv /\ [Next]_vars => IInv'
  BY Inductive
<1> QED
  BY <1>1, InitInv, PTL DEF Spec

\* A broadcast still on the way is one the floor lets through or one the panel
\* shows, for any window, limits, late and filtered rows, and however
\* fetches, checks, broadcasts and faults interleave.
THEOREM FilterIsSafe == Spec => []FilterDropsOnlyHeld
<1>1. ASSUME IInv PROVE FilterDropsOnlyHeld
  <2>1. SUFFICES ASSUME NEW i \in 1 .. Len(wire), wire[i].type = "live",
                        NEW n \in wire[i].entries, n \in FullAnswer.entries, n \in pruneLiveTranscript(Stored)
                 PROVE  n > floor \/ n \in held
    BY DEF FilterDropsOnlyHeld
  <2>2. TInv /\ ShowInv
    BY <1>1 DEF IInv
  <2>3. n \in Stored /\ n \in Returned /\ n \in Kept
    BY <2>1, <2>2, RecordSets DEF TInv, Kept
  <2>4. Covers(held, floor, n)
    BY <2>1, <2>2, <2>3 DEF ShowInv, Watched, OnTheWay
  <2>5. n \in Nat /\ floor \in Nat
    BY <2>2, <2>3, RecordSets DEF TInv, Numbers
  <2> QED
    BY <2>4, <2>5 DEF Covers
<1> QED
  BY <1>1, Invariance, PTL

\* A panel no check would find behind shows the newest row, unless that row
\* came so late that the panel would not keep it.
THEOREM SyncIsTruthful == Spec => []InSyncShowsNewest
<1>1. ASSUME IInv PROVE InSyncShowsNewest
  <2>1. SUFFICES ASSUME Len(place) \in pruneLiveTranscript(Stored), floor >= Len(place)
                 PROVE  Len(place) \in held
    BY DEF InSyncShowsNewest
  <2>2. TInv /\ ShowInv
    BY <1>1 DEF IInv
  <2>3. Len(place) \in Stored /\ Len(place) \in Kept
    BY <2>1, <2>2, RecordSets DEF TInv, Kept
  <2>4. Covers(held, floor, Len(place))
    BY <2>2, <2>3 DEF ShowInv, Watched
  <2> QED
    BY <2>1, <2>4 DEF Covers
<1> QED
  BY <1>1, Invariance, PTL

=============================================================================
