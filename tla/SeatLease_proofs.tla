-------------------------- MODULE SeatLease_proofs --------------------------
(***************************************************************************)
(* Proofs about the seat lease, for any number of conversations and calls: *)
(* type correctness, that the lease implements the register of             *)
(* generations, and that a holder inside the stale window that was never   *)
(* seen dead is never displaced.                                           *)
(***************************************************************************)
EXTENDS SeatLease, TLAPS, SequenceTheorems

\* The generation on the card counts the grants; an unclaimed seat has no
\* holder, a held one says since when, and its holder took the last grant.
RegInv ==
    /\ lease.gen = Len(grants)
    /\ lease.gen = 0 => lease.conv = NoConv
    /\ lease.conv # NoConv => lease.at \in Times

\* Calls and requests keep naming a conversation.
CallsOK == /\ calls \in [Calls -> Call]
           /\ \A k \in Calls : calls[k].phase # "unused" => calls[k].conv \in Convs
NetOK   == /\ net \in Seq(Request)
           /\ \A i \in 1..Len(net) : calls[net[i].call].conv \in Convs
Kept    == \A j \in Calls : calls[j].conv \in Convs => calls'[j].conv \in Convs

\* An unused call and the empty answer are well-formed.
LEMMA UnusedType == Unused \in Call /\ NoAnswer \in Answer \cup {NoAnswer} /\ Never \in Lease
  BY DEF Unused, Call, Outcomes, Never, Lease, Times, NoTime

\* One call changes to a well-formed record of the same conversation.
LEMMA OneCall ==
    ASSUME CallsOK, NEW k \in Calls, NEW r \in Call, calls' = [calls EXCEPT ![k] = r],
           r.conv \in Convs
    PROVE  CallsOK' /\ Kept
  <1>1. calls' \in [Calls -> Call]
    BY DEF CallsOK
  <1>2. \A j \in Calls : calls'[j] = IF j = k THEN r ELSE calls[j]
    BY DEF CallsOK
  <1> QED BY <1>1, <1>2 DEF CallsOK, Kept

\* Closing a round trip with an outcome, or starting the next one, keeps the
\* calls well-formed.
LEMMA EnterType ==
    ASSUME CallsOK, NEW k \in Calls, NEW outcome \in Outcomes, calls[k].phase # "unused",
           NEW phase \in {"get", "claim", "release", "log", "reply", "over"},
           Enter(k, phase, outcome)
    PROVE  CallsOK' /\ Kept
  <1> DEFINE r == [calls[k] EXCEPT !.phase = phase, !.ans = NoAnswer, !.outcome = outcome]
  <1>1. calls[k] \in Call /\ calls[k].conv \in Convs
    BY DEF CallsOK
  <1>2. r \in Call /\ r.conv = calls[k].conv
    BY <1>1 DEF Call
  <1>3. calls' = [calls EXCEPT ![k] = r]
    BY DEF Enter
  <1> HIDE DEF r
  <1> QED BY <1>1, <1>2, <1>3, OneCall

\* And so does an answer of the sentinel, heard or not.
LEMMA RespondType ==
    ASSUME CallsOK, NEW m \in Request, NEW ans \in Answer, Respond(m, ans)
    PROVE  CallsOK' /\ Kept
  <1> DEFINE r == [calls[m.call] EXCEPT !.ans = ans]
  <1>1. m.call \in Calls /\ calls[m.call] \in Call /\ m.op # "unused"
    BY DEF CallsOK, Request
  <1>2. r \in Call /\ r.conv = calls[m.call].conv
    BY <1>1 DEF Call
  <1>3. CASE calls[m.call].phase = m.op
    <2>1. calls' = [calls EXCEPT ![m.call] = r] /\ r.conv \in Convs
      BY <1>1, <1>2, <1>3 DEF Respond, CallsOK
    <2> HIDE DEF r
    <2> QED BY <1>1, <1>2, <2>1, OneCall
  <1>4. CASE calls[m.call].phase # m.op
    BY <1>4 DEF Respond, CallsOK, Kept
  <1> QED BY <1>3, <1>4

\* A request joins the queue.
LEMMA NetAppend ==
    ASSUME NetOK, Kept, NEW m \in Request, calls'[m.call].conv \in Convs,
           net' = Append(net, m), CallsOK
    PROVE  NetOK'
  <1>1. net' \in Seq(Request) /\ Len(net') = Len(net) + 1
    BY DEF NetOK
  <1>2. ASSUME NEW i \in 1..Len(net') PROVE calls'[net'[i].call].conv \in Convs
    <2>1. CASE i \in 1..Len(net)
      <3>1. net'[i] = net[i] /\ net[i] \in Request
        BY <2>1 DEF NetOK
      <3> QED BY <3>1, <2>1 DEF NetOK, Kept, Request
    <2>2. CASE i = Len(net) + 1
      BY <2>2 DEF NetOK
    <2> QED BY <1>1, <1>2, <2>1, <2>2 DEF NetOK
  <1> QED BY <1>1, <1>2 DEF NetOK

\* The sentinel takes the first request off the queue.
LEMMA NetTail ==
    ASSUME NetOK, Kept, net # <<>>, net' = Tail(net), CallsOK
    PROVE  NetOK'
  <1>1. /\ net' \in Seq(Request) /\ Len(net') = Len(net) - 1
        /\ \A i \in 1..Len(net') : net'[i] = net[i + 1]
    BY DEF NetOK
  <1>2. ASSUME NEW i \in 1..Len(net') PROVE calls'[net'[i].call].conv \in Convs
    <2>1. i + 1 \in 1..Len(net) /\ net'[i] = net[i + 1] /\ net[i + 1] \in Request
      BY <1>1 DEF NetOK
    <2> QED BY <2>1 DEF NetOK, Kept, Request
  <1> QED BY <1>1, <1>2 DEF NetOK

\* The queue stays as it is while calls change.
LEMMA NetSame ==
    ASSUME NetOK, Kept, CallsOK, net' = net PROVE NetOK'
  <1>1. ASSUME NEW i \in 1..Len(net) PROVE calls'[net[i].call].conv \in Convs
    <2>1. net[i] \in Request
      BY DEF NetOK
    <2> QED BY <2>1 DEF NetOK, Kept, Request
  <1> QED BY <1>1 DEF NetOK

\* A request built by the broker is a request.
LEMMA ReqType ==
    ASSUME NEW op \in {"get", "claim", "release", "log"}, NEW k \in Calls,
           NEW g \in Nat, NEW a \in BOOLEAN
    PROVE  Req(op, k, g, a) \in Request /\ Req(op, k, g, a).call = k
  BY DEF Req, Request

\* The part of the type invariant that concerns the seats.
SeatsOK ==
    /\ asking \in [Convs -> Calls \cup {NoCall}]
    /\ seat \in [Convs -> {"launched", "granted", "unprotected", "finished", "exited"}]
    /\ live \subseteq Convs

DiskOK == /\ lease \in Lease /\ grants \in Seq(Convs) /\ baton \subseteq Calls
          /\ lapsed \subseteq Nat

RestOK == clock \in Times /\ restarts \in Nat

\* The type invariant in five parts.
LEMMA TypeParts == TypeOK <=> CallsOK /\ NetOK /\ SeatsOK /\ DiskOK /\ RestOK
  BY DEF TypeOK, CallsOK, NetOK, SeatsOK, DiskOK, RestOK

\* A new grant extends the history by one award.
LEMMA GrantAppend ==
    ASSUME grants \in Seq(Convs), NEW c \in Convs, NEW g \in Nat, g = Len(grants) + 1
    PROVE  [i \in DOMAIN grants \cup {g} |-> IF i = g THEN c ELSE grants[i]] = Append(grants, c)
  <1> DEFINE f == [i \in DOMAIN grants \cup {g} |-> IF i = g THEN c ELSE grants[i]]
             n == Len(grants) + 1
  <1>1. DOMAIN grants = 1..Len(grants) /\ Len(grants) \in Nat
    OBVIOUS
  <1>2. /\ Append(grants, c) \in Seq(Convs) /\ Len(Append(grants, c)) = n
        /\ \A i \in 1..Len(grants) : Append(grants, c)[i] = grants[i]
        /\ Append(grants, c)[n] = c
    BY AppendProperties
  <1>3. f = [i \in 1..n |-> IF i = n THEN c ELSE grants[i]]
    BY <1>1
  <1>4. f \in [1..n -> Convs]
    BY <1>1, <1>3
  <1>5. f \in Seq(Convs) /\ Len(f) = n
    BY <1>1, <1>3, <1>4
  <1>6. \A i \in 1..n : f[i] = Append(grants, c)[i]
    BY <1>1, <1>2, <1>3
  <1> HIDE DEF f
  <1> QED BY <1>2, <1>5, <1>6, SeqEqual DEF f

\* The type invariant together with what makes it inductive.
TInv == TypeOK /\ RegInv

\* The initial state is well typed and the seat unclaimed.
LEMMA InitTyped == Init => TInv
  <1> SUFFICES ASSUME Init PROVE TInv
    OBVIOUS
  <1>1. CallsOK /\ NetOK /\ RestOK
    BY UnusedType, SeatAssumption DEF Init, CallsOK, NetOK, RestOK, Unused, Times
  <1>2. SeatsOK /\ DiskOK
    BY UnusedType DEF Init, SeatsOK, DiskOK
  <1>3. RegInv
    BY DEF Init, RegInv, Never
  <1> QED BY <1>1, <1>2, <1>3, TypeParts DEF TInv

\* Opening a call keeps calls, queue and seats well-formed.
LEMMA OpenType ==
    ASSUME CallsOK, NetOK, SeatsOK, NEW c \in Convs, NEW k \in Calls,
           NEW action \in {"claim", "release"}, NEW op \in {"get", "release"},
           Open(c, k, action, op)
    PROVE  CallsOK' /\ NetOK' /\ asking' \in [Convs -> Calls \cup {NoCall}]
  <1> DEFINE r == [Unused EXCEPT !.conv = c, !.action = action, !.phase = op]
  <1>1. r \in Call /\ r.conv \in Convs
    BY DEF Unused, Call, Outcomes
  <1>2. calls' = [calls EXCEPT ![k] = r]
    BY DEF Open
  <1>3. CallsOK' /\ Kept /\ calls'[k].conv \in Convs
    <2> HIDE DEF r
    <2>1. calls'[k] = r
      BY <1>2 DEF CallsOK
    <2> QED BY <1>1, <1>2, <2>1, OneCall
  <1>4. NetOK'
    <2>1. Req(op, k, 0, FALSE) \in Request /\ Req(op, k, 0, FALSE).call = k
      BY DEF Req, Request
    <2>2. net' = Append(net, Req(op, k, 0, FALSE))
      BY DEF Open
    <2> QED BY <1>3, <2>1, <2>2, NetAppend
  <1> QED BY <1>3, <1>4 DEF Open, SeatsOK

\* Every action of a seat keeps the types.
LEMMA SeatActionType ==
    ASSUME CallsOK, NetOK, SeatsOK, NEW c \in Convs, NEW k \in Calls,
           ClaimSeat(c, k) \/ ReleaseSeat(c, k)
    PROVE  CallsOK' /\ NetOK' /\ SeatsOK'
  <1>1. CASE ClaimSeat(c, k)
    BY <1>1, OpenType DEF ClaimSeat, SeatsOK
  <1>2. CASE ReleaseSeat(c, k)
    BY <1>2, OpenType DEF ReleaseSeat, SeatsOK
  <1> QED BY <1>1, <1>2

\* An answer interpreted by a seat leaves it in a known state.
LEMMA InterpretType ==
    ASSUME SeatsOK, NEW c \in Convs, NEW action, NEW outcome
    PROVE  /\ Proceed(c, action) \in {"launched", "granted", "unprotected", "finished", "exited"}
           /\ Interpret(c, action, outcome) \in {"launched", "granted", "unprotected", "finished", "exited"}
  BY DEF SeatsOK, Proceed, Interpret

\* Delivering an answer keeps the types.
LEMMA DeliverType ==
    ASSUME CallsOK, NetOK, SeatsOK, NEW k \in Calls, Deliver(k)
    PROVE  CallsOK' /\ NetOK' /\ SeatsOK'
  <1> DEFINE r == [calls[k] EXCEPT !.phase = "over"]
  <1>1. calls[k] \in Call /\ calls[k].conv \in Convs
    BY DEF CallsOK, Deliver
  <1>2. r \in Call /\ r.conv \in Convs
    BY <1>1 DEF Call
  <1>3. calls' = [calls EXCEPT ![k] = r] /\ net' = net
    BY DEF Deliver
  <1>4. CallsOK' /\ NetOK'
    <2> HIDE DEF r
    <2> QED BY <1>2, <1>3, OneCall, NetSame
  <1>5. SeatsOK'
    BY <1>1, InterpretType DEF Deliver, SeatsOK, seatSide
  <1> QED BY <1>4, <1>5

\* Every step of the broker keeps the types.
LEMMA BrokerType ==
    ASSUME CallsOK, NetOK, SeatsOK, NEW k \in Calls,
           RunClaim(k) \/ Decided(k) \/ Audited(k) \/ RunRelease(k) \/ Timeout(k)
    PROVE  CallsOK' /\ NetOK'
  <1>1. calls[k].phase # "unused" /\ calls[k] \in Call /\ calls[k].conv \in Convs
        /\ calls[k].outcome \in Outcomes
    BY DEF CallsOK, Call, RunClaim, Decided, Audited, RunRelease, Timeout, Answered
  <1>2. ASSUME NEW o \in Outcomes, Finish(k, o), net' = net PROVE CallsOK' /\ NetOK'
    BY <1>1, <1>2, EnterType, NetSame DEF Finish
  <1>3. ASSUME NEW o \in Outcomes, NEW op \in {"claim", "log"}, NEW g \in Nat, NEW a \in BOOLEAN,
               Send(k, op, o, g, a)
        PROVE  CallsOK' /\ NetOK'
    <2>1. CallsOK' /\ Kept
      BY <1>1, <1>3, EnterType DEF Send
    <2>2. Req(op, k, g, a) \in Request /\ Req(op, k, g, a).call = k
      BY ReqType
    <2>3. calls'[k].conv \in Convs
      BY <1>1, <2>1 DEF Kept
    <2> QED BY <1>3, <2>1, <2>2, <2>3, NetAppend DEF Send
  <1>4. CASE RunClaim(k)
    <2>1. calls[k].ans \in Answer /\ calls[k].ans.lease.gen \in Nat
      BY <1>1, <1>4 DEF RunClaim, Answered, Call, Answer, Lease
    <2>2. "held" \in Outcomes /\ "none" \in Outcomes /\ HolderIsAlive(calls[k].ans.lease) \in BOOLEAN
      BY DEF Outcomes, HolderIsAlive
    <2> QED BY <1>2, <1>3, <1>4, <2>1, <2>2 DEF RunClaim
  <1>5. CASE Decided(k)
    <2>1. {"granted", "broke", "refused"} \subseteq Outcomes
      BY DEF Outcomes
    <2> QED BY <1>2, <1>3, <1>5, <2>1 DEF Decided
  <1>6. CASE Audited(k)
    BY <1>1, <1>2, <1>6 DEF Audited
  <1>7. CASE RunRelease(k)
    BY <1>2, <1>7 DEF RunRelease, Outcomes
  <1>8. CASE Timeout(k)
    BY <1>1, <1>2, <1>8 DEF Timeout, Outcomes
  <1> QED BY <1>4, <1>5, <1>6, <1>7, <1>8

\* The request the sentinel takes up, and the conversation it is for.
LEMMA HeadType ==
    ASSUME CallsOK, NetOK, net # <<>>
    PROVE  /\ Head(net) \in Request /\ Head(net) = net[1] /\ 1 \in 1..Len(net)
           /\ Head(net).call \in Calls /\ calls[Head(net).call].conv \in Convs
  <1>1. Len(net) \in Nat \ {0} /\ Head(net) = net[1] /\ net[1] \in Request
    BY EmptySeq, ElementOfSeq DEF NetOK
  <1> QED BY <1>1 DEF NetOK, Request

\* What a granted claim does to the disk.
LEMMA GrantType ==
    ASSUME DiskOK, RestOK, RegInv, NEW c \in Convs,
           NEW next, next = [conv |-> c, gen |-> lease.gen + 1, at |-> clock],
           grants' = [g \in DOMAIN grants \cup {next.gen} |->
                        IF g = next.gen THEN next.conv ELSE grants[g]],
           lease' = next, baton' = baton, lapsed' = Lapse(next, live)
    PROVE  /\ DiskOK' /\ RegInv' /\ next \in Lease
           /\ grants' = Append(grants, c) /\ lease'.conv = c /\ lease'.gen = lease.gen + 1
  <1>1. lease.gen = Len(grants) /\ Len(grants) \in Nat /\ grants \in Seq(Convs)
    BY DEF RegInv, DiskOK
  <1>2. next.gen = Len(grants) + 1 /\ next.gen \in Nat /\ next.conv = c /\ next.at = clock
    BY <1>1
  <1>3. grants' = Append(grants, c)
    BY <1>1, <1>2, GrantAppend
  <1>4. grants' \in Seq(Convs) /\ Len(grants') = Len(grants) + 1
    BY <1>1, <1>3, AppendProperties
  <1>5. next \in Lease
    BY <1>1 DEF Lease, RestOK
  <1>6. lease'.conv = c /\ lease'.gen = lease.gen + 1 /\ lease'.at \in Times /\ lease'.gen # 0
    BY <1>1, <1>2 DEF RestOK
  <1>7. DiskOK'
    BY <1>2, <1>4, <1>5 DEF DiskOK, Lapse
  <1>8. RegInv'
    BY <1>1, <1>4, <1>6 DEF RegInv
  <1> QED BY <1>3, <1>5, <1>6, <1>7, <1>8

\* A claim handled by the sentinel either changes nothing on the card or awards
\* the next generation to the claimant.
LEMMA ClaimStep ==
    ASSUME CallsOK, NetOK, DiskOK, RestOK, RegInv, SeatClaim
    PROVE  /\ CallsOK' /\ NetOK' /\ DiskOK' /\ RegInv'
           /\ \/ UNCHANGED <<lease, grants>>
              \/ /\ EvaluateLease(lease, Head(net).expectGen, Head(net).alive, clock)
                 /\ lease'.conv = calls[Head(net).call].conv
                 /\ lease'.gen = lease.gen + 1
                 /\ grants' = Append(grants, lease'.conv)
  <1> DEFINE m == Head(net)
             c == calls[m.call].conv
             next == [conv |-> c, gen |-> lease.gen + 1, at |-> clock]
  <1>1. net # <<>> /\ net' = Tail(net) /\ baton' = baton
    BY DEF SeatClaim, Handling
  <1>2. m \in Request /\ c \in Convs
    BY <1>1, HeadType
  <1>3. CASE EvaluateLease(lease, m.expectGen, m.alive, clock)
    <2>1. /\ lease' = next
          /\ grants' = [g \in DOMAIN grants \cup {next.gen} |->
                          IF g = next.gen THEN next.conv ELSE grants[g]]
          /\ Respond(m, [ok |-> TRUE, lease |-> next, replaced |-> lease])
          /\ lapsed' = Lapse(next, live)
      BY <1>3 DEF SeatClaim
    <2>2. /\ DiskOK' /\ RegInv' /\ next \in Lease
          /\ grants' = Append(grants, c) /\ lease'.conv = c /\ lease'.gen = lease.gen + 1
      <3> HIDE DEF next, c
      <3>1. next = [conv |-> c, gen |-> lease.gen + 1, at |-> clock]
        BY DEF next
      <3> QED BY <1>1, <1>2, <2>1, <3>1, GrantType
    <2>3. [ok |-> TRUE, lease |-> next, replaced |-> lease] \in Answer
      <3> HIDE DEF next
      <3> QED BY <2>2 DEF Answer, DiskOK
    <2>4. CallsOK' /\ Kept
      <3> HIDE DEF m, next
      <3> QED BY <1>2, <2>1, <2>3, RespondType
    <2>5. NetOK'
      BY <1>1, <2>4, NetTail
    <2> QED BY <1>3, <2>2, <2>4, <2>5
  <1>4. CASE ~EvaluateLease(lease, m.expectGen, m.alive, clock)
    <2>1. /\ UNCHANGED <<lease, grants, lapsed>>
          /\ Respond(m, [ok |-> FALSE, lease |-> lease, replaced |-> Never])
      BY <1>4 DEF SeatClaim
    <2>2. [ok |-> FALSE, lease |-> lease, replaced |-> Never] \in Answer
      BY UnusedType DEF Answer, DiskOK
    <2>3. CallsOK' /\ Kept
      <3> HIDE DEF m
      <3> QED BY <1>2, <2>1, <2>2, RespondType
    <2>4. NetOK'
      BY <1>1, <2>3, NetTail
    <2> QED BY <1>1, <2>1, <2>3, <2>4 DEF DiskOK, RegInv
  <1> QED BY <1>3, <1>4

\* A release handled by the sentinel leaves the card alone or empties the grip.
LEMMA ReleaseStep ==
    ASSUME CallsOK, NetOK, DiskOK, RegInv, SeatRelease
    PROVE  /\ CallsOK' /\ NetOK' /\ DiskOK' /\ RegInv'
           /\ grants' = grants /\ lease'.gen = lease.gen
           /\ lease' = lease \/ (lease.conv # NoConv /\ lease'.conv = NoConv)
  <1> DEFINE m == Head(net)
             a == [ok |-> lease.conv \in {NoConv, calls[m.call].conv}, lease |-> lease', replaced |-> Never]
  <1>1. net # <<>> /\ net' = Tail(net) /\ baton' = baton /\ grants' = grants
    BY DEF SeatRelease, Handling
  <1>2. m \in Request /\ calls[m.call].conv \in Convs
    BY <1>1, HeadType
  <1>3. Respond(m, a)
    BY DEF SeatRelease
  <1>4. /\ lease' \in Lease /\ lease'.gen = lease.gen
        /\ lease' = lease \/ (lease.conv # NoConv /\ lease'.conv = NoConv)
    <2>1. lease' = lease \/ (lease' = ReleasePatch(lease) /\ lease.conv # NoConv)
      BY DEF SeatRelease, MayRelease
    <2> QED BY <2>1 DEF ReleasePatch, DiskOK, Lease, NoTime
  <1>5. a \in Answer
    BY <1>4, UnusedType DEF Answer
  <1>6. CallsOK' /\ Kept
    <2> HIDE DEF m, a
    <2> QED BY <1>2, <1>3, <1>5, RespondType
  <1>7. NetOK'
    BY <1>1, <1>6, NetTail
  <1>8. DiskOK' /\ RegInv'
    <2>1. lapsed' \subseteq Nat
      BY <1>4 DEF SeatRelease, Lapse, DiskOK, Lease
    <2> QED BY <1>1, <1>4, <2>1 DEF DiskOK, RegInv
  <1> QED BY <1>1, <1>4, <1>6, <1>7, <1>8

\* A read and a log entry leave the lease alone.
LEMMA ReadStep ==
    ASSUME CallsOK, NetOK, DiskOK, RegInv, SeatGet \/ LogAppend
    PROVE  CallsOK' /\ NetOK' /\ DiskOK' /\ RegInv' /\ UNCHANGED <<lease, grants, lapsed>>
  <1> DEFINE m == Head(net)
  <1>1. net # <<>> /\ net' = Tail(net) /\ UNCHANGED <<lease, grants, lapsed>>
    BY DEF SeatGet, LogAppend, Handling, disk
  <1>2. m \in Request /\ m.call \in Calls
    BY <1>1, HeadType
  <1>3. PICK l \in Lease : Respond(m, [ok |-> TRUE, lease |-> l, replaced |-> Never])
    BY UnusedType DEF SeatGet, LogAppend, DiskOK
  <1>4. [ok |-> TRUE, lease |-> l, replaced |-> Never] \in Answer
    BY UnusedType DEF Answer
  <1>5. CallsOK' /\ Kept
    <2> HIDE DEF m
    <2> QED BY <1>2, <1>3, <1>4, RespondType
  <1>6. NetOK'
    BY <1>1, <1>5, NetTail
  <1>7. baton' \subseteq Calls
    BY <1>2 DEF SeatGet, LogAppend, DiskOK, disk
  <1> QED BY <1>1, <1>5, <1>6, <1>7 DEF DiskOK, RegInv

\* A restart of the sentinel empties the queue and forgets unheard answers.
LEMMA RestartType ==
    ASSUME CallsOK, SentinelRestart PROVE CallsOK' /\ NetOK'
  <1>1. ASSUME NEW k \in Calls
        PROVE  /\ calls'[k] = [calls[k] EXCEPT !.ans = NoAnswer]
               /\ calls'[k] \in Call
               /\ calls'[k].conv = calls[k].conv /\ calls'[k].phase = calls[k].phase
    <2>1. calls'[k] = [calls[k] EXCEPT !.ans = NoAnswer] /\ calls[k] \in Call
      BY DEF SentinelRestart, CallsOK
    <2> QED BY <2>1 DEF Call
  <1>2. calls' = [k \in Calls |-> calls'[k]]
    BY DEF SentinelRestart
  <1>3. calls' \in [Calls -> Call]
    BY <1>1, <1>2
  <1> QED BY <1>1, <1>3 DEF CallsOK, NetOK, SentinelRestart

\* Every step keeps the types and the count of generations.
LEMMA NextTyped == TInv /\ [Next]_vars => TInv'
  <1> SUFFICES ASSUME TInv, [Next]_vars PROVE TInv'
    OBVIOUS
  <1>1. CallsOK /\ NetOK /\ SeatsOK /\ DiskOK /\ RestOK /\ RegInv
    BY TypeParts DEF TInv
  <1>2. ASSUME CallsOK', NetOK', SeatsOK', DiskOK', RestOK', RegInv' PROVE TInv'
    BY <1>2 DEF TInv, TypeOK, CallsOK, NetOK, SeatsOK, DiskOK, RestOK
  <1>3. ASSUME UNCHANGED <<seatSide, disk>> PROVE SeatsOK' /\ DiskOK' /\ RegInv'
    BY <1>1, <1>3 DEF seatSide, disk, SeatsOK, DiskOK, RegInv
  <1>4. ASSUME UNCHANGED <<clock, restarts>> PROVE RestOK'
    BY <1>1, <1>4 DEF RestOK
  <1>5. ASSUME UNCHANGED seatSide PROVE SeatsOK'
    BY <1>1, <1>5 DEF seatSide, SeatsOK
  <1>6. ASSUME UNCHANGED disk PROVE DiskOK' /\ RegInv'
    BY <1>1, <1>6 DEF disk, DiskOK, RegInv
  <1>7. ASSUME UNCHANGED <<net, calls>> PROVE CallsOK' /\ NetOK'
    BY <1>1, <1>7 DEF CallsOK, NetOK
  <1>8. CASE SeatGet \/ LogAppend
    BY <1>1, <1>2, <1>4, <1>5, <1>8, ReadStep DEF SeatGet, LogAppend
  <1>9. CASE SeatClaim
    BY <1>1, <1>2, <1>4, <1>5, <1>9, ClaimStep DEF SeatClaim
  <1>10. CASE SeatRelease
    BY <1>1, <1>2, <1>4, <1>5, <1>10, ReleaseStep DEF SeatRelease
  <1>11. CASE SentinelRestart
    <2>1. RestOK'
      BY <1>1, <1>11 DEF SentinelRestart, RestOK
    <2> QED BY <1>1, <1>2, <1>5, <1>6, <1>11, <2>1, RestartType DEF SentinelRestart
  <1>12. CASE Tick
    <2>1. RestOK'
      BY <1>1, <1>12, SeatAssumption DEF Tick, RestOK, Times
    <2> QED BY <1>2, <1>5, <1>6, <1>7, <1>12, <2>1 DEF Tick
  <1>13. ASSUME NEW k \in Calls,
                RunClaim(k) \/ Decided(k) \/ Audited(k) \/ RunRelease(k) \/ Timeout(k)
         PROVE  TInv'
    <2>1. UNCHANGED <<disk, clock, seatSide, restarts>>
      BY <1>13 DEF RunClaim, Decided, Audited, RunRelease, Timeout
    <2> QED BY <1>1, <1>2, <1>3, <1>4, <1>13, <2>1, BrokerType
  <1>14. ASSUME NEW k \in Calls, Deliver(k) PROVE TInv'
    <2>1. UNCHANGED <<lease, grants, baton, clock, restarts>> /\ lapsed' = Lapse(lease, live')
      BY <1>14 DEF Deliver
    <2>2. DiskOK' /\ RegInv'
      BY <1>1, <2>1 DEF DiskOK, RegInv, Lapse, Lease
    <2> QED BY <1>1, <1>2, <1>4, <1>14, <2>1, <2>2, DeliverType
  <1>15. ASSUME NEW c \in Convs, HttpLost(c) \/ Die(c) \/ Unend(c) PROVE TInv'
    <2>1. UNCHANGED <<lease, grants, baton, clock, net, calls, restarts>>
      BY <1>15 DEF HttpLost, Die, Unend, disk
    <2>2. SeatsOK'
      BY <1>1, <1>15, InterpretType DEF HttpLost, Die, Unend, SeatsOK
    <2>3. lapsed' = lapsed \/ lapsed' = Lapse(lease, live')
      BY <1>15 DEF HttpLost, Die, Unend, disk
    <2>4. DiskOK' /\ RegInv'
      BY <1>1, <2>1, <2>3 DEF DiskOK, RegInv, Lapse, Lease
    <2> QED BY <1>2, <1>4, <1>7, <2>1, <2>2, <2>4
  <1>16. ASSUME NEW c \in Convs, NEW k \in Calls, ClaimSeat(c, k) \/ ReleaseSeat(c, k) PROVE TInv'
    <2>1. UNCHANGED <<disk, clock, restarts>>
      BY <1>16 DEF ClaimSeat, ReleaseSeat
    <2> QED BY <1>1, <1>2, <1>4, <1>6, <1>16, <2>1, SeatActionType
  <1>17. CASE UNCHANGED vars
    BY <1>2, <1>3, <1>4, <1>7, <1>17 DEF vars, seatSide, disk
  <1> QED BY <1>8, <1>9, <1>10, <1>11, <1>12, <1>13, <1>14, <1>15, <1>16, <1>17 DEF Next

\* The type invariant holds in every reachable state, for any number of
\* conversations, calls and restarts: every request in transit belongs to a call
\* that some conversation opened.
THEOREM SeatTypeCorrect == Spec => []TypeOK
  <1>1. TInv => TypeOK
    BY DEF TInv
  <1> QED BY <1>1, InitTyped, NextTyped, PTL DEF Spec

-----------------------------------------------------------------------------

\* Every step of the seat lease is a step of the register or leaves it alone.
LEMMA RegisterStep == TInv /\ [Next]_vars => [Register!Next]_(Register!vars)
  <1> SUFFICES ASSUME TInv, [Next]_vars PROVE [Register!Next]_(Register!vars)
    OBVIOUS
  <1>1. CallsOK /\ NetOK /\ SeatsOK /\ DiskOK /\ RestOK /\ RegInv
    BY TypeParts DEF TInv
  <1>2. CASE UNCHANGED <<lease, grants>>
    BY <1>2 DEF Register!vars
  <1>3. CASE SeatClaim
    <2>1. net # <<>>
      BY <1>3 DEF SeatClaim, Handling
    <2>2. calls[Head(net).call].conv \in Convs
      BY <1>1, <2>1, HeadType
    <2> QED BY <1>1, <1>2, <1>3, <2>2, ClaimStep DEF Register!Next, Register!Award
  <1>4. CASE SeatRelease
    BY <1>1, <1>2, <1>4, ReleaseStep DEF Register!Next, Register!Vacate
  <1>5. CASE [Next]_vars /\ ~SeatClaim /\ ~SeatRelease
    BY <1>1, <1>2, <1>5, ReadStep
      DEF Next, vars, disk, SentinelRestart, Tick, RunClaim, Decided, Audited, RunRelease, Timeout,
          Deliver, HttpLost, Die, Unend, ClaimSeat, ReleaseSeat
  <1> QED BY <1>3, <1>4, <1>5

\* The seat lease implements the register of generations: whatever is lost,
\* late, retried or restarted, generations are awarded once and in order, and a
\* grip appears only with a fresh generation (evaluateLease, releasePatch).
THEOREM ImplementsRegister == Spec => RegisterSpec
  <1>1. Init => Register!Init
    BY DEF Init, Register!Init, Never
  <1> QED BY <1>1, InitTyped, NextTyped, RegisterStep, PTL DEF Spec, RegisterSpec, Register!Spec

-----------------------------------------------------------------------------
(* Takeovers.  The registry is asked about a holder read one round trip     *)
(* earlier, and the compare-and-swap runs one round trip later still.       *)

\* A lease that was read is never ahead of the card, and if no generation was
\* awarded since, its holder still holds the seat or nobody does.
SnapOK(l) == /\ l.gen \in Nat /\ l.gen <= lease.gen
             /\ l.gen = lease.gen => lease.conv \in {l.conv, NoConv}
SnapInv   == \A k \in Calls : Answered(k, "get") => SnapOK(calls[k].ans.lease)

\* A claim in transit that calls the holder of its generation dead is right
\* that this generation lapsed, if the card is still at it.
MsgOK(m) == /\ m.expectGen \in Nat /\ m.expectGen <= lease.gen
            /\ m.expectGen = lease.gen /\ ~m.alive => lease.gen \in lapsed
MsgInv   == \A i \in 1..Len(net) : net[i].op = "claim" => MsgOK(net[i])

\* The history of lapses is complete.
LapseInv == lease.conv \notin live => lease.gen \in lapsed

TakeInv == TInv /\ SnapInv /\ MsgInv /\ LapseInv

\* What a step may do to the card without making a read lease wrong, and which
\* reads and claims it may leave behind.
LeaseMono == /\ lease.gen <= lease'.gen
             /\ lease'.gen = lease.gen => lease'.conv \in {lease.conv, NoConv}
OldReads  == \A k \in Calls : Answered(k, "get")' =>
                 Answered(k, "get") /\ calls'[k].ans = calls[k].ans
OldMsgs   == \A i \in 1..Len(net') : net'[i].op = "claim" =>
                 \E j \in 1..Len(net) : net'[i] = net[j]

\* A step that adds no read and no claim, and moves the card only forward,
\* keeps both facts; a lapse is never forgotten.
LEMMA TakeKept ==
    ASSUME TInv, TInv', LeaseMono, lapsed \subseteq lapsed'
    PROVE  /\ SnapInv /\ OldReads => SnapInv'
           /\ MsgInv /\ OldMsgs => MsgInv'
           /\ \A l : SnapOK(l) => SnapOK(l)'
           /\ \A m : MsgOK(m) => MsgOK(m)'
  <1>1. lease.gen \in Nat /\ lease'.gen \in Nat
    BY DEF TInv, TypeOK, Lease
  <1>2. ASSUME NEW l, SnapOK(l) PROVE SnapOK(l)'
    BY <1>1, <1>2 DEF SnapOK, LeaseMono
  <1>3. ASSUME NEW m, MsgOK(m) PROVE MsgOK(m)'
    BY <1>1, <1>3 DEF MsgOK, LeaseMono
  <1>4. SnapInv /\ OldReads => SnapInv'
    <2> SUFFICES ASSUME SnapInv, OldReads, NEW k \in Calls, Answered(k, "get")'
                 PROVE  SnapOK(calls[k].ans.lease)'
      BY DEF SnapInv
    <2>1. SnapOK(calls[k].ans.lease) /\ calls'[k].ans = calls[k].ans
      BY DEF OldReads, SnapInv
    <2>2. \A l : l = calls[k].ans.lease => SnapOK(l)'
      BY <1>2, <2>1
    <2> QED BY <2>1, <2>2 DEF SnapOK
  <1>5. MsgInv /\ OldMsgs => MsgInv'
    <2> SUFFICES ASSUME MsgInv, OldMsgs, NEW i \in 1..Len(net'), net'[i].op = "claim"
                 PROVE  MsgOK(net[i])'
      BY DEF MsgInv
    <2>1. PICK j \in 1..Len(net) : net'[i] = net[j]
      BY DEF OldMsgs
    <2>2. MsgOK(net[j])
      BY <2>1 DEF MsgInv
    <2>3. \A m : m = net[j] => MsgOK(m)'
      BY <1>3, <2>2
    <2> QED BY <2>1, <2>3 DEF MsgOK
  <1> QED BY <1>2, <1>3, <1>4, <1>5

\* A call that enters another phase awaits a new answer.
LEMMA EnterReads ==
    ASSUME CallsOK, NEW k \in Calls, NEW phase, NEW outcome, Enter(k, phase, outcome)
    PROVE  OldReads
  <1>1. calls[k] \in Call
    BY DEF CallsOK
  <1>2. \A j \in Calls : j # k => calls'[j] = calls[j]
    BY DEF Enter, CallsOK
  <1>3. calls'[k] = [calls[k] EXCEPT !.phase = phase, !.ans = NoAnswer, !.outcome = outcome]
    BY DEF Enter, CallsOK
  <1>4. calls'[k].ans = NoAnswer
    BY <1>1, <1>3 DEF Call
  <1> QED BY <1>2, <1>4 DEF OldReads, Answered

\* An answer to anything but a read is not a read.
LEMMA RespondReads ==
    ASSUME CallsOK, NEW m \in Request, NEW ans, Respond(m, ans), m.op # "get"
    PROVE  OldReads
  <1>1. m.call \in Calls /\ calls[m.call] \in Call
    BY DEF CallsOK, Request
  <1>2. CASE calls[m.call].phase = m.op
    <2>1. \A j \in Calls : j # m.call => calls'[j] = calls[j]
      BY <1>2 DEF Respond, CallsOK
    <2>2. calls'[m.call] = [calls[m.call] EXCEPT !.ans = ans]
      BY <1>1, <1>2 DEF Respond, CallsOK
    <2>3. calls'[m.call].phase # "get"
      BY <1>1, <1>2, <2>2 DEF Call
    <2> QED BY <2>1, <2>3 DEF OldReads, Answered
  <1>3. CASE calls[m.call].phase # m.op
    BY <1>3 DEF Respond, OldReads, Answered
  <1> QED BY <1>2, <1>3

\* Taking the first request off the queue leaves old requests only.
LEMMA TailMsgs == ASSUME NetOK, net # <<>>, net' = Tail(net) PROVE OldMsgs
  <1>1. Len(net') = Len(net) - 1 /\ \A i \in 1..Len(net') : net'[i] = net[i + 1]
    BY DEF NetOK
  <1>2. \A i \in 1..Len(net') : i + 1 \in 1..Len(net)
    BY <1>1 DEF NetOK
  <1> QED BY <1>1, <1>2 DEF OldMsgs

\* Adding a request leaves the old ones in place.
LEMMA AppendMsgs ==
    ASSUME NetOK, NEW m \in Request, net' = Append(net, m)
    PROVE  /\ m.op # "claim" => OldMsgs
           /\ Len(net') = Len(net) + 1 /\ net'[Len(net) + 1] = m
           /\ \A i \in 1..Len(net) : net'[i] = net[i]
  <1>1. /\ Len(net') = Len(net) + 1 /\ net'[Len(net) + 1] = m
        /\ \A i \in 1..Len(net) : net'[i] = net[i]
    BY AppendProperties DEF NetOK
  <1>2. Len(net) \in Nat
    BY DEF NetOK
  <1>3. \A i \in 1..Len(net') : i \in 1..Len(net) \/ i = Len(net) + 1
    BY <1>1, <1>2
  <1> QED BY <1>1, <1>3 DEF OldMsgs

\* Every step moves the card forward, and no lapse is forgotten.
LEMMA Forward == TInv /\ [Next]_vars => LeaseMono /\ lapsed \subseteq lapsed'
  <1> SUFFICES ASSUME TInv, [Next]_vars PROVE LeaseMono /\ lapsed \subseteq lapsed'
    OBVIOUS
  <1>1. CallsOK /\ NetOK /\ SeatsOK /\ DiskOK /\ RestOK /\ RegInv
    BY TypeParts DEF TInv
  <1>2. lease.gen \in Nat
    BY <1>1 DEF DiskOK, Lease
  <1>3. lapsed \subseteq lapsed'
    BY DEF Next, vars, disk, Lapse, SeatGet, SeatClaim, SeatRelease, LogAppend, SentinelRestart, Tick,
           RunClaim, Decided, Audited, RunRelease, Timeout, Deliver, HttpLost, Die, Unend, ClaimSeat, ReleaseSeat
  <1>4. CASE lease' = lease
    BY <1>2, <1>3, <1>4 DEF LeaseMono
  <1>5. CASE SeatClaim
    BY <1>1, <1>2, <1>3, <1>4, <1>5, ClaimStep DEF LeaseMono
  <1>6. CASE SeatRelease
    BY <1>1, <1>2, <1>3, <1>6, ReleaseStep DEF LeaseMono
  <1>7. CASE ~SeatClaim /\ ~SeatRelease
    BY <1>1, <1>4, <1>7, ReadStep
      DEF Next, vars, disk, SentinelRestart, Tick, RunClaim, Decided, Audited, RunRelease, Timeout,
          Deliver, HttpLost, Die, Unend, ClaimSeat, ReleaseSeat
  <1> QED BY <1>5, <1>6, <1>7

\* Only the sentinel's read adds a read lease, and it is the card itself.
LEMMA ReadsStep ==
    ASSUME TInv, TInv', SnapInv, [Next]_vars
    PROVE  SnapInv'
  <1>1. CallsOK /\ NetOK /\ SeatsOK /\ DiskOK /\ RestOK /\ RegInv
    BY TypeParts DEF TInv
  <1>2. OldReads => SnapInv'
    BY Forward, TakeKept
  <1>3. ASSUME calls' = calls PROVE OldReads
    BY <1>3 DEF OldReads, Answered
  <1>4. CASE SeatGet
    <2> DEFINE m == Head(net)
               a == [ok |-> TRUE, lease |-> lease, replaced |-> Never]
    <2>1. net # <<>> /\ lease' = lease /\ Respond(m, a)
      BY <1>4 DEF SeatGet, Handling, disk
    <2>2. m.call \in Calls /\ calls[m.call] \in Call
      BY <1>1, <2>1, HeadType DEF CallsOK
    <2>3. CASE calls[m.call].phase = m.op
      <3>1. calls' = [calls EXCEPT ![m.call] = [@ EXCEPT !.ans = a]]
        BY <2>1, <2>3 DEF Respond
      <3>2. \A j \in Calls : j # m.call => calls'[j] = calls[j]
        BY <1>1, <3>1 DEF CallsOK
      <3>3. calls'[m.call] = [calls[m.call] EXCEPT !.ans = a]
        BY <1>1, <2>2, <3>1 DEF CallsOK
      <3>4. calls'[m.call].ans = a
        BY <2>2, <3>3 DEF Call
      <3>5. ASSUME NEW k \in Calls, Answered(k, "get")' PROVE SnapOK(calls[k].ans.lease)'
        <4>1. CASE k = m.call
          <5>1. calls'[k].ans.lease = lease
            BY <3>4, <4>1
          <5> QED BY <1>1, <2>1, <5>1 DEF SnapOK, DiskOK, Lease
        <4>2. CASE k # m.call
          <5>1. Answered(k, "get") /\ calls'[k] = calls[k]
            BY <3>2, <3>5, <4>2 DEF Answered
          <5>2. SnapOK(calls[k].ans.lease)
            BY <5>1 DEF SnapInv
          <5> QED BY <2>1, <5>1, <5>2 DEF SnapOK
        <4> QED BY <4>1, <4>2
      <3> QED BY <3>5 DEF SnapInv
    <2>4. CASE calls[m.call].phase # m.op
      BY <1>2, <1>3, <2>1, <2>4 DEF Respond
    <2> QED BY <2>3, <2>4
  <1>5. CASE SeatClaim \/ SeatRelease \/ LogAppend
    <2>1. net # <<>> /\ Head(net).op # "get"
      BY <1>5 DEF SeatClaim, SeatRelease, LogAppend, Handling
    <2>2. Head(net) \in Request
      BY <1>1, <2>1, HeadType
    <2>3. PICK a : Respond(Head(net), a)
      BY <1>5 DEF SeatClaim, SeatRelease, LogAppend
    <2> QED BY <1>1, <1>2, <2>1, <2>2, <2>3, RespondReads
  <1>6. ASSUME NEW k \in Calls,
               RunClaim(k) \/ Decided(k) \/ Audited(k) \/ RunRelease(k) \/ Timeout(k)
        PROVE  SnapInv'
    <2>1. PICK phase, outcome : Enter(k, phase, outcome)
      BY <1>6 DEF RunClaim, Decided, Audited, RunRelease, Timeout, Finish, Send
    <2> QED BY <1>1, <1>2, <2>1, EnterReads
  <1>7. ASSUME NEW k \in Calls, Deliver(k) PROVE SnapInv'
    <2>1. calls[k] \in Call /\ calls'[k] = [calls[k] EXCEPT !.phase = "over"]
          /\ \A j \in Calls : j # k => calls'[j] = calls[j]
      BY <1>1, <1>7 DEF Deliver, CallsOK
    <2>2. calls'[k].phase # "get"
      BY <2>1 DEF Call
    <2> QED BY <1>2, <2>1, <2>2 DEF OldReads, Answered
  <1>8. ASSUME NEW c \in Convs, NEW k \in Calls, ClaimSeat(c, k) \/ ReleaseSeat(c, k) PROVE SnapInv'
    <2>1. PICK action, op : Open(c, k, action, op)
      BY <1>8 DEF ClaimSeat, ReleaseSeat
    <2>2. /\ calls'[k] = [Unused EXCEPT !.conv = c, !.action = action, !.phase = op]
          /\ \A j \in Calls : j # k => calls'[j] = calls[j]
      BY <1>1, <2>1 DEF CallsOK, Open
    <2>3. calls'[k].ans = NoAnswer
      BY <2>2 DEF Unused
    <2> QED BY <1>2, <2>2, <2>3 DEF OldReads, Answered
  <1>9. CASE SentinelRestart
    <2>1. ASSUME NEW k \in Calls PROVE calls'[k].ans = NoAnswer
      <3>1. calls[k] \in Call /\ calls'[k] = [calls[k] EXCEPT !.ans = NoAnswer]
        BY <1>1, <1>9 DEF SentinelRestart, CallsOK
      <3> QED BY <3>1 DEF Call
    <2> QED BY <1>2, <2>1 DEF OldReads, Answered
  <1>10. CASE calls' = calls
    BY <1>2, <1>3, <1>10
  <1> QED BY <1>4, <1>5, <1>6, <1>7, <1>8, <1>9, <1>10 DEF Next, vars, Tick, HttpLost, Die, Unend

\* Only runClaim adds a claim, and it asks the registry about the lease it read.
LEMMA MsgsStep ==
    ASSUME TInv, TInv', SnapInv, MsgInv, LapseInv, [Next]_vars
    PROVE  MsgInv'
  <1>1. CallsOK /\ NetOK /\ SeatsOK /\ DiskOK /\ RestOK /\ RegInv
    BY TypeParts DEF TInv
  <1>2. OldMsgs => MsgInv'
    BY Forward, TakeKept
  <1>3. ASSUME net' = net PROVE OldMsgs
    BY <1>3 DEF OldMsgs
  <1>4. CASE SeatGet \/ SeatClaim \/ SeatRelease \/ LogAppend
    BY <1>1, <1>2, <1>4, TailMsgs DEF SeatGet, SeatClaim, SeatRelease, LogAppend, Handling
  <1>5. CASE SentinelRestart
    BY <1>2, <1>5 DEF SentinelRestart, OldMsgs
  <1>6. ASSUME NEW k \in Calls, RunClaim(k) PROVE MsgInv'
    <2> DEFINE held == calls[k].ans.lease
               m    == Req("claim", k, held.gen, HolderIsAlive(held))
    <2>1. CASE net' = net
      BY <1>2, <1>3, <2>1
    <2>2. CASE net' = Append(net, m)
      <3>1. SnapOK(held)
        BY <1>6 DEF RunClaim, SnapInv
      <3>2. HolderIsAlive(held) \in BOOLEAN /\ held.gen \in Nat
        BY <3>1 DEF HolderIsAlive, SnapOK
      <3>3. m \in Request /\ m.expectGen = held.gen /\ (m.alive <=> held.conv \in live)
        BY <3>2 DEF Req, Request, HolderIsAlive
      <3>4. MsgOK(m)
        <4> HIDE DEF m
        <4>1. NoConv \notin live
          BY <1>1, SeatAssumption DEF SeatsOK
        <4> QED BY <3>1, <3>3, <4>1 DEF MsgOK, SnapOK, LapseInv
      <3>5. lease' = lease /\ lapsed' = lapsed
        BY <1>6 DEF RunClaim, disk
      <3> HIDE DEF m
      <3>6. /\ Len(net') = Len(net) + 1 /\ net'[Len(net) + 1] = m
            /\ \A i \in 1..Len(net) : net'[i] = net[i]
        BY <1>1, <2>2, <3>3, AppendMsgs
      <3>7. ASSUME NEW i \in 1..Len(net'), net'[i].op = "claim" PROVE MsgOK(net[i])'
        <4>1. CASE i \in 1..Len(net)
          <5>1. MsgOK(net[i]) /\ net'[i] = net[i]
            BY <3>6, <3>7, <4>1 DEF MsgInv
          <5> QED BY <3>5, <5>1 DEF MsgOK
        <4>2. CASE i = Len(net) + 1
          BY <3>4, <3>5, <3>6, <4>2 DEF MsgOK
        <4> QED BY <1>1, <3>6, <4>1, <4>2 DEF NetOK
      <3> QED BY <3>7 DEF MsgInv
    <2> QED BY <1>6, <2>1, <2>2 DEF RunClaim, Send
  <1>7. ASSUME NEW k \in Calls, Decided(k) PROVE MsgInv'
    <2>1. CASE net' = net
      BY <1>2, <1>3, <2>1
    <2>2. CASE net' = Append(net, Req("log", k, 0, FALSE))
      <3>1. Req("log", k, 0, FALSE) \in Request /\ Req("log", k, 0, FALSE).op # "claim"
        BY DEF Req, Request
      <3> QED BY <1>1, <1>2, <2>2, <3>1, AppendMsgs
    <2> QED BY <1>7, <2>1, <2>2 DEF Decided, Send
  <1>8. ASSUME NEW c \in Convs, NEW k \in Calls, ClaimSeat(c, k) \/ ReleaseSeat(c, k) PROVE MsgInv'
    <2>1. PICK op \in {"get", "release"} : net' = Append(net, Req(op, k, 0, FALSE))
      BY <1>8 DEF ClaimSeat, ReleaseSeat, Open
    <2>2. Req(op, k, 0, FALSE) \in Request /\ Req(op, k, 0, FALSE).op # "claim"
      BY DEF Req, Request
    <2> QED BY <1>1, <1>2, <2>1, <2>2, AppendMsgs
  <1>9. CASE net' = net
    BY <1>2, <1>3, <1>9
  <1> QED BY <1>4, <1>5, <1>6, <1>7, <1>8, <1>9
        DEF Next, vars, Tick, HttpLost, Die, Unend, Audited, RunRelease, Timeout, Deliver

\* Whoever stops being alive, and whoever is granted a generation, is seen.
LEMMA LapseStep ==
    ASSUME TInv, LapseInv, [Next]_vars PROVE LapseInv'
  <1>1. CASE UNCHANGED <<lease, lapsed>> /\ live \subseteq live'
    BY <1>1 DEF LapseInv
  <1>2. CASE SeatClaim \/ SeatRelease
    BY <1>1, <1>2 DEF SeatClaim, SeatRelease, Lapse, LapseInv, seatSide
  <1>3. ASSUME NEW k \in Calls, Deliver(k) PROVE LapseInv'
    BY <1>3 DEF Deliver, Lapse, LapseInv
  <1>4. ASSUME NEW c \in Convs, Die(c) PROVE LapseInv'
    BY <1>4 DEF Die, Lapse, LapseInv
  <1> QED BY <1>1, <1>2, <1>3, <1>4
        DEF Next, vars, disk, seatSide, SeatGet, LogAppend, SentinelRestart, Tick, RunClaim, Decided,
            Audited, RunRelease, Timeout, HttpLost, Unend, ClaimSeat, ReleaseSeat

\* In a state where these facts hold, a grip changes hands only if its
\* holder is dead or stale.
LEMMA TakeoverStep ==
    ASSUME TakeInv, [Next]_vars, lease.conv # NoConv, lease'.conv \notin {NoConv, lease.conv}
    PROVE  lease.gen \in lapsed \/ clock - lease.at > StaleAfter
  <1>1. CallsOK /\ NetOK /\ SeatsOK /\ DiskOK /\ RestOK /\ RegInv
    BY TypeParts DEF TakeInv, TInv
  <1>2. SeatClaim
    BY <1>1, ReadStep, ReleaseStep
      DEF Next, vars, disk, SentinelRestart, Tick, RunClaim, Decided, Audited, RunRelease, Timeout,
          Deliver, HttpLost, Die, Unend, ClaimSeat, ReleaseSeat
  <1>3. net # <<>> /\ Head(net).op = "claim"
    BY <1>2 DEF SeatClaim, Handling
  <1>4. MsgOK(Head(net))
    <2>1. Head(net) = net[1] /\ 1 \in 1..Len(net)
      BY <1>1, <1>3, HeadType
    <2> QED BY <1>3, <2>1 DEF TakeInv, MsgInv
  <1>5. EvaluateLease(lease, Head(net).expectGen, Head(net).alive, clock)
    BY <1>1, <1>2, ClaimStep
  <1>6. lease.gen # 0 /\ lease.at \in Times
    BY <1>1 DEF RegInv
  <1>7. lease.at # NoTime
    BY <1>6, SeatAssumption DEF Times, NoTime
  <1> QED BY <1>4, <1>5, <1>6, <1>7 DEF EvaluateLease, IsStale, MsgOK

\* A holder inside the stale window that was never seen dead under its own
\* generation is never displaced, for any number of conversations, calls in
\* flight, lost answers, restarts and un-ended conversations: the two round
\* trips between reading the holder and swapping the lease are harmless because
\* the generation pins the holder whose death was observed (runClaim,
\* evaluateLease).
THEOREM TakeoversJustified == Spec => TakeoverJustified
  <1>1. Init => TakeInv
    BY InitTyped, UnusedType DEF Init, TakeInv, SnapInv, MsgInv, LapseInv, Answered, Unused, Never
  <1>2. TakeInv /\ [Next]_vars => TakeInv'
    BY NextTyped, ReadsStep, MsgsStep, LapseStep DEF TakeInv
  <1>3. TakeInv /\ [Next]_vars =>
          [(lease.conv # NoConv /\ lease'.conv \notin {NoConv, lease.conv}) =>
              (lease.gen \in lapsed \/ clock - lease.at > StaleAfter)]_vars
    BY TakeoverStep
  <1> QED BY <1>1, <1>2, <1>3, PTL DEF Spec, TakeoverJustified

-----------------------------------------------------------------------------
(* The grip.  A seat that was told it holds the card can lose the grip to   *)
(* its own release only, so no release of its may still be on the way, not   *)
(* even while the answer that will tell it so is.                            *)

\* No release of c is on its way to the sentinel, or each is ahead of call k's read.
ReleaseAt(i, c) == net[i].op = "release" /\ calls[net[i].call].conv = c
Undone(c)    == \A i \in 1..Len(net) : ~ReleaseAt(i, c)
Behind(c, k) == \A i, j \in 1..Len(net) :
                    ReleaseAt(i, c) /\ net[j].op = "get" /\ net[j].call = k => i < j

\* c has the grip, or a later generation went to somebody else.
Owned(c) == lease.conv = c \/ (grants # <<>> /\ grants[Len(grants)] # c)

\* A call that is past its read; and one that will tell its seat it holds the card.
Holding     == {"granted", "broke", "held"}
Past(r)     == \/ r.phase = "get" /\ r.ans # NoAnswer
               \/ r.phase \in {"claim", "log"}
               \/ r.phase = "reply" /\ r.outcome \in Holding
Promised(r) == \/ r.phase = "get" /\ r.ans # NoAnswer /\ r.ans.lease.conv = r.conv
               \/ r.phase = "claim" /\ r.ans # NoAnswer /\ r.ans.ok
               \/ r.phase \in {"log", "reply"} /\ r.outcome \in Holding

\* A call is nobody's until it is opened, and then of the seat that awaits it.
OpenInv == /\ \A k \in Calls : calls[k].phase = "unused" => calls[k].conv = NoConv
           /\ \A c \in Convs : asking[c] # NoCall => calls[asking[c]].conv = c
HeldInv == \A c \in Convs : seat[c] = "granted" => Undone(c) /\ Owned(c)
PastInv == \A c \in Convs : asking[c] # NoCall => (Past(calls[asking[c]]) => Undone(c))
TellInv == \A c \in Convs : asking[c] # NoCall => (Promised(calls[asking[c]]) => Owned(c))
LineInv == \A c \in Convs : asking[c] # NoCall => Behind(c, asking[c])
GripInv == TInv /\ OpenInv /\ HeldInv /\ PastInv /\ TellInv /\ LineInv

\* A call that was opened keeps its conversation.
SameConv == \A j \in Calls : calls[j].conv \in Convs => calls'[j].conv = calls[j].conv

\* Requests that are handled or lost reveal no release and overtake none.
LEMMA NetShrinks ==
    ASSUME CallsOK, NetOK, SameConv, NEW c \in Convs,
           net' = net \/ net' = <<>> \/ (net # <<>> /\ net' = Tail(net))
    PROVE  (Undone(c) => Undone(c)') /\ \A k \in Calls : Behind(c, k) => Behind(c, k)'
  <1>1. PICK d \in {0, 1} : \A i \in 1..Len(net') : i + d \in 1..Len(net) /\ net'[i] = net[i + d]
    <2>1. CASE net' = net \/ net' = <<>>
      <3>1. \A i \in 1..Len(net') : i + 0 \in 1..Len(net) /\ net'[i] = net[i + 0]
        BY <2>1 DEF NetOK
      <3> QED BY <3>1
    <2>2. CASE net # <<>> /\ net' = Tail(net)
      <3>1. \A i \in 1..Len(net') : i + 1 \in 1..Len(net) /\ net'[i] = net[i + 1]
        BY <2>2 DEF NetOK
      <3> QED BY <3>1
    <2> QED BY <2>1, <2>2
  <1>2. ASSUME NEW i \in 1..Len(net'), ReleaseAt(i, c)' PROVE i + d \in 1..Len(net) /\ ReleaseAt(i + d, c)
    <2>1. i + d \in 1..Len(net) /\ net'[i] = net[i + d] /\ net[i + d] \in Request
      BY <1>1 DEF NetOK
    <2>2. calls'[net[i + d].call].conv = calls[net[i + d].call].conv
      BY <2>1 DEF SameConv, NetOK, Request
    <2> QED BY <1>2, <2>1, <2>2 DEF ReleaseAt
  <1>3. Undone(c) => Undone(c)'
    BY <1>2 DEF Undone
  <1>4. ASSUME NEW k \in Calls, Behind(c, k), NEW i \in 1..Len(net'), NEW j \in 1..Len(net'),
               ReleaseAt(i, c)', net'[j].op = "get", net'[j].call = k
        PROVE  i < j
    <2>1. i + d \in 1..Len(net) /\ ReleaseAt(i + d, c)
      BY <1>2, <1>4
    <2>2. j + d \in 1..Len(net) /\ net[j + d].op = "get" /\ net[j + d].call = k
      BY <1>1, <1>4
    <2>3. i + d < j + d
      BY <1>4, <2>1, <2>2 DEF Behind
    <2> QED BY <2>3
  <1> QED BY <1>3, <1>4 DEF Behind

\* Nor does a new request that is no release of c.
LEMMA NetGrows ==
    ASSUME CallsOK, NetOK, SameConv, NEW c \in Convs, NEW m \in Request, net' = Append(net, m),
           m.op = "release" => calls'[m.call].conv # c
    PROVE  (Undone(c) => Undone(c)') /\ \A k \in Calls : Behind(c, k) => Behind(c, k)'
  <1>1. /\ Len(net') = Len(net) + 1 /\ net'[Len(net) + 1] = m /\ Len(net) \in Nat
        /\ \A i \in 1..Len(net) : net'[i] = net[i]
    BY AppendMsgs DEF NetOK
  <1>2. ASSUME NEW i \in 1..Len(net'), ReleaseAt(i, c)' PROVE i \in 1..Len(net) /\ ReleaseAt(i, c)
    <2>1. i # Len(net) + 1
      BY <1>1, <1>2 DEF ReleaseAt
    <2>2. i \in 1..Len(net) /\ net'[i] = net[i] /\ net[i] \in Request
      BY <1>1, <2>1 DEF NetOK
    <2>3. calls'[net[i].call].conv = calls[net[i].call].conv
      BY <2>2 DEF SameConv, NetOK, Request
    <2> QED BY <1>2, <2>2, <2>3 DEF ReleaseAt
  <1>3. Undone(c) => Undone(c)'
    BY <1>2 DEF Undone
  <1>4. ASSUME NEW k \in Calls, Behind(c, k), NEW i \in 1..Len(net'), NEW j \in 1..Len(net'),
               ReleaseAt(i, c)', net'[j].op = "get", net'[j].call = k
        PROVE  i < j
    <2>1. i \in 1..Len(net) /\ ReleaseAt(i, c)
      BY <1>2, <1>4
    <2>2. CASE j \in 1..Len(net)
      <3>1. net[j].op = "get" /\ net[j].call = k
        BY <1>1, <1>4, <2>2
      <3> QED BY <1>4, <2>1, <2>2, <3>1 DEF Behind
    <2>3. CASE j = Len(net) + 1
      BY <1>1, <2>1, <2>3
    <2> QED BY <1>1, <2>2, <2>3
  <1> QED BY <1>3, <1>4 DEF Behind

\* Every step leaves an opened call to its conversation.
LEMMA ConvsKept == TInv /\ OpenInv /\ [Next]_vars => SameConv /\ OpenInv'
  <1> SUFFICES ASSUME TInv, OpenInv, [Next]_vars PROVE SameConv /\ OpenInv'
    OBVIOUS
  <1>1. CallsOK /\ NetOK /\ SeatsOK
    BY TypeParts DEF TInv
  <1>2. ASSUME UNCHANGED asking, NEW k \in Calls, NEW r, calls' = [calls EXCEPT ![k] = r],
               r.conv = calls[k].conv, r.phase = "unused" => calls[k].phase = "unused"
        PROVE  SameConv /\ OpenInv'
    <2>1. \A j \in Calls : calls'[j] = IF j = k THEN r ELSE calls[j]
      BY <1>1, <1>2 DEF CallsOK
    <2>2. \A c \in Convs : asking[c] \in Calls \cup {NoCall}
      BY <1>1 DEF SeatsOK
    <2> QED BY <1>2, <2>1, <2>2 DEF SameConv, OpenInv
  <1>3. ASSUME calls' = calls, \A c \in Convs : asking'[c] \in {asking[c], NoCall}
        PROVE  SameConv /\ OpenInv'
    BY <1>3 DEF SameConv, OpenInv
  <1>4. CASE SeatGet \/ SeatClaim \/ SeatRelease \/ LogAppend
    <2>1. asking' = asking /\ net # <<>>
      BY <1>4 DEF SeatGet, SeatClaim, SeatRelease, LogAppend, seatSide, Handling
    <2>2. PICK a : Respond(Head(net), a)
      BY <1>4 DEF SeatGet, SeatClaim, SeatRelease, LogAppend
    <2> DEFINE k == Head(net).call
               r == [calls[k] EXCEPT !.ans = a]
    <2>3. k \in Calls /\ calls[k] \in Call
      BY <1>1, <2>1, HeadType DEF CallsOK
    <2>4. r.conv = calls[k].conv /\ r.phase = calls[k].phase
      BY <2>3 DEF Call
    <2>5. calls' = calls \/ calls' = [calls EXCEPT ![k] = r]
      BY <2>2 DEF Respond
    <2> HIDE DEF k, r
    <2> QED BY <1>2, <1>3, <2>1, <2>3, <2>4, <2>5
  <1>5. CASE SentinelRestart
    <2>1. ASSUME NEW k \in Calls PROVE calls'[k].conv = calls[k].conv /\ calls'[k].phase = calls[k].phase
      <3>1. calls[k] \in Call /\ calls'[k] = [calls[k] EXCEPT !.ans = NoAnswer]
        BY <1>1, <1>5 DEF SentinelRestart, CallsOK
      <3> QED BY <3>1 DEF Call
    <2>2. \A c \in Convs : asking'[c] = asking[c] /\ asking[c] \in Calls \cup {NoCall}
      BY <1>1, <1>5 DEF SeatsOK, SentinelRestart, seatSide
    <2> QED BY <2>1, <2>2 DEF SameConv, OpenInv
  <1>6. ASSUME NEW k \in Calls,
               RunClaim(k) \/ Decided(k) \/ Audited(k) \/ RunRelease(k) \/ Timeout(k)
        PROVE  SameConv /\ OpenInv'
    <2>0. PICK phase \in {"claim", "log", "reply"} : \E outcome : Enter(k, phase, outcome)
      BY <1>6 DEF RunClaim, Decided, Audited, RunRelease, Timeout, Finish, Send
    <2>1. PICK outcome : Enter(k, phase, outcome)
      BY <2>0
    <2> DEFINE r == [calls[k] EXCEPT !.phase = phase, !.ans = NoAnswer, !.outcome = outcome]
    <2>2. r.conv = calls[k].conv /\ r.phase # "unused"
      BY <1>1 DEF CallsOK, Call
    <2>3. calls' = [calls EXCEPT ![k] = r] /\ asking' = asking
      BY <1>6, <2>1 DEF Enter, RunClaim, Decided, Audited, RunRelease, Timeout, seatSide
    <2> HIDE DEF r
    <2> QED BY <1>2, <2>2, <2>3
  <1>7. ASSUME NEW k \in Calls, Deliver(k) PROVE SameConv /\ OpenInv'
    <2> DEFINE r == [calls[k] EXCEPT !.phase = "over"]
    <2>1. r.conv = calls[k].conv /\ r.phase = "over"
      BY <1>1 DEF CallsOK, Call
    <2>2. calls' = [calls EXCEPT ![k] = r]
      BY <1>7 DEF Deliver
    <2> HIDE DEF r
    <2>3. \A j \in Calls : calls'[j] = IF j = k THEN r ELSE calls[j]
      BY <1>1, <2>2 DEF CallsOK
    <2>4. \A c \in Convs : asking'[c] \in {asking[c], NoCall} /\ asking[c] \in Calls \cup {NoCall}
      BY <1>1, <1>7 DEF SeatsOK, Deliver, seatSide
    <2> QED BY <2>1, <2>3, <2>4 DEF SameConv, OpenInv
  <1>8. ASSUME NEW c \in Convs, NEW k \in Calls, ClaimSeat(c, k) \/ ReleaseSeat(c, k)
        PROVE  SameConv /\ OpenInv'
    <2>1. PICK action \in {"claim", "release"}, op \in {"get", "release"} : Open(c, k, action, op)
      BY <1>8 DEF ClaimSeat, ReleaseSeat
    <2> DEFINE r == [Unused EXCEPT !.conv = c, !.action = action, !.phase = op]
    <2>2. r.conv = c /\ r.phase # "unused"
      BY DEF Unused
    <2>3. \A j \in Calls : calls'[j] = IF j = k THEN r ELSE calls[j]
      BY <1>1, <2>1 DEF CallsOK, Open
    <2>4. calls[k].conv = NoConv
      BY <2>1 DEF OpenInv, Open
    <2>5. \A d \in Convs : /\ asking'[d] = IF d = c THEN k ELSE asking[d]
                           /\ asking[d] \in Calls \cup {NoCall}
      BY <1>1, <2>1 DEF SeatsOK, Open
    <2> HIDE DEF r
    <2> QED BY <2>2, <2>3, <2>4, <2>5, SeatAssumption DEF SameConv, OpenInv
  <1>9. ASSUME NEW c \in Convs, HttpLost(c) \/ Die(c) \/ Unend(c) PROVE SameConv /\ OpenInv'
    BY <1>1, <1>3, <1>9 DEF HttpLost, Die, Unend, SeatsOK
  <1>10. CASE Tick \/ UNCHANGED vars
    BY <1>3, <1>10 DEF Tick, vars, seatSide
  <1> QED BY <1>4, <1>5, <1>6, <1>7, <1>8, <1>9, <1>10 DEF Next

\* While no release of its is on the way, nobody else can take c's grip without
\* being granted a later generation.
LEMMA OwnedKept ==
    ASSUME TInv, [Next]_vars, NEW c \in Convs, Undone(c), Owned(c)
    PROVE  Owned(c)'
  <1>1. CallsOK /\ NetOK /\ DiskOK /\ RestOK /\ RegInv
    BY TypeParts DEF TInv
  <1>2. CASE UNCHANGED <<lease, grants>>
    BY <1>2 DEF Owned
  <1>3. CASE SeatClaim
    <2> DEFINE d == calls[Head(net).call].conv
    <2>1. d \in Convs
      BY <1>1, <1>3, HeadType DEF SeatClaim, Handling
    <2>2. CASE lease'.conv = d /\ grants' = Append(grants, lease'.conv)
      <3>1. grants' # <<>> /\ grants'[Len(grants')] = d
        BY <1>1, <2>1, <2>2, AppendProperties DEF DiskOK
      <3> QED BY <2>2, <3>1 DEF Owned
    <2> QED BY <1>1, <1>2, <1>3, <2>2, ClaimStep
  <1>4. CASE SeatRelease
    <2>1. net # <<>> /\ Head(net).op = "release" /\ grants' = grants
      BY <1>4 DEF SeatRelease, Handling
    <2>2. calls[Head(net).call].conv # c
      <3>1. Head(net) = net[1] /\ 1 \in 1..Len(net)
        BY <1>1, <2>1, HeadType
      <3> QED BY <2>1, <3>1 DEF Undone, ReleaseAt
    <2>3. lease.conv = c => lease' = lease
      BY <1>4, <2>2 DEF SeatRelease, MayRelease
    <2> QED BY <2>1, <2>3 DEF Owned
  <1>5. CASE ~SeatClaim /\ ~SeatRelease
    BY <1>1, <1>2, <1>5, ReadStep
      DEF Next, vars, disk, SentinelRestart, Tick, RunClaim, Decided, Audited, RunRelease, Timeout,
          Deliver, HttpLost, Die, Unend, ClaimSeat, ReleaseSeat
  <1> QED BY <1>3, <1>4, <1>5

\* What a step has to leave alone for the seats that stay as they are.
Calm == /\ \A c \in Convs : Undone(c) => Undone(c)'
        /\ \A c \in Convs : \A k \in Calls : Behind(c, k) => Behind(c, k)'
        /\ \A c \in Convs : Undone(c) /\ Owned(c) => Owned(c)'

\* A promise is made past the read.
LEMMA PromisedPast == \A r : Promised(r) => Past(r)
  BY DEF Promised, Past

\* A step on which no seat hears anything, no call gets past its read while a
\* release is on the way, and no promise is made to a seat without the grip.
LEMMA SeatsWait ==
    ASSUME GripInv, Calm, UNCHANGED <<asking, seat>>, TInv', OpenInv',
           \A c \in Convs : asking[c] # NoCall /\ Past(calls'[asking[c]]) => Undone(c),
           \A c \in Convs : asking[c] # NoCall /\ Promised(calls'[asking[c]]) => Owned(c)'
    PROVE  GripInv'
  <1>1. \A c \in Convs : asking[c] \in Calls \cup {NoCall}
    BY DEF GripInv, TInv, TypeOK
  <1>2. HeldInv'
    BY DEF GripInv, HeldInv, Calm
  <1>3. PastInv'
    <2> SUFFICES ASSUME NEW c \in Convs, asking'[c] # NoCall, Past(calls'[asking'[c]])
                 PROVE  Undone(c)'
      BY DEF PastInv, Past
    <2> QED BY DEF Calm
  <1>4. TellInv'
    <2> SUFFICES ASSUME NEW c \in Convs, asking'[c] # NoCall, Promised(calls'[asking'[c]])
                 PROVE  Owned(c)'
      BY DEF TellInv, Promised
    <2> QED OBVIOUS
  <1>5. LineInv'
    <2> SUFFICES ASSUME NEW c \in Convs, asking'[c] # NoCall PROVE Behind(c, asking[c])'
      BY DEF LineInv, Behind
    <2>1. Behind(c, asking[c]) /\ asking[c] \in Calls
      BY <1>1 DEF GripInv, LineInv
    <2>2. Behind(c, asking[c])'
      BY <2>1 DEF Calm
    <2> QED BY <2>2 DEF Behind
  <1> QED BY <1>2, <1>3, <1>4, <1>5 DEF GripInv

\* Steps that add no release keep the queue's order and everybody's grip.
LEMMA CalmStep ==
    ASSUME GripInv, [Next]_vars, \A c \in Convs : \A k \in Calls : ~ReleaseSeat(c, k)
    PROVE  Calm /\ SameConv /\ OpenInv' /\ TInv'
  <1>1. CallsOK /\ NetOK /\ SeatsOK /\ TInv /\ OpenInv
    BY TypeParts DEF GripInv, TInv
  <1>2. SameConv /\ OpenInv' /\ TInv'
    BY <1>1, ConvsKept, NextTyped
  <1>3. CASE net' = net \/ net' = <<>> \/ (net # <<>> /\ net' = Tail(net))
    BY <1>1, <1>2, <1>3, NetShrinks, OwnedKept DEF Calm
  <1>4. ASSUME NEW m \in Request, net' = Append(net, m), m.op # "release"
        PROVE  Calm
    BY <1>1, <1>2, <1>4, NetGrows, OwnedKept DEF Calm
  <1>5. ASSUME NEW k \in Calls, RunClaim(k) PROVE Calm
    <2>1. CASE net' = net
      BY <1>3, <2>1, <1>2
    <2>2. ASSUME net' # net PROVE Calm
      <3> DEFINE held == calls[k].ans.lease
      <3>1. net' = Append(net, Req("claim", k, held.gen, HolderIsAlive(held)))
        BY <1>5, <2>2 DEF RunClaim, Send
      <3>2. calls[k] \in Call /\ calls[k].ans # NoAnswer
        BY <1>1, <1>5 DEF RunClaim, Answered, CallsOK
      <3>3. held.gen \in Nat /\ HolderIsAlive(held) \in BOOLEAN
        BY <3>2 DEF Call, Answer, Lease, HolderIsAlive
      <3>4. /\ Req("claim", k, held.gen, HolderIsAlive(held)) \in Request
            /\ Req("claim", k, held.gen, HolderIsAlive(held)).op # "release"
        BY <3>3 DEF Req, Request
      <3> QED BY <1>4, <3>1, <3>4
    <2> QED BY <2>1, <2>2
  <1>6. ASSUME NEW k \in Calls, Decided(k) PROVE Calm
    <2>1. net' = net \/ net' = Append(net, Req("log", k, 0, FALSE))
      BY <1>6 DEF Decided, Send
    <2>2. Req("log", k, 0, FALSE) \in Request /\ Req("log", k, 0, FALSE).op # "release"
      BY DEF Req, Request
    <2> QED BY <1>2, <1>3, <1>4, <2>1, <2>2
  <1>7. ASSUME NEW c \in Convs, NEW k \in Calls, ClaimSeat(c, k) PROVE Calm
    <2>1. net' = Append(net, Req("get", k, 0, FALSE))
      BY <1>7 DEF ClaimSeat, Open
    <2>2. Req("get", k, 0, FALSE) \in Request /\ Req("get", k, 0, FALSE).op # "release"
      BY DEF Req, Request
    <2> QED BY <1>4, <2>1, <2>2
  <1> QED BY <1>2, <1>3, <1>5, <1>6, <1>7
        DEF Next, vars, SeatGet, SeatClaim, SeatRelease, LogAppend, Handling, SentinelRestart, Tick,
            Audited, RunRelease, Timeout, Deliver, HttpLost, Die, Unend

\* What the sentinel's answer makes of a call.
LEMMA AnswerOf ==
    ASSUME CallsOK, NEW m \in Request, NEW a, Respond(m, a), NEW k \in Calls
    PROVE  \/ calls'[k] = calls[k]
           \/ /\ k = m.call /\ calls[k].phase = m.op
              /\ calls'[k].phase = m.op /\ calls'[k].ans = a /\ calls'[k].conv = calls[k].conv
              /\ calls'[k].outcome = calls[k].outcome
  <1>1. m.call \in Calls /\ calls[m.call] \in Call
    BY DEF CallsOK, Request
  <1>2. CASE calls[m.call].phase = m.op
    <2>1. calls' = [calls EXCEPT ![m.call] = [calls[m.call] EXCEPT !.ans = a]]
      BY <1>2 DEF Respond
    <2>2. CASE k = m.call
      <3>1. calls'[k] = [calls[k] EXCEPT !.ans = a]
        BY <1>1, <2>1, <2>2 DEF CallsOK
      <3> QED BY <1>1, <1>2, <2>2, <3>1 DEF Call
    <2>3. CASE k # m.call
      BY <2>1, <2>3 DEF CallsOK
    <2> QED BY <2>2, <2>3
  <1>3. CASE calls[m.call].phase # m.op
    BY <1>3 DEF Respond
  <1> QED BY <1>2, <1>3

\* The sentinel promises a seat its card only when it has the grip, and no
\* answer overtakes a release of the same seat.
LEMMA GripSentinel ==
    ASSUME GripInv, [Next]_vars, SeatGet \/ SeatClaim \/ SeatRelease \/ LogAppend
    PROVE  GripInv'
  <1>1. CallsOK /\ NetOK /\ SeatsOK /\ RegInv /\ TInv /\ DiskOK /\ RestOK
    BY TypeParts DEF GripInv, TInv
  <1>2. net # <<>> /\ UNCHANGED <<asking, seat>>
    BY DEF SeatGet, SeatClaim, SeatRelease, LogAppend, Handling, seatSide
  <1> DEFINE m == Head(net)
  <1>3. m \in Request /\ m = net[1] /\ 1 \in 1..Len(net) /\ m.call \in Calls
        /\ calls[m.call].conv \in Convs
    BY <1>1, <1>2, HeadType
  <1>4. PICK a : /\ Respond(m, a)
                 /\ SeatGet => a.lease = lease
                 /\ SeatClaim => (a.ok => lease'.conv = calls[m.call].conv)
    BY DEF SeatGet, SeatClaim, SeatRelease, LogAppend
  <1>5. \/ SeatGet /\ m.op = "get" /\ UNCHANGED <<lease, grants>>
        \/ SeatClaim /\ m.op = "claim"
        \/ SeatRelease /\ m.op = "release"
        \/ LogAppend /\ m.op = "log"
    BY DEF SeatGet, SeatClaim, SeatRelease, LogAppend, Handling, disk
  <1>6. Calm /\ SameConv /\ OpenInv' /\ TInv'
    <2>1. UNCHANGED asking
      BY <1>2
    <2>2. ASSUME NEW c \in Convs, NEW k \in Calls, ReleaseSeat(c, k) PROVE FALSE
      <3>1. asking[c] = NoCall /\ asking' = [asking EXCEPT ![c] = k]
        BY <2>2 DEF ReleaseSeat, Open
      <3> QED BY <1>1, <2>1, <3>1, SeatAssumption DEF SeatsOK
    <2> QED BY <2>2, CalmStep
  <1>7. ASSUME NEW c \in Convs, asking[c] # NoCall
        PROVE  /\ asking[c] \in Calls /\ calls[asking[c]].conv = c
               /\ Past(calls[asking[c]]) => Undone(c)
               /\ Promised(calls[asking[c]]) => Owned(c)
               /\ Behind(c, asking[c])
    BY <1>1, <1>7 DEF SeatsOK, GripInv, OpenInv, PastInv, TellInv, LineInv
  <1> HIDE DEF m
  <1>8. ASSUME NEW c \in Convs, asking[c] # NoCall, Past(calls'[asking[c]]) PROVE Undone(c)
    <2> DEFINE k == asking[c]
    <2>1. CASE Past(calls[k])
      BY <1>7, <1>8, <2>1
    <2>2. CASE ~Past(calls[k])
      <3>1. k = m.call /\ calls[k].phase = m.op /\ calls'[k].phase = m.op
            /\ calls'[k].outcome = calls[k].outcome
        <4>1. k \in Calls /\ calls'[k] # calls[k]
          BY <1>7, <1>8, <2>2
        <4> HIDE DEF k
        <4> QED BY <1>1, <1>3, <1>4, <4>1, AnswerOf
      <3>2. m.op = "get"
        BY <1>8, <2>2, <3>1 DEF Past
      <3>3. \A i \in 1..Len(net) : ~ReleaseAt(i, c)
        <4>1. \A i \in 1..Len(net) : ReleaseAt(i, c) => i < 1
          BY <1>3, <1>7, <1>8, <3>1, <3>2 DEF Behind
        <4> QED BY <4>1
      <3> QED BY <3>3 DEF Undone
    <2> QED BY <2>1, <2>2
  <1>9. ASSUME NEW c \in Convs, asking[c] # NoCall, Promised(calls'[asking[c]]) PROVE Owned(c)'
    <2> DEFINE k == asking[c]
    <2>1. Undone(c)
      BY <1>8, <1>9, PromisedPast
    <2>2. CASE Promised(calls[k])
      BY <1>6, <1>7, <1>9, <2>1, <2>2 DEF Calm
    <2>3. CASE ~Promised(calls[k])
      <3>1. /\ k = m.call /\ calls[k].phase = m.op /\ calls'[k].phase = m.op /\ calls'[k].ans = a
            /\ calls'[k].outcome = calls[k].outcome /\ calls'[k].conv = c /\ calls[k].conv = c
        <4>1. k \in Calls /\ calls[k].conv = c /\ calls'[k] # calls[k]
          BY <1>7, <1>9, <2>3
        <4> HIDE DEF k
        <4>2. /\ k = m.call /\ calls[k].phase = m.op /\ calls'[k].phase = m.op
              /\ calls'[k].ans = a /\ calls'[k].conv = calls[k].conv /\ calls'[k].outcome = calls[k].outcome
          BY <1>1, <1>3, <1>4, <4>1, AnswerOf
        <4> QED BY <4>1, <4>2
      <3>2. \/ m.op = "get" /\ a.lease.conv = c
            \/ m.op = "claim" /\ a.ok
        BY <1>9, <2>3, <3>1 DEF Promised
      <3>3. CASE m.op = "get" /\ a.lease.conv = c
        BY <1>4, <1>5, <3>3 DEF Owned
      <3>4. CASE m.op = "claim" /\ a.ok
        BY <1>4, <1>5, <3>1, <3>4 DEF Owned
      <3> QED BY <3>2, <3>3, <3>4
    <2> QED BY <2>2, <2>3
  <1> QED BY <1>2, <1>6, <1>8, <1>9, SeatsWait

\* The broker passes on what the sentinel answered and adds no promise.
LEMMA GripBroker ==
    ASSUME GripInv, [Next]_vars, NEW k \in Calls,
           RunClaim(k) \/ Decided(k) \/ Audited(k) \/ RunRelease(k) \/ Timeout(k)
    PROVE  GripInv'
  <1>1. CallsOK /\ SeatsOK /\ calls[k] \in Call
    BY TypeParts DEF GripInv, TInv, CallsOK
  <1>2. UNCHANGED <<asking, seat, lease, grants>>
    BY DEF RunClaim, Decided, Audited, RunRelease, Timeout, seatSide, disk
  <1>3. PICK phase, o :
            /\ Enter(k, phase, o)
            /\ phase \in {"claim", "log"} \/ (phase = "reply" /\ o \in Holding) => Past(calls[k])
            /\ phase \in {"claim", "log", "reply"}
            /\ phase \in {"log", "reply"} /\ o \in Holding => Promised(calls[k])
    <2>1. CASE RunClaim(k)
      <3>1. Past(calls[k]) /\ (calls[k].ans.lease.conv = calls[k].conv => Promised(calls[k]))
        BY <2>1 DEF RunClaim, Answered, Past, Promised
      <3> QED BY <2>1, <3>1 DEF RunClaim, Finish, Send, Holding
    <2>2. CASE Decided(k)
      <3>1. Past(calls[k]) /\ (calls[k].ans.ok => Promised(calls[k]))
        BY <2>2 DEF Decided, Answered, Past, Promised
      <3>2. \/ calls[k].ans.ok /\ Enter(k, "reply", "granted")
            \/ calls[k].ans.ok /\ Enter(k, "log", "broke")
            \/ Enter(k, "log", "refused")
        BY <2>2 DEF Decided, Finish, Send
      <3>3. "refused" \notin Holding
        BY DEF Holding
      <3> QED BY <3>1, <3>2, <3>3
    <2>3. CASE Audited(k)
      BY <2>3 DEF Audited, Answered, Finish, Past, Promised
    <2>4. CASE RunRelease(k)
      BY <2>4 DEF RunRelease, Finish, Holding
    <2>5. CASE Timeout(k)
      BY <2>5 DEF Timeout, Finish, Past, Promised, Holding
    <2> QED BY <2>1, <2>2, <2>3, <2>4, <2>5
  <1>4. /\ calls'[k].phase = phase /\ calls'[k].ans = NoAnswer /\ calls'[k].outcome = o
        /\ \A j \in Calls : j # k => calls'[j] = calls[j]
    <2> DEFINE r == [calls[k] EXCEPT !.phase = phase, !.ans = NoAnswer, !.outcome = o]
    <2>1. r.phase = phase /\ r.ans = NoAnswer /\ r.outcome = o
      BY <1>1 DEF Call
    <2>2. calls' = [calls EXCEPT ![k] = r]
      BY <1>3 DEF Enter
    <2> HIDE DEF r
    <2> QED BY <1>1, <2>1, <2>2 DEF CallsOK
  <1>5. ASSUME NEW j \in Calls
        PROVE  /\ Past(calls'[j]) => Past(calls[j])
               /\ Promised(calls'[j]) => Promised(calls[j])
    <2>1. CASE j = k
      <3>1. Past(calls'[k]) => Past(calls[k])
        BY <1>3, <1>4 DEF Past
      <3>2. Promised(calls'[k]) => Promised(calls[k])
        BY <1>3, <1>4 DEF Promised
      <3> QED BY <2>1, <3>1, <3>2
    <2>2. CASE j # k
      BY <1>4, <2>2
    <2> QED BY <2>1, <2>2
  <1>6. Calm /\ OpenInv' /\ TInv'
    <2>1. ASSUME NEW c \in Convs, NEW j \in Calls, ReleaseSeat(c, j) PROVE FALSE
      <3>1. asking[c] = NoCall /\ asking' = [asking EXCEPT ![c] = j]
        BY <2>1 DEF ReleaseSeat, Open
      <3> QED BY <1>1, <1>2, <3>1, SeatAssumption DEF SeatsOK
    <2> QED BY <2>1, CalmStep
  <1>7. ASSUME NEW c \in Convs, asking[c] # NoCall
        PROVE  /\ Past(calls'[asking[c]]) => Undone(c)
               /\ Promised(calls'[asking[c]]) => Owned(c)
    <2>1. asking[c] \in Calls
      BY <1>1, <1>7 DEF SeatsOK
    <2> QED BY <1>5, <1>7, <2>1 DEF GripInv, PastInv, TellInv
  <1>8. ASSUME NEW c \in Convs, asking[c] # NoCall, Promised(calls'[asking[c]]) PROVE Owned(c)'
    BY <1>2, <1>7, <1>8 DEF Owned
  <1> QED BY <1>2, <1>6, <1>7, <1>8, SeatsWait

\* A restart of the sentinel forgets requests and answers, never a promise made.
LEMMA GripRestart ==
    ASSUME GripInv, [Next]_vars, SentinelRestart PROVE GripInv'
  <1>1. CallsOK /\ SeatsOK /\ UNCHANGED <<asking, seat, lease, grants>>
    BY TypeParts DEF GripInv, TInv, SentinelRestart, seatSide, disk
  <1>2. ASSUME NEW j \in Calls
        PROVE  /\ Past(calls'[j]) => Past(calls[j])
               /\ Promised(calls'[j]) => Promised(calls[j])
    <2>1. calls'[j] = [calls[j] EXCEPT !.ans = NoAnswer] /\ calls[j] \in Call
      BY <1>1 DEF SentinelRestart, CallsOK
    <2>2. calls'[j].phase = calls[j].phase /\ calls'[j].outcome = calls[j].outcome
          /\ calls'[j].ans = NoAnswer
      BY <2>1 DEF Call
    <2>3. Past(calls'[j]) => Past(calls[j])
      BY <2>2 DEF Past
    <2>4. Promised(calls'[j]) => Promised(calls[j])
      BY <2>2 DEF Promised
    <2> QED BY <2>3, <2>4
  <1>3. Calm /\ OpenInv' /\ TInv'
    <2>1. ASSUME NEW c \in Convs, NEW j \in Calls, ReleaseSeat(c, j) PROVE FALSE
      <3>1. asking[c] = NoCall /\ asking' = [asking EXCEPT ![c] = j]
        BY <2>1 DEF ReleaseSeat, Open
      <3> QED BY <1>1, <3>1, SeatAssumption DEF SeatsOK
    <2> QED BY <2>1, CalmStep
  <1>4. ASSUME NEW c \in Convs, asking[c] # NoCall
        PROVE  /\ Past(calls'[asking[c]]) => Undone(c)
               /\ Promised(calls'[asking[c]]) => Owned(c)'
    <2>1. asking[c] \in Calls
      BY <1>1, <1>4 DEF SeatsOK
    <2>2. Owned(c) => Owned(c)'
      BY <1>1 DEF Owned
    <2> QED BY <1>2, <1>4, <2>1, <2>2 DEF GripInv, PastInv, TellInv
  <1> QED BY <1>1, <1>3, <1>4, SeatsWait

\* The seat side of GripInv, for one seat.
SeatFine(c) == /\ seat[c] = "granted" => Undone(c) /\ Owned(c)
               /\ asking[c] # NoCall => /\ Past(calls[asking[c]]) => Undone(c)
                                        /\ Promised(calls[asking[c]]) => Owned(c)
                                        /\ Behind(c, asking[c])

\* GripInv is SeatFine of every seat.
LEMMA SeatByResult == GripInv <=> TInv /\ OpenInv /\ \A c \in Convs : SeatFine(c)
  BY DEF GripInv, HeldInv, PastInv, TellInv, LineInv, SeatFine

\* A seat that hears no promise and opens nothing stays as it should be.
LEMMA SeatKept ==
    ASSUME GripInv, Calm, NEW c \in Convs, SeatsOK,
           asking'[c] \in {asking[c], NoCall}, seat'[c] = "granted" => seat[c] = "granted",
           asking'[c] # NoCall => calls'[asking[c]] = calls[asking[c]]
    PROVE  SeatFine(c)'
  <1>1. SeatFine(c) /\ asking[c] \in Calls \cup {NoCall}
    BY SeatByResult DEF SeatsOK
  <1>2. seat'[c] = "granted" => (Undone(c) /\ Owned(c))'
    BY <1>1 DEF SeatFine, Calm
  <1>3. ASSUME asking'[c] # NoCall
        PROVE  /\ Past(calls'[asking'[c]]) => Undone(c)'
               /\ Promised(calls'[asking'[c]]) => Owned(c)'
               /\ Behind(c, asking[c])'
    <2>1. asking'[c] = asking[c] /\ calls'[asking'[c]] = calls[asking[c]] /\ asking[c] \in Calls
      BY <1>1, <1>3
    <2>2. Promised(calls[asking[c]]) => Past(calls[asking[c]])
      BY PromisedPast
    <2> QED BY <1>1, <1>3, <2>1, <2>2 DEF SeatFine, Calm
  <1>4. asking'[c] # NoCall => asking'[c] = asking[c]
    OBVIOUS
  <1> QED BY <1>2, <1>3, <1>4 DEF SeatFine, Past, Promised, Behind

\* A seat believes what it is told, and what it is told is so.
LEMMA GripDeliver ==
    ASSUME GripInv, [Next]_vars, NEW k \in Calls, Deliver(k) PROVE GripInv'
  <1>1. CallsOK /\ SeatsOK /\ calls[k] \in Call /\ calls[k].conv \in Convs
    BY TypeParts DEF GripInv, TInv, CallsOK, Deliver
  <1>2. ASSUME NEW c \in Convs, NEW j \in Calls, ReleaseSeat(c, j) PROVE FALSE
    <2>1. asking[c] = NoCall /\ asking'[c] = j
      BY <1>1, <1>2 DEF ReleaseSeat, Open, SeatsOK
    <2>2. asking'[c] \in {asking[c], NoCall}
      BY <1>1 DEF Deliver, seatSide, SeatsOK
    <2> QED BY <2>1, <2>2, SeatAssumption
  <1>3. Calm /\ OpenInv' /\ TInv'
    BY <1>2, CalmStep
  <1>4. ASSUME NEW c \in Convs PROVE SeatFine(c)'
    <2>1. asking'[c] \in {asking[c], NoCall} /\ (asking[c] = k => asking'[c] = NoCall)
      <3>1. asking[c] = k => c = calls[k].conv
        BY SeatAssumption DEF GripInv, OpenInv
      <3> QED BY <1>1, <3>1 DEF Deliver, seatSide, SeatsOK
    <2>2. asking'[c] # NoCall => calls'[asking[c]] = calls[asking[c]]
      BY <1>1, <2>1 DEF Deliver, CallsOK, SeatsOK
    <2>3. CASE seat'[c] = "granted" => seat[c] = "granted"
      BY <1>1, <1>3, <2>1, <2>2, <2>3, SeatKept
    <2>4. CASE seat'[c] = "granted" /\ seat[c] # "granted"
      <3>1. c = calls[k].conv /\ asking[c] = k /\ calls[k].phase = "reply"
        BY <1>1, <2>4 DEF Deliver, seatSide, SeatsOK
      <3>2. seat'[c] = Interpret(c, calls[k].action, calls[k].outcome)
        BY <1>1, <3>1 DEF Deliver, SeatsOK
      <3>3. calls[k].outcome \in Holding
        BY <2>4, <3>2 DEF Interpret, Proceed, Holding
      <3>4. Promised(calls[k]) /\ Past(calls[k])
        BY <3>1, <3>3 DEF Promised, Past
      <3>5. Undone(c) /\ Owned(c)
        BY <3>1, <3>4, SeatByResult, SeatAssumption DEF SeatFine
      <3>6. asking'[c] = NoCall /\ Undone(c)' /\ Owned(c)'
        BY <1>3, <2>1, <3>1, <3>5 DEF Calm
      <3> QED BY <3>6 DEF SeatFine
    <2> QED BY <2>3, <2>4
  <1> QED BY <1>3, <1>4 DEF GripInv, HeldInv, PastInv, TellInv, LineInv, SeatFine

\* Broken calls, deaths, un-endings and the clock promise nothing.
LEMMA GripQuiet ==
    ASSUME GripInv, [Next]_vars,
           Tick \/ UNCHANGED vars \/ \E c \in Convs : HttpLost(c) \/ Die(c) \/ Unend(c)
    PROVE  GripInv'
  <1>1. CallsOK /\ SeatsOK /\ calls' = calls
    BY TypeParts DEF GripInv, TInv, Tick, vars, HttpLost, Die, Unend
  <1>2. ASSUME NEW c \in Convs
        PROVE  asking'[c] \in {asking[c], NoCall} /\ (seat'[c] = "granted" => seat[c] = "granted")
    <2>1. CASE UNCHANGED <<asking, seat>>
      BY <2>1
    <2>2. ASSUME NEW d \in Convs, HttpLost(d) \/ Die(d) \/ Unend(d)
          PROVE  asking'[c] \in {asking[c], NoCall} /\ (seat'[c] = "granted" => seat[c] = "granted")
      BY <1>1, <2>2 DEF HttpLost, Die, Unend, SeatsOK, Proceed
    <2> QED BY <2>1, <2>2 DEF Tick, vars, seatSide
  <1>3. ASSUME NEW c \in Convs, NEW j \in Calls, ReleaseSeat(c, j) PROVE FALSE
    <2>1. asking[c] = NoCall /\ asking'[c] = j
      BY <1>1, <1>3 DEF ReleaseSeat, Open, SeatsOK
    <2> QED BY <1>2, <2>1, SeatAssumption
  <1>4. Calm /\ OpenInv' /\ TInv'
    BY <1>3, CalmStep
  <1>5. ASSUME NEW c \in Convs PROVE SeatFine(c)'
    BY <1>1, <1>2, <1>4, SeatKept
  <1> QED BY <1>4, <1>5 DEF GripInv, HeldInv, PastInv, TellInv, LineInv, SeatFine

\* A call that is opened has no read on the way, and a release is sent only by a
\* seat that lets go.
LEMMA GripOpen ==
    ASSUME GripInv, [Next]_vars, NEW c \in Convs, NEW k \in Calls, ClaimSeat(c, k) \/ ReleaseSeat(c, k)
    PROVE  GripInv'
  <1>1. CallsOK /\ SeatsOK /\ NetOK /\ TInv /\ OpenInv
    BY TypeParts DEF GripInv, TInv
  <1>2. SameConv /\ OpenInv' /\ TInv'
    BY <1>1, ConvsKept, NextTyped
  <1>3. PICK action \in {"claim", "release"}, op \in {"get", "release"} :
            Open(c, k, action, op) /\ (op = "release" => seat'[c] # "granted")
                                   /\ (op = "get" => seat'[c] = seat[c])
    BY <1>1 DEF ClaimSeat, ReleaseSeat, SeatsOK
  <1> DEFINE m == Req(op, k, 0, FALSE)
  <1>4. /\ m \in Request /\ m.op = op /\ m.call = k /\ net' = Append(net, m)
        /\ \A d \in Convs : d # c => asking'[d] = asking[d] /\ seat'[d] = seat[d]
        /\ asking'[c] = k /\ asking[c] = NoCall /\ calls[k].conv = NoConv
        /\ \A j \in Calls : j # k => calls'[j] = calls[j]
        /\ calls'[k].conv = c /\ calls'[k].phase = op /\ calls'[k].ans = NoAnswer
    <2>1. /\ m \in Request /\ m.op = op /\ m.call = k /\ net' = Append(net, m)
          /\ asking'[c] = k /\ asking[c] = NoCall /\ calls[k].conv = NoConv
      BY <1>1, <1>3 DEF Req, Request, Open, OpenInv, SeatsOK
    <2>2. \A d \in Convs : d # c => asking'[d] = asking[d] /\ seat'[d] = seat[d]
      BY <1>1, <1>3 DEF Open, ClaimSeat, ReleaseSeat, SeatsOK
    <2>3. /\ \A j \in Calls : j # k => calls'[j] = calls[j]
          /\ calls'[k] = [Unused EXCEPT !.conv = c, !.action = action, !.phase = op]
      BY <1>1, <1>3 DEF Open, CallsOK
    <2>4. calls'[k].conv = c /\ calls'[k].phase = op /\ calls'[k].ans = NoAnswer
      BY <2>3 DEF Unused
    <2> QED BY <2>1, <2>2, <2>3, <2>4
  <1> HIDE DEF m
  <1>5. UNCHANGED <<lease, grants>>
    BY DEF ClaimSeat, ReleaseSeat, disk
  <1>6. ASSUME NEW d \in Convs, d # c PROVE SeatFine(d)'
    <2>1. (Undone(d) => Undone(d)') /\ \A j \in Calls : Behind(d, j) => Behind(d, j)'
      BY <1>1, <1>2, <1>4, <1>6, NetGrows
    <2>2. Owned(d) => Owned(d)'
      BY <1>5 DEF Owned
    <2>3. asking'[d] = asking[d] /\ seat'[d] = seat[d]
      BY <1>4, <1>6
    <2>4. ASSUME asking[d] # NoCall PROVE asking[d] \in Calls /\ calls'[asking[d]] = calls[asking[d]]
      <3>1. calls[asking[d]].conv = d /\ asking[d] \in Calls
        BY <1>1, <2>4 DEF OpenInv, SeatsOK
      <3> QED BY <1>4, <3>1, SeatAssumption
    <2>5. SeatFine(d)
      BY SeatByResult
    <2>6. seat'[d] = "granted" => (Undone(d) /\ Owned(d))'
      BY <2>1, <2>2, <2>3, <2>5 DEF SeatFine
    <2>7. ASSUME asking'[d] # NoCall
          PROVE  /\ Past(calls'[asking'[d]]) => Undone(d)'
                 /\ Promised(calls'[asking'[d]]) => Owned(d)'
                 /\ Behind(d, asking[d])'
      <3>1. asking[d] \in Calls /\ calls'[asking'[d]] = calls[asking[d]]
        BY <2>3, <2>4, <2>7
      <3> QED BY <2>1, <2>2, <2>3, <2>5, <2>7, <3>1 DEF SeatFine
    <2> QED BY <2>3, <2>6, <2>7 DEF SeatFine, Past, Promised, Behind
  <1>7. SeatFine(c)'
    <2>1. ~Past(calls'[k]) /\ ~Promised(calls'[k])
      <3>1. ~Past(calls'[k])
        BY <1>4 DEF Past
      <3> QED BY <3>1, PromisedPast
    <2>2. seat'[c] = "granted" => (Undone(c) /\ Owned(c))'
      <3> SUFFICES ASSUME seat'[c] = "granted" PROVE Undone(c)' /\ Owned(c)'
        OBVIOUS
      <3>1. op = "get" /\ seat[c] = "granted"
        BY <1>3
      <3>2. Undone(c) /\ Owned(c)
        BY <3>1, SeatByResult DEF SeatFine
      <3>3. Undone(c)'
        BY <1>1, <1>2, <1>4, <3>1, <3>2, NetGrows
      <3> QED BY <1>5, <3>2, <3>3 DEF Owned
    <2>3. Behind(c, k)'
      <3>1. /\ Len(net') = Len(net) + 1 /\ net'[Len(net) + 1] = m /\ Len(net) \in Nat
            /\ \A i \in 1..Len(net) : net'[i] = net[i]
        BY <1>1, <1>4, AppendMsgs DEF NetOK
      <3>2. ASSUME NEW i \in 1..Len(net'), NEW j \in 1..Len(net'),
                   ReleaseAt(i, c)', net'[j].op = "get", net'[j].call = k
            PROVE  i < j
        <4>1. j = Len(net) + 1
          <5>1. ASSUME j \in 1..Len(net) PROVE FALSE
            <6>1. calls[net[j].call].conv \in Convs /\ net[j].call = k
              BY <1>1, <3>1, <3>2, <5>1 DEF NetOK
            <6> QED BY <1>4, <6>1, SeatAssumption
          <5> QED BY <3>1, <5>1
        <4>2. op = "get"
          BY <1>4, <3>1, <3>2, <4>1
        <4>3. i # Len(net) + 1
          BY <1>4, <3>1, <3>2, <4>2 DEF ReleaseAt
        <4> QED BY <3>1, <4>1, <4>3
      <3> QED BY <3>2 DEF Behind
    <2> QED BY <1>4, <2>1, <2>2, <2>3 DEF SeatFine, Past, Promised, Behind
  <1> QED BY <1>2, <1>6, <1>7 DEF GripInv, HeldInv, PastInv, TellInv, LineInv, SeatFine

\* Every step keeps the grips promised.
LEMMA GripStep == GripInv /\ [Next]_vars => GripInv'
  BY GripSentinel, GripBroker, GripRestart, GripDeliver, GripQuiet, GripOpen DEF Next

\* At the start no seat believes anything and nothing is on the way.
LEMMA InitGrip == Init => GripInv
  <1> SUFFICES ASSUME Init PROVE GripInv
    OBVIOUS
  <1>1. OpenInv
    BY DEF Init, OpenInv, Unused
  <1>2. HeldInv /\ PastInv /\ TellInv /\ LineInv
    BY DEF Init, HeldInv, PastInv, TellInv, LineInv
  <1> QED BY <1>1, <1>2, InitTyped DEF GripInv

\* A seat that was told it holds the card keeps the grip until another
\* conversation is granted a later generation, for any number of conversations
\* and calls, any delays, deaths, broken calls and restarts: the requests of one
\* sentinel arrive in order, so a release that was sent before the seat asked
\* again is over before the answer to its new read (epic_seat, runClaim,
\* seat_release).
THEOREM GripsAreKept == Spec => []GripKept
  <1>1. GripInv => GripKept
    <2> SUFFICES ASSUME GripInv, NEW c \in Convs, seat[c] = "granted", lease.conv # c
                 PROVE  \E g \in DOMAIN grants : \A h \in DOMAIN grants : grants[h] = c => h < g
      BY DEF GripKept
    <2>1. grants \in Seq(Convs) /\ grants # <<>> /\ grants[Len(grants)] # c
      BY DEF GripInv, TInv, TypeOK, HeldInv, Owned
    <2>2. DOMAIN grants = 1..Len(grants) /\ Len(grants) \in Nat /\ Len(grants) \in 1..Len(grants)
      BY <2>1
    <2>3. \A h \in DOMAIN grants : grants[h] = c => h < Len(grants)
      BY <2>1, <2>2
    <2> QED BY <2>2, <2>3
  <1> QED BY <1>1, InitGrip, GripStep, PTL DEF Spec
=============================================================================
