----------------------------- MODULE SeatLease -----------------------------
(***************************************************************************)
(* The per-card seat lease: one writer per (epic, card, role).  A seat     *)
(* calls the epic_seat tool (agent-host-common), the broker turns the call *)
(* into one or two round trips to the sentinel (epic-seat-claim.ts), and   *)
(* the sentinel evaluates a compare-and-swap on the card's frontmatter     *)
(* (epic-seat-handlers.ts, epic-lease.ts).                                 *)
(*                                                                         *)
(* One seat key is modelled; other cards and roles use other frontmatter   *)
(* keys and never touch these.  The broker's requests to one sentinel      *)
(* travel in order on one socket.  Each round trip may time out while its  *)
(* request is still on the way, the seat's HTTP call may break while the   *)
(* broker carries on, the sentinel may restart (the card survives, what is *)
(* in transit does not), and a conversation may die and come back at any   *)
(* point.                                                                  *)
(***************************************************************************)
EXTENDS Integers, Sequences

CONSTANTS
    Convs,        \* conversations launched onto this seat
    NoConv,       \* the empty holder
    Calls,        \* ids of epic_seat calls; each is used once
    NoCall,       \* a seat that awaits no answer
    StaleAfter,   \* LEASE_STALE_MS, in clock ticks
    MaxTime,      \* bound on the clock
    MaxRestarts   \* bound on sentinel restarts

ASSUME SeatAssumption ==
    /\ NoConv \notin Convs /\ NoCall \notin Calls
    /\ StaleAfter \in Nat /\ MaxTime \in Nat /\ MaxRestarts \in Nat

NoTime == -1
Times  == 0..MaxTime

\* The three frontmatter keys of a role.  Generation 0 is "never claimed".
Lease == [conv : Convs \cup {NoConv}, gen : Nat, at : Times \cup {NoTime}]
Never == [conv |-> NoConv, gen |-> 0, at |-> NoTime]

Request == [op : {"get", "claim", "release", "log"}, call : Calls,
            expectGen : Nat, alive : BOOLEAN]

\* What the sentinel answered: whether it granted or did the thing, the lease
\* it reports, and the lease a grant displaced.
Answer   == [ok : BOOLEAN, lease : Lease, replaced : Lease]
NoAnswer == [ok |-> FALSE, lease |-> Never, replaced |-> Never, none |-> TRUE]

Outcomes == {"none", "granted", "broke", "held", "released", "refused", "error"}

\* A call as the broker sees it.  `phase' names the round trip it waits for.
Call == [conv : Convs \cup {NoConv}, action : {"claim", "release"},
         phase : {"unused", "get", "claim", "release", "log", "reply", "over"},
         ans : Answer \cup {NoAnswer}, outcome : Outcomes]

Unused == [conv |-> NoConv, action |-> "claim", phase |-> "unused",
           ans |-> NoAnswer, outcome |-> "none"]

VARIABLES
    lease,     \* the card's seat keys, on the sentinel's disk
    clock,
    net,       \* requests on their way from the broker to the sentinel
    calls,     \* the broker's calls in progress
    asking,    \* which call each seat still awaits
    seat,      \* what each conversation believes about its seat
    live,      \* conversations the registry counts as live
    baton,     \* the epic's log: collisions recorded
    restarts,
    grants,    \* history: who was granted each generation
    lapsed     \* history: generations whose holder was seen dead or gone

vars == <<lease, clock, net, calls, asking, seat, live, baton, restarts, grants, lapsed>>
seatSide == <<asking, seat, live>>
disk     == <<lease, grants, baton, lapsed>>

-----------------------------------------------------------------------------
(* epic-lease.ts                                                           *)

IsStale(l, now) == l.at = NoTime \/ now - l.at > StaleAfter

IgnoresGeneration(cur, expectGen, alive, now) ==
    cur.gen = 0 \/ cur.conv = NoConv \/ ~alive \/ IsStale(cur, now)

\* evaluateLease for a claim: seats neither force nor adopt.
EvaluateLease(cur, expectGen, alive, now) ==
    \/ cur.gen = 0
    \/ /\ cur.gen = expectGen
       /\ cur.conv = NoConv \/ ~alive \/ IsStale(cur, now)

ReleaseDropsGeneration(l) == Never

\* releasePatch: the generation outlives the grip.
ReleasePatch(l) == [l EXCEPT !.conv = NoConv, !.at = NoTime]

-----------------------------------------------------------------------------
(* The seat: agent-host-common's epic_seat tool.                           *)

\* History: the generation lapses once its holder is not among the living.
Lapse(l, living) == IF l.conv \in living THEN lapsed ELSE lapsed \cup {l.gen}

Req(op, k, expectGen, alive) ==
    [op |-> op, call |-> k, expectGen |-> expectGen, alive |-> alive]

\* The tool posts a call under the host's own conversation id and the broker
\* sends its first request.
Open(c, k, action, op) ==
    /\ c \in live /\ asking[c] = NoCall /\ seat[c] # "exited"
    /\ calls[k].phase = "unused"
    /\ calls' = [calls EXCEPT ![k] = [Unused EXCEPT !.conv = c, !.action = action, !.phase = op]]
    /\ asking' = [asking EXCEPT ![c] = k]
    /\ net' = Append(net, Req(op, k, 0, FALSE))

ClaimSeat(c, k) ==
    /\ Open(c, k, "claim", "get")
    /\ UNCHANGED <<disk, clock, seat, live, restarts>>

\* The order is to release when the work is finished.
ReleaseSeat(c, k) ==
    /\ seat[c] \in {"granted", "unprotected"}
    /\ Open(c, k, "release", "release")
    /\ seat' = [seat EXCEPT ![c] = "finished"]
    /\ UNCHANGED <<disk, clock, live, restarts>>

\* What the seat makes of an answer: unreachable means carry on as before,
\* unprotected if it never held the seat.
Proceed(c, action) ==
    IF action = "claim" /\ seat[c] # "granted" THEN "unprotected" ELSE seat[c]

Interpret(c, action, outcome) ==
    CASE outcome \in {"granted", "broke", "held"} -> "granted"
      [] outcome = "refused"                      -> "exited"
      [] outcome = "released"                     -> seat[c]
      [] OTHER                                    -> Proceed(c, action)

\* The broker's HTTP answer arrives, if anyone is still waiting for it.  A
\* refused seat is ended on the spot.
Deliver(k) ==
    LET c == calls[k].conv
    IN  /\ calls[k].phase = "reply"
        /\ calls' = [calls EXCEPT ![k].phase = "over"]
        /\ IF asking[c] = k
           THEN /\ asking' = [asking EXCEPT ![c] = NoCall]
                /\ seat' = [seat EXCEPT ![c] = Interpret(c, calls[k].action, calls[k].outcome)]
                /\ live' = IF calls[k].outcome = "refused" THEN live \ {c} ELSE live
           ELSE UNCHANGED seatSide
        /\ lapsed' = Lapse(lease, live')
        /\ UNCHANGED <<lease, grants, baton, clock, net, restarts>>

\* The HTTP call breaks; the broker does not notice.
HttpLost(c) ==
    /\ asking[c] # NoCall
    /\ asking' = [asking EXCEPT ![c] = NoCall]
    /\ seat' = [seat EXCEPT ![c] = Proceed(c, calls[asking[c]].action)]
    /\ UNCHANGED <<disk, clock, net, calls, live, restarts>>

Die(c) ==
    /\ c \in live
    /\ live' = live \ {c}
    /\ asking' = [asking EXCEPT ![c] = NoCall]
    /\ lapsed' = Lapse(lease, live')
    /\ UNCHANGED <<lease, grants, baton, clock, net, calls, seat, restarts>>

\* resumeConversation: an ended conversation is un-ended, with what it believed.
Unend(c) ==
    /\ c \notin live
    /\ live' = live \cup {c}
    /\ seat' = [seat EXCEPT ![c] = IF @ = "exited" THEN "launched" ELSE @]
    /\ UNCHANGED <<disk, clock, net, calls, asking, restarts>>

-----------------------------------------------------------------------------
(* The broker: epic-seat-claim.ts over broker-sentinel-rpc.ts.             *)

Answered(k, phase) == calls[k].phase = phase /\ calls[k].ans # NoAnswer

\* holderIsAlive: the registry's answer about the holder that was read.
HolderIsAlive(l) == l.conv \in live

\* The call leaves one round trip and enters the next phase.
Enter(k, phase, outcome) ==
    calls' = [calls EXCEPT ![k] = [@ EXCEPT !.phase = phase, !.ans = NoAnswer, !.outcome = outcome]]

Finish(k, outcome) == Enter(k, "reply", outcome)

Send(k, op, outcome, expectGen, alive) ==
    /\ Enter(k, op, outcome)
    /\ net' = Append(net, Req(op, k, expectGen, alive))

\* seat_get came back: already mine, or ask the compare-and-swap.
RunClaim(k) ==
    /\ Answered(k, "get")
    /\ LET held == calls[k].ans.lease
       IN  IF held.conv = calls[k].conv
           THEN Finish(k, "held") /\ UNCHANGED net
           ELSE Send(k, "claim", "none", held.gen, HolderIsAlive(held))
    /\ UNCHANGED <<disk, clock, seatSide, restarts>>

\* seat_claim came back: a refusal and a takeover are audited first.
Decided(k) ==
    /\ Answered(k, "claim")
    /\ LET a == calls[k].ans
       IN  IF a.ok /\ a.replaced.conv = NoConv
           THEN Finish(k, "granted") /\ UNCHANGED net
           ELSE Send(k, "log", IF a.ok THEN "broke" ELSE "refused", 0, FALSE)
    /\ UNCHANGED <<disk, clock, seatSide, restarts>>

Audited(k) ==
    /\ Answered(k, "log")
    /\ Finish(k, calls[k].outcome)
    /\ UNCHANGED <<disk, clock, net, seatSide, restarts>>

RunRelease(k) ==
    /\ Answered(k, "release")
    /\ Finish(k, IF calls[k].ans.ok THEN "released" ELSE "error")
    /\ UNCHANGED <<disk, clock, net, seatSide, restarts>>

NoTimerOnRead(k) ==
    /\ calls[k].phase \in {"claim", "release", "log"}
    /\ Finish(k, IF calls[k].phase = "log" THEN calls[k].outcome ELSE "error")
    /\ UNCHANGED <<disk, clock, net, seatSide, restarts>>

\* The 10s timer, a missing sentinel or a failed send: the call is answered
\* without the sentinel.  The audit's own result is ignored.
Timeout(k) ==
    /\ calls[k].phase \in {"get", "claim", "release", "log"}
    /\ Finish(k, IF calls[k].phase = "log" THEN calls[k].outcome ELSE "error")
    /\ UNCHANGED <<disk, clock, net, seatSide, restarts>>

-----------------------------------------------------------------------------
(* The sentinel: epic-seat-handlers.ts, one synchronous handler at a time. *)

Handling(op) == net # <<>> /\ Head(net).op = op

\* The answer reaches the broker's listener unless it was removed.
Respond(m, ans) ==
    calls' = IF calls[m.call].phase = m.op THEN [calls EXCEPT ![m.call] = [@ EXCEPT !.ans = ans]] ELSE calls

SeatGet ==
    /\ Handling("get")
    /\ net' = Tail(net)
    /\ Respond(Head(net), [ok |-> TRUE, lease |-> lease, replaced |-> Never])
    /\ UNCHANGED <<disk, clock, seatSide, restarts>>

\* casLeaseOnCard: read, evaluate and write with no await in between.
SeatClaim ==
    /\ Handling("claim")
    /\ net' = Tail(net)
    /\ LET m    == Head(net)
           next == [conv |-> calls[m.call].conv, gen |-> lease.gen + 1, at |-> clock]
       IN  IF EvaluateLease(lease, m.expectGen, m.alive, clock)
           THEN /\ lease' = next
                /\ grants' = [g \in DOMAIN grants \cup {next.gen} |->
                                IF g = next.gen THEN next.conv ELSE grants[g]]
                /\ lapsed' = Lapse(next, live)
                /\ Respond(m, [ok |-> TRUE, lease |-> next, replaced |-> lease])
           ELSE /\ Respond(m, [ok |-> FALSE, lease |-> lease, replaced |-> Never])
                /\ UNCHANGED <<lease, grants, lapsed>>
    /\ UNCHANGED <<clock, baton, seatSide, restarts>>

AnyoneMayRelease(c) == lease.conv # NoConv

\* Only the holder's release drops the grip; with no holder it is a no-op.
MayRelease(c) == lease.conv # NoConv /\ lease.conv = c

SeatRelease ==
    /\ Handling("release")
    /\ net' = Tail(net)
    /\ LET m == Head(net)
           c == calls[m.call].conv
       IN  /\ lease' = IF MayRelease(c) THEN ReleasePatch(lease) ELSE lease
           /\ lapsed' = Lapse(lease', live)
           /\ Respond(m, [ok |-> lease.conv \in {NoConv, c}, lease |-> lease', replaced |-> Never])
    /\ UNCHANGED <<clock, baton, grants, seatSide, restarts>>

LogAppend ==
    /\ Handling("log")
    /\ net' = Tail(net)
    /\ baton' = baton \cup {Head(net).call}
    /\ Respond(Head(net), [ok |-> TRUE, lease |-> Never, replaced |-> Never])
    /\ UNCHANGED <<lease, grants, lapsed, clock, seatSide, restarts>>

\* The sentinel or its socket goes down: what is in transit is lost.
SentinelRestart ==
    /\ restarts < MaxRestarts
    /\ restarts' = restarts + 1
    /\ net' = <<>>
    /\ calls' = [k \in Calls |-> [calls[k] EXCEPT !.ans = NoAnswer]]
    /\ UNCHANGED <<disk, clock, seatSide>>

Tick ==
    /\ clock < MaxTime
    /\ clock' = clock + 1
    /\ UNCHANGED <<disk, net, calls, seatSide, restarts>>

Init ==
    /\ lease = Never /\ clock = 0 /\ net = <<>>
    /\ calls = [k \in Calls |-> Unused]
    /\ asking = [c \in Convs |-> NoCall]
    /\ seat = [c \in Convs |-> "launched"]
    /\ live = Convs /\ baton = {} /\ restarts = 0
    /\ grants = <<>> /\ lapsed = {0}

Next ==
    \/ SeatGet \/ SeatClaim \/ SeatRelease \/ LogAppend \/ SentinelRestart \/ Tick
    \/ \E k \in Calls : \/ RunClaim(k) \/ Decided(k) \/ Audited(k) \/ RunRelease(k)
                        \/ Timeout(k) \/ Deliver(k)
    \/ \E c \in Convs : \/ HttpLost(c) \/ Die(c) \/ Unend(c)
                        \/ \E k \in Calls : ClaimSeat(c, k) \/ ReleaseSeat(c, k)

Spec == Init /\ [][Next]_vars

\* The broker's timers fire and its replies leave; the sentinel owes nothing.
Fairness == \A k \in Calls :
    WF_vars(RunClaim(k) \/ Decided(k) \/ Audited(k) \/ RunRelease(k) \/ Timeout(k) \/ Deliver(k))

FairSpec == Spec /\ Fairness
-----------------------------------------------------------------------------
(* Properties                                                              *)

\* Every variable keeps its type; requests belong to calls that were opened.
TypeOK ==
    /\ lease \in Lease /\ clock \in Times
    /\ net \in Seq(Request)
    /\ \A i \in 1..Len(net) : calls[net[i].call].conv \in Convs
    /\ calls \in [Calls -> Call]
    /\ \A k \in Calls : calls[k].phase # "unused" => calls[k].conv \in Convs
    /\ asking \in [Convs -> Calls \cup {NoCall}]
    /\ seat \in [Convs -> {"launched", "granted", "unprotected", "finished", "exited"}]
    /\ live \subseteq Convs /\ baton \subseteq Calls /\ restarts \in Nat
    /\ grants \in Seq(Convs) /\ lapsed \subseteq Nat

\* The lease is a register of generations: each is awarded once, in order, and
\* only the newest award can hold the grip (evaluateLease, releasePatch).
Register == INSTANCE LeaseRegister WITH awarded <- grants, holder <- lease.conv

RegisterSpec == Register!Spec

\* A grip passes from one conversation to another only when its holder was seen
\* dead while it held this very generation, or has held it past the stale
\* window, although the registry is asked one round trip before the
\* compare-and-swap and may change its mind twice on the way (runClaim,
\* evaluateLease).
TakeoverJustified ==
    [][(lease.conv # NoConv /\ lease'.conv \notin {NoConv, lease.conv}) =>
          (lease.gen \in lapsed \/ clock - lease.at > StaleAfter)]_vars

\* A seat told that it holds the card holds it until another conversation is
\* granted a later generation: neither a loser's release, nor its own late
\* requests, nor a restart of the sentinel takes the grip away (seat_release).
GripKept ==
    \A c \in Convs : seat[c] = "granted" =>
        \/ lease.conv = c
        \/ \E g \in DOMAIN grants : \A h \in DOMAIN grants : grants[h] = c => h < g

\* "One request, one answer, never a hang" (broker-sentinel-rpc.ts): every call
\* is answered even if the sentinel never says a word.
CallsEnd == \A k \in Calls : calls[k].phase # "unused" ~> calls[k].phase = "over"
=============================================================================
