------------------------------ MODULE EpicBeat ------------------------------
(***************************************************************************)
(* The sweep that drives one armed epic.  Every beat folds the registry    *)
(* into lanes, reads the run, the baton and the board, acknowledges what   *)
(* settled, decides, and performs its actions one await at a time: wake    *)
(* the werk-master under its lease, send workers and verifiers to cards,   *)
(* or settle the run and stand down.  The broker may restart between two   *)
(* awaits; agents, hosts and the operator move underneath.                 *)
(*                                                                         *)
(* The run is planned, its cards are neither rough nor questions, declare  *)
(* no dependencies, and their branches land.  The baton is kept as the     *)
(* folds the beat takes of it, and of a card's ended conversations the     *)
(* registry keeps what the fold counts.                                    *)
(***************************************************************************)
EXTENDS Integers, FiniteSets, Sequences

CONSTANTS
  Cards,
  NoCard,
  Concurrency,         \* the run's `concurrency'
  MaxGens,             \* the run's `maxGens'
  MaxCardSeats,        \* MAX_CARD_SEATS
  MaxLaunchAttempts,   \* MAX_LAUNCH_ATTEMPTS
  Upsets,              \* what may go wrong, or be done by hand
  MaxUpsets,           \* bound: how often anything of it happens
  MaxTwins             \* bound: conversations of one role and card at a time

UpsetKinds == {"unread", "shut", "refused", "late", "op", "restart", "launch", "silent",
               "noverdict", "slow", "ceiling", "pause", "start", "break"}

ASSUME BeatAssumption ==
  /\ NoCard \notin Cards /\ IsFiniteSet(Cards)
  /\ {Concurrency, MaxGens, MaxCardSeats, MaxLaunchAttempts, MaxTwins} \subseteq Nat \ {0}
  /\ Upsets \subseteq UpsetKinds /\ MaxUpsets \in Nat

VARIABLES
  run,      \* run.md: status, dryGens, and whether a spend or time ceiling is reached
  armed,    \* is the epic in the armed set (durable)
  lease,    \* the werk-master lease on the epic card
  log,      \* baton: cards acknowledged, dispatches counted, seats still held for
  board,    \* the lane of a card
  seats,    \* the conversations this epic spawned that are not over
  past,     \* of a card's ended conversations: how many, and did any write
  beat,     \* the beat in progress
  slipped,  \* running seats the engine lost sight of: no entry, no hold, or reaped (history)
  cleared,  \* running seats whose hold a completion ended (history)
  crossed,  \* the operator, or a lost write, crossed a beat (history)
  upsets    \* how many more there may be

history == <<slipped, cleared, crossed>>
vars == <<run, armed, lease, log, board, seats, past, beat, history, upsets>>

Lanes == {"open", "in-progress", "in-review", "done"}
isInertRun(status) == status \in {"paused", "complete"}

\* A conversation: its role and card, and a number to tell it from the others.
Convs == [role : {"worker", "verifier"}, card : Cards, n : 1..MaxTwins]
           \cup [role : {"master"}, card : {NoCard}, n : 1..MaxTwins]
NoConv == [role |-> "nobody", card |-> NoCard, n |-> 0]         \* the lease is free
Placeholder == [role |-> "pending", card |-> NoCard, n |-> 0]   \* `pending-<epic>-<gen>'

\* tag: the conversation carries its launch configuration; out: it wrote something.
Over == [gen |-> 0, st |-> "over", tag |-> FALSE, out |-> FALSE]
Seats == {i \in Convs : seats[i] # Over}
Running(i) == seats[i].st \in {"launching", "up"}

Least(a, b) == IF a < b THEN a ELSE b

-----------------------------------------------------------------------------
(* The lanes of an epic, folded from the registry.                         *)

\* The registry has the conversation, under this epic's tag.
Registered == {i \in Seats : seats[i].tag /\ seats[i].st \in {"up", "silent"}}
\* Not ended, and not reaped for silence without a socket.
Alive(i) == seats[i].st = "up"
Masters == {i \in Registered : i.role = "master"}
SeatsOf(c) == {i \in Registered : i.card = c}

groupEpicConversations ==
  LET Ran(c) == Cardinality(SeatsOf(c)) + past[c].ran
      Dead(c) == Ran(c) > 0 /\ \A i \in SeatsOf(c) : ~Alive(i)
      Output(c) == past[c].out \/ \E i \in SeatsOf(c) : seats[i].out
  IN [known    |-> Registered,
      live     |-> {i \in Masters : Alive(i)},
      reaped   |-> {i \in Masters : ~Alive(i)},
      inFlight |-> {c \in Cards : \E i \in SeatsOf(c) : Alive(i)},
      inVerify |-> {c \in Cards : \E i \in SeatsOf(c) : Alive(i) /\ i.role = "verifier"},
      settled  |-> {c \in Cards : Dead(c) /\ Output(c)},
      unspawnable |-> {c \in Cards : Dead(c) /\ ~Output(c) /\ Ran(c) >= MaxLaunchAttempts}]

EmptyGroup == [known |-> {}, live |-> {}, reaped |-> {}, inFlight |-> {},
               inVerify |-> {}, settled |-> {}, unspawnable |-> {}]
Resting == [pc |-> "idle", group |-> EmptyGroup, todo |-> <<>>]

epicsToWatch == armed \/ Registered # {} \/ \E c \in Cards : past[c].ran > 0

-----------------------------------------------------------------------------
(* The plan: which cards are owed a verdict, which may be sent a worker.   *)

ForgetsArrivals(g) == {}
\* Cards whose dispatched seat the registry does not show yet.
pendingSeatCards(g) == {i.card : i \in log.held \ g.known}
InFlight(g) == g.inFlight \cup pendingSeatCards(g)

overSeatCeiling(c) == log.dispatched[c] >= MaxCardSeats
alreadyRan(g, c) == board[c] = "open" /\ c \in g.settled

Verify(g) == {c \in Cards : /\ board[c] = "in-review"
                            /\ c \notin g.inVerify \cup pendingSeatCards(g) \cup g.unspawnable}
Ready(g) == {c \in Cards : /\ c \notin InFlight(g)
                           /\ board[c] \in {"open", "in-progress"}
                           /\ c \notin g.unspawnable
                           /\ ~alreadyRan(g, c)
                           /\ ~overSeatCeiling(c)}

\* The slice of the ready cards that the concurrency ceiling leaves room for.
Dispatches(g) ==
  LET free == Concurrency - Cardinality(InFlight(g))
      slots == IF free < 0 THEN 0 ELSE free
  IN {S \in SUBSET Ready(g) : Cardinality(S) = Least(slots, Cardinality(Ready(g)))}

-----------------------------------------------------------------------------
(* The decision: the steps the beat will perform, and the dry count.       *)

Do(op) == [op |-> op, card |-> NoCard, conv |-> NoConv, gen |-> lease.gen, alive |-> FALSE]
\* One step per card, in any order.
StepsFor(op, S) == {q \in [1..Cardinality(S) -> {[Do(op) EXCEPT !.card = c] : c \in S}] :
                      {q[n].card : n \in DOMAIN q} = S}
Decision(steps, dry) == [todo |-> steps, dry |-> dry]

holderIsAlive(g) == IF lease.conv = NoConv THEN g.live # {} ELSE lease.conv \in g.live
Wake(g) == <<[Do("take") EXCEPT !.alive = holderIsAlive(g)]>>

unacknowledgedCards(g) == g.settled \ log.acked
lostWerkMaster(g) == lease.conv \in g.reaped
capBeat == run.over \/ lease.gen >= MaxGens
HoldsForEver(g) == g.live # {}
\* A live werk-master holds the beat until its lease is old; one whose lease has no
\* age holds it too.
werkMasterGate(g) == g.live # {} /\ lease.at # "aged"
guardBeat(g) == lostWerkMaster(g) \/ unacknowledgedCards(g) # {}

\* Verdicts first, then work.
WorkSteps(g) ==
  LET dispatches == UNION {StepsFor("dispatch", S) : S \in Dispatches(g)}
  IN UNION {{v \o d : d \in dispatches} : v \in StepsFor("verify", Verify(g))}

ReplansForEver(g) == {Decision(Wake(g), run.dry + 1)}
movedBeat(g) ==
  IF WorkSteps(g) # {<<>>} THEN {Decision(w, 0) : w \in WorkSteps(g)}
  ELSE IF \A c \in Cards : board[c] = "done" THEN {Decision(<<Do("complete")>>, run.dry)}
  ELSE IF InFlight(g) # {} THEN {Decision(<<>>, run.dry)}
  ELSE IF run.dry >= 1 THEN {Decision(<<Do("park")>>, run.dry)}
  ELSE {Decision(Wake(g), run.dry + 1)}

\* Outside the window, or behind the queue, only verdicts go out.
workBeat(g, shut) ==
  IF shut THEN {Decision(v, run.dry) : v \in StepsFor("verify", Verify(g))} ELSE movedBeat(g)

decide(g, shut) ==
  IF capBeat THEN {Decision(<<Do("park")>>, run.dry)}
  ELSE IF werkMasterGate(g) THEN {Decision(<<>>, run.dry)}
  ELSE IF guardBeat(g) THEN {Decision(Wake(g), run.dry)}
  ELSE workBeat(g, shut)

-----------------------------------------------------------------------------
Init ==
  /\ run = [status |-> "armed", dry |-> 0, over |-> FALSE]
  /\ armed = TRUE
  /\ lease = [conv |-> NoConv, gen |-> 0, at |-> "none"]
  /\ log = [acked |-> {}, dispatched |-> [c \in Cards |-> 0], held |-> {}]
  /\ board = [c \in Cards |-> "open"]
  /\ seats = [i \in Convs |-> Over]
  /\ past = [c \in Cards |-> [ran |-> 0, out |-> FALSE]]
  /\ beat = Resting
  /\ slipped = {} /\ cleared = {} /\ crossed = FALSE
  /\ upsets = MaxUpsets

Upset(kind) == kind \in Upsets /\ upsets > 0 /\ upsets' = upsets - 1
\* An upset only if `happens'.
UpsetIf(happens, kind) == IF happens THEN Upset(kind) ELSE UNCHANGED upsets

-----------------------------------------------------------------------------
(* The beat.                                                               *)

\* The tick, or BEAT NOW: the registry is folded before anything is read.  What it
\* shows, or has shown, needs no hold.
sweepEpics ==
  /\ beat.pc = "idle"
  /\ epicsToWatch
  /\ beat' = [beat EXCEPT !.pc = "read", !.group = groupEpicConversations]
  /\ log' = [log EXCEPT !.held = (@ \cap Seats) \ Registered]
  /\ seats' = [i \in Convs |-> IF seats[i].st = "lost" /\ i \notin log.held THEN Over ELSE seats[i]]
  /\ UNCHANGED <<run, armed, lease, board, past, history, upsets>>

Then(todo) == IF todo = <<>> THEN Resting
              ELSE [pc |-> "act", group |-> EmptyGroup, todo |-> todo]

\* The run, the baton and the board are read.  The settles are acknowledged, with
\* entries this beat does not read back; the decision is taken and its patch written.
runEpicBeat ==
  /\ beat.pc = "read"
  /\ IF isInertRun(run.status)
     THEN beat' = Resting /\ UNCHANGED <<run, log, cleared, upsets>>
     ELSE LET g == beat.group IN
          \E acks \in SUBSET unacknowledgedCards(g), shut \in BOOLEAN :
             /\ acks = unacknowledgedCards(g) \/ ~shut
             /\ UpsetIf(shut \/ acks # unacknowledgedCards(g), IF shut THEN "shut" ELSE "unread")
             /\ log' = [log EXCEPT !.acked = @ \cup acks,
                                   !.held = {i \in @ : i.card \notin acks}]
             /\ cleared' = cleared \cup {i \in log.held \ g.known : Running(i) /\ i.card \in acks}
             /\ \E d \in decide(g, shut) : beat' = Then(d.todo) /\ run' = [run EXCEPT !.dry = d.dry]
  /\ UNCHANGED <<armed, lease, board, seats, past, slipped, crossed>>

Current == Head(beat.todo)
Rest == Tail(beat.todo)
Performing(op) == beat.pc = "act" /\ Current.op = op

\* The sentinel's compare-and-swap on the epic card, for a wake.
evaluateLease(req) ==
  /\ lease.gen = req.gen
  /\ lease.conv = NoConv \/ ~req.alive \/ lease.at # "fresh"

TakesTheSameGeneration ==
  /\ Performing("take")
  /\ IF evaluateLease(Current)
     THEN /\ lease' = [lease EXCEPT !.conv = Placeholder, !.at = "fresh"]
          /\ run' = [run EXCEPT !.status = "running"]
          /\ beat' = Then(<<[Current EXCEPT !.op = "wake"]>> \o Rest)
     ELSE beat' = Then(Rest) /\ UNCHANGED <<lease, run>>
  /\ UNCHANGED <<armed, log, board, seats, past, history, upsets>>
takeLease ==
  /\ Performing("take")
  /\ IF evaluateLease(Current)
     THEN /\ lease' = [conv |-> Placeholder, gen |-> lease.gen + 1, at |-> "fresh"]
          /\ run' = [run EXCEPT !.status = "running"]
          /\ beat' = Then(<<[Current EXCEPT !.op = "wake", !.gen = lease.gen + 1]>> \o Rest)
     ELSE beat' = Then(Rest) /\ UNCHANGED <<lease, run>>
  /\ UNCHANGED <<armed, log, board, seats, past, history, upsets>>

\* A launched seat; its launch configuration was stored before the request went out.
Seat(role) == [gen |-> IF role = "master" THEN Current.gen ELSE 0,
               st |-> "launching", tag |-> TRUE, out |-> FALSE]
Free(role) == {i \in Convs \ (Seats \cup log.held \cup {lease.conv}) :
                 i.role = role /\ i.card = Current.card}

\* dispatchSpawn answers; or refuses; or gives up on a sentinel that launches the
\* conversation all the same.
dispatchSpawn(role, next) ==
  \/ \E new \in Free(role) :
       /\ \A i \in Free(role) : new.n <= i.n
       /\ seats' = [seats EXCEPT ![new] = Seat(role)]
       /\ \/ /\ beat' = Then(<<[Current EXCEPT !.op = next, !.conv = new]>> \o Rest)
             /\ UNCHANGED <<slipped, upsets>>
          \/ /\ Upset("late")
             /\ beat' = Then(Rest)
             /\ slipped' = slipped \cup {new}
  \/ Upset("refused") /\ beat' = Then(Rest) /\ UNCHANGED <<seats, slipped>>

wakeWerkMaster == /\ Performing("wake") /\ dispatchSpawn("master", "adopt")
                  /\ UNCHANGED <<run, armed, lease, log, board, past, cleared, crossed>>

adoptLease ==
  /\ Performing("adopt")
  /\ IF lease.gen = Current.gen
     THEN /\ lease' = [lease EXCEPT !.conv = Current.conv]
          /\ run' = [run EXCEPT !.status = "running"]
     ELSE UNCHANGED <<lease, run>>
  /\ beat' = Then(Rest)
  /\ UNCHANGED <<armed, log, board, seats, past, history, upsets>>

spawnForCard ==
  /\ \/ Performing("dispatch") /\ dispatchSpawn("worker", "append")
     \/ Performing("verify") /\ dispatchSpawn("verifier", "append")
  /\ UNCHANGED <<run, armed, lease, log, board, past, cleared, crossed>>

appendDispatch ==
  /\ Performing("append")
  /\ log' = [log EXCEPT !.dispatched[Current.card] = Least(@ + 1, MaxCardSeats),
                        !.held = @ \cup {Current.conv}]
  /\ beat' = Then(Rest)
  /\ UNCHANGED <<run, armed, lease, board, seats, past, history, upsets>>

SettlesWithoutPatch ==
  /\ beat.pc = "act" /\ Current.op \in {"park", "complete"}
  /\ beat' = Then(<<Do("release")>>)
  /\ UNCHANGED <<run, armed, lease, log, board, seats, past, history, upsets>>
settleRun ==
  /\ beat.pc = "act" /\ Current.op \in {"park", "complete"}
  /\ run' = [run EXCEPT !.status = IF Current.op = "park" THEN "paused" ELSE "complete"]
  /\ beat' = Then(<<Do("release")>>)
  /\ UNCHANGED <<armed, lease, log, board, seats, past, history, upsets>>

Released == [lease EXCEPT !.conv = NoConv, !.at = "none"]

standDown ==
  \/ /\ Performing("release")
     /\ lease' = Released
     /\ beat' = Then(<<Do("forget")>>)
     /\ UNCHANGED <<run, armed, log, board, seats, past, history, upsets>>
  \/ /\ Performing("forget")
     /\ armed' = FALSE
     /\ beat' = Resting
     /\ UNCHANGED <<run, lease, log, board, seats, past, history, upsets>>

\* A round trip to the sentinel that is never performed; the beat carries on (a
\* failed take ends the wake, a failed settle still stands down).
OpLost ==
  /\ beat.pc = "act" /\ Current.op \in {"take", "adopt", "append", "park", "complete", "release"}
  /\ Upset("op")
  /\ beat' = CASE Current.op \in {"park", "complete"} -> Then(<<Do("release")>>)
               [] Current.op = "release" -> Then(<<Do("forget")>>)
               [] OTHER -> Then(Rest)
  /\ slipped' = IF Current.op = "append" THEN slipped \cup {i \in {Current.conv} : Running(i)} ELSE slipped
  /\ crossed' = (crossed \/ Current.op \in {"park", "complete"})
  /\ UNCHANGED <<run, armed, lease, log, board, seats, past, cleared>>

\* The broker restarts: the beat is gone, and so are the launch configurations of
\* the conversations that have not connected yet.
Restart ==
  /\ Upset("restart")
  /\ beat' = Resting
  /\ seats' = [i \in Convs |-> IF seats[i].st = "launching" THEN [seats[i] EXCEPT !.tag = FALSE]
                               ELSE seats[i]]
  /\ slipped' = IF Performing("append") THEN slipped \cup {i \in {Current.conv} : Running(i)} ELSE slipped
  /\ UNCHANGED <<run, armed, lease, log, board, past, cleared, crossed>>

-----------------------------------------------------------------------------
(* Conversations and their hosts.  Under an inert run that nothing can     *)
(* start again they are not followed any further (a bound).                *)

Followed == \/ ~isInertRun(run.status) \/ upsets > 0
            \/ beat.pc = "act" /\ Current.op \notin {"release", "forget"}
Turn(i, from, to) == /\ seats[i].st = from /\ Followed
                     /\ seats' = [seats EXCEPT ![i] = to]
Hosts == <<run, armed, lease, log, board, beat, crossed>>

Attach(i) == /\ Turn(i, "launching", [seats[i] EXCEPT !.st = "up"])
             /\ UNCHANGED <<Hosts, past, slipped, cleared, upsets>>
Lost == [Over EXCEPT !.st = "lost"]
\* The launch dies before its host ever connects.
LaunchLost(i) == /\ Turn(i, "launching", Lost) /\ Upset("launch")
                 /\ slipped' = slipped \ {i} /\ cleared' = cleared \ {i}
                 /\ UNCHANGED <<Hosts, past>>
\* The host has been silent without a socket past the reaper's grace (a werk-
\* master's outlasts the lease's stale window), and may still come back.
FallsSilent(i) == /\ Turn(i, "up", [seats[i] EXCEPT !.st = "silent"]) /\ Upset("silent")
                  /\ lease.conv = i => lease.at # "fresh"
                  /\ UNCHANGED <<Hosts, past, slipped, cleared>>
BackFromSilence(i) == /\ Turn(i, "silent", [seats[i] EXCEPT !.st = "up"])
                      /\ slipped' = slipped \cup {i}
                      /\ UNCHANGED <<Hosts, past, cleared, upsets>>

\* Once, a seat writes and moves its card: a worker forward, a verifier to its
\* verdict; a werk-master reopens any card.
Moves(i) ==
  CASE i.role = "worker" -> {<<"open", "in-progress">>, <<"open", "in-review">>,
                             <<"in-progress", "in-review">>}
    [] i.role = "verifier" -> {<<"in-review", "done">>, <<"in-review", "in-progress">>}
    [] i.role = "master" -> Lanes \X {"open"}
Works(i) ==
  /\ ~seats[i].out /\ Turn(i, "up", [seats[i] EXCEPT !.out = TRUE])
  /\ \E c \in IF i.role = "master" THEN Cards ELSE {i.card}, m \in Moves(i) :
        board[c] = m[1] /\ board' = [board EXCEPT ![c] = m[2]]
  /\ UNCHANGED <<run, armed, lease, log, past, beat, history, upsets>>

\* The conversation ends; it may have written without moving its card.  A verifier
\* that leaves its card in review is counted as an upset: the verify lane has no
\* ceiling of its own.
Ends(i) ==
  /\ Turn(i, "up", IF seats[i].tag THEN Over ELSE Lost)
  /\ UpsetIf(i.role = "verifier" /\ ~seats[i].out /\ board[i.card] = "in-review", "noverdict")
  /\ \E wrote \in BOOLEAN :
       past' = IF i.role = "master" \/ ~seats[i].tag THEN past
               ELSE [past EXCEPT ![i.card] = [ran |-> Least(@.ran + 1, MaxLaunchAttempts),
                                              out |-> @.out \/ seats[i].out \/ wrote]]
  /\ slipped' = slipped \ {i} /\ cleared' = cleared \ {i}
  /\ UNCHANGED Hosts

\* Five minutes since the spawn request: the launch configuration is dropped.
ConfigExpires(i) == /\ seats[i].tag /\ Turn(i, "launching", [seats[i] EXCEPT !.tag = FALSE])
                    /\ Upset("slow")
                    /\ UNCHANGED <<Hosts, past, slipped, cleared>>

\* Five minutes, or twenty entries, since the dispatch was written: nothing holds
\* the card for the seat any more.
HoldExpires(i) ==
  /\ i \in log.held
  /\ log' = [log EXCEPT !.held = @ \ {i}]
  /\ \/ /\ Running(i) /\ i \notin Registered
        /\ UpsetIf(seats[i].tag, "slow")
        /\ slipped' = slipped \cup {i}
        /\ UNCHANGED seats
     \/ /\ seats[i].st = "lost"
        /\ seats' = [seats EXCEPT ![i] = Over]
        /\ UNCHANGED <<slipped, upsets>>
  /\ UNCHANGED <<run, armed, lease, board, past, beat, cleared, crossed>>

LeaseAges == /\ lease.at = "fresh"
             /\ lease' = [lease EXCEPT !.at = "aged"]
             /\ UNCHANGED <<run, armed, log, board, seats, past, beat, history, upsets>>

\* The run has spent its dollars, or its hours.
CeilingReached == /\ ~run.over /\ Upset("ceiling")
                  /\ run' = [run EXCEPT !.over = TRUE]
                  /\ UNCHANGED <<armed, lease, log, board, seats, past, beat, history>>

-----------------------------------------------------------------------------
(* The operator.                                                           *)

Operator(verb) == /\ Upset(verb)
                  /\ crossed' = (crossed \/ beat.pc # "idle")
                  /\ UNCHANGED <<log, board, seats, past, beat, slipped, cleared>>

pause == /\ Operator("pause")
         /\ run' = [run EXCEPT !.status = "paused"]
         /\ lease' = Released
         /\ armed' = FALSE
start == /\ Operator("start")
         /\ \E over \in {FALSE, run.over} : run' = [status |-> "armed", dry |-> 0, over |-> over]
         /\ armed' = TRUE
         /\ UNCHANGED lease
\* Refused while the holder lives, unless forced.
actionBreakLease == /\ Operator("break") /\ lease.conv # NoConv
                    /\ lease' = Released
                    /\ UNCHANGED <<run, armed>>

-----------------------------------------------------------------------------
Perform == \/ takeLease \/ wakeWerkMaster \/ adoptLease \/ spawnForCard \/ appendDispatch
           \/ settleRun \/ standDown

Next ==
  \/ sweepEpics \/ runEpicBeat \/ Perform \/ OpLost \/ Restart
  \/ LeaseAges \/ CeilingReached \/ pause \/ start \/ actionBreakLease
  \/ \E i \in Seats : \/ Attach(i) \/ LaunchLost(i) \/ FallsSilent(i) \/ BackFromSilence(i)
                      \/ Works(i) \/ Ends(i) \/ ConfigExpires(i) \/ HoldExpires(i)

Spec == Init /\ [][Next]_vars

\* The tick fires and awaits settle; time passes; launched hosts connect, or their
\* hold runs out; a worker's turn ends, a verifier's with a verdict.  Nothing is
\* asked of a werk-master: it may keep its socket for ever.
Beats == sweepEpics \/ runEpicBeat \/ Perform
Progresses(i) == \/ Attach(i) \/ (seats[i].st = "lost" /\ HoldExpires(i))
                 \/ (i.role # "master" /\ Ends(i)) \/ (i.role = "verifier" /\ Works(i))
FairSpec ==
  /\ Spec
  /\ WF_vars(Beats) /\ WF_vars(LeaseAges) /\ WF_vars(\E i \in Seats : Progresses(i))

-----------------------------------------------------------------------------
(* Properties                                                              *)

\* Every variable keeps its type; a beat has steps left exactly while it acts.
TypeOK ==
  /\ run \in [status : {"armed", "running", "paused", "complete"}, dry : 0..1, over : BOOLEAN]
  /\ armed \in BOOLEAN /\ crossed \in BOOLEAN
  /\ lease \in [conv : Convs \cup {NoConv, Placeholder}, gen : 0..MaxGens, at : {"none", "fresh", "aged"}]
  /\ log \in [acked : SUBSET Cards, dispatched : [Cards -> 0..MaxCardSeats], held : SUBSET Convs]
  /\ board \in [Cards -> Lanes]
  /\ seats \in [Convs -> [gen : 0..MaxGens, tag : BOOLEAN, out : BOOLEAN,
                          st : {"launching", "up", "silent", "lost"}] \cup {Over}]
  /\ past \in [Cards -> [ran : 0..MaxLaunchAttempts, out : BOOLEAN]]
  /\ beat.pc \in {"idle", "read", "act"} /\ (beat.pc = "act") = (beat.todo # <<>>)
  /\ slipped \cup cleared \subseteq Seats /\ upsets \in 0..MaxUpsets

Twins(i, j) == i # j /\ Running(i) /\ Running(j) /\ i.card = j.card /\ i.role = j.role

\* A card never has two workers, or two verifiers, unless the engine lost sight of
\* one of them: its dispatch was never written, it was reaped and came back, its
\* hold ran out, or a completion of the card ended its hold (pendingSeatCards, the
\* fold taken before the baton is read, and spawnForCard's two awaits).
SeatsSingle ==
  \A i, j \in Seats : (Twins(i, j) /\ i.role # "master") => {i, j} \cap (slipped \cup cleared) # {}

\* A generation names one werk-master, and the lease names the one of its own
\* generation, although it is taken under a placeholder, the conversation comes
\* up later, and either step may be lost with the broker (takeLease, adoptLease).
LeaseNames ==
  /\ \A i, j \in Seats : (Twins(i, j) /\ i.role = "master") => seats[i].gen # seats[j].gen
  /\ (lease.conv \in Seats /\ Running(lease.conv)) => seats[lease.conv].gen = lease.gen

\* A run that is not inert is one the sweep watches, whatever was cut short in
\* settleRun and standDown; except that the operator's pause or start, or a settle
\* that never reached the sentinel, crossed a beat's awaits.
LiveRunIsArmed == ~isInertRun(run.status) => armed \/ crossed

\* A live werk-master under a lease that has no age.
Ageless == lease.at = "none" /\ \E i \in Masters : Alive(i)

\* A run ends, by completion or by parking, even with no ceiling on its spend and
\* under a werk-master that never returns (werkMasterGate, movedBeat), unless it
\* fell off the sweep's list or a release took the age of a live werk-master's lease.
RunEnds == ~isInertRun(run.status) ~> (isInertRun(run.status) \/ ~armed \/ Ageless)
=============================================================================
