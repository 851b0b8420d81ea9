----------------------------- MODULE Nightshift -----------------------------
(* The unattended night run of one project on one calendar day (the run id is *)
(* the day): runNightshift and the orchestrator tick of                       *)
(* src/broker/nightshift-orchestrator.ts, admission against the capacity      *)
(* ledger, the guardian sweep and its retry ladder, the watchdog, and the     *)
(* artifact tree the sentinel keeps under .nightshift/.  Every await of the   *)
(* broker is a step boundary, so the tick, the sweep, the watchdog, the       *)
(* workers and a broker restart interleave between any two round trips.       *)
EXTENDS Integers, Sequences, FiniteSets, FiniteSetsExt, SequencesExt

CONSTANTS
    CardSeq,        \* the board cards in the scanner's order (priority, age)
    Summary,        \* the title the watchdog gives its artifact, no card's own
    ReadRank,       \* title -> position in the directory listing of tasks/
    Estimate,       \* defaultEstimateTokens: no board card brings its own
    Concurrency,    \* caps.concurrency
    AttemptCap,     \* ATTEMPT_CAP
    MaxPokes,       \* MAX_POKES
    Rooms,          \* the headrooms (gate minus floor, in tokens) the oracle may read
    Triggers,       \* who opens runs: the scheduler, the Run-now handler
    Switches,       \* the settings of CLAUDWERK_CAPACITY_ADMISSION at boot
    MaxConv,        \* bound: worker conversations ever spawned
    MaxOpens,       \* bound: runNightshift calls that get past the first check
    MaxFaults       \* bound: lost sentinel round trips and broker restarts together

Cards == Range(CardSeq)
Titles == Cards \cup {Summary}
Ids == DOMAIN CardSeq
Convs == 1..MaxConv
None == "none"

ASSUME NightAssumption ==
    /\ CardSeq \in Seq(Cards) /\ IsInjective(CardSeq) /\ Summary \notin Cards
    /\ ReadRank \in [Titles -> Nat] /\ IsInjective(ReadRank)
    /\ {Estimate, Concurrency} \subseteq Nat \ {0}
    /\ {AttemptCap, MaxPokes, MaxConv, MaxOpens, MaxFaults} \subseteq Nat
    /\ Rooms \subseteq Nat /\ 0 \in Rooms
    /\ \E widest \in Rooms : \A room \in Rooms : room <= widest
    /\ Triggers \subseteq {"scheduler", "manual"} /\ Switches \subseteq BOOLEAN

VARIABLES
    tagged,     \* cards that carry #nightshift
    ranToday,   \* the scheduler's once-a-day mark
    active,     \* the trigger whose RunState activeRuns holds, or None
    run,        \* per trigger: its runNightshift call, then its RunState
    file,       \* tasks/NNN-<title>.md: status and attempts
    skipped,    \* ids listed in skipped.md
    runmd,      \* status of run.md
    conv,       \* the worker conversations
    lastEnd,    \* id -> the conversation of the task that ended last
    ladder,     \* settleEndedWorker per task (inflightSettle is pc # "none")
    sweep,      \* the guardian sweep
    pokes,      \* pokeTracker
    admission,  \* reservations gate dispatches (else only the slots do)
    reserved,   \* the ledger: tokens reserved per task ref, 0 when none
    opens, lost, restarts

artifacts  == <<file, skipped, runmd>>
guardian   == <<ladder, sweep, pokes>>
workers    == <<conv, lastEnd>>
control    == <<ranToday, active, opens>>
vars == <<tagged, control, run, artifacts, workers, guardian, admission, reserved, lost,
          restarts>>

Task == [id : Ids, card : Cards]
\* pc names the await the call is in; "off" before and after, "idle" between ticks.
NoRun == [pc |-> "off", pending |-> <<>>, inflight |-> [i \in Ids |-> 0], todo |-> {},
          parked |-> FALSE, closed |-> FALSE, id |-> 0, conv |-> 0, card |-> Summary]
NoConv == [id |-> 0, card |-> Summary, st |-> "none", crash |-> FALSE,
           retry |-> FALSE, poked |-> FALSE, acted |-> FALSE, killing |-> FALSE]
NoLadder == [pc |-> "none", conv |-> 0, attempts |-> 0]
NoSweep == [pc |-> "idle", todo |-> {}, dead |-> [i \in Ids |-> 0], id |-> 0]
NoFile == [st |-> "none", attempts |-> 0]
-----------------------------------------------------------------------------
(* The sentinel: one round trip is answered, or lost (no sentinel, a failed   *)
(* send, the ten second timeout).                                             *)
FaultLeft == lost + restarts < MaxFaults
Rpc(ok) == IF ok THEN lost' = lost ELSE FaultLeft /\ lost' = lost + 1

FilesOf(i) == {x \in Titles : file[i][x].st # "none"}
\* listRunTasks(...).find(t => t.id === taskId) and findTaskFile: the first
\* file of the listing whose name starts with the id.
First(i) == CHOOSE x \in FilesOf(i) : \A y \in FilesOf(i) : ReadRank[x] <= ReadRank[y]
View(i) == IF FilesOf(i) = {} THEN NoFile ELSE file[i][First(i)]
Terminal(f) == f.st \in {"done", "errored"}

\* writeTask: one file per id and title, overwritten whole.
Write(i, x, st) == file' = [file EXCEPT ![i][x] = [st |-> st, attempts |-> 0]]
\* patchTask: merges into the first file of the id, or finds none.
Patch(i, st, attempts) ==
    file' = IF FilesOf(i) = {} THEN file
            ELSE [file EXCEPT ![i][First(i)] = [st |-> st, attempts |-> attempts]]
StampErrored(i, ok) ==
    IF ok THEN Patch(i, "errored", View(i).attempts) ELSE file' = file
-----------------------------------------------------------------------------
(* The conversation registry.  A spawned worker is unknown to it ("booting")  *)
(* until its host connects.  It is then active or idle ("live"), or hangs     *)
(* before its first turn ("starting"); "closing" has ended but still holds a  *)
(* socket.  A worker whose host connects after a restart has lost its         *)
(* nightshift tag ("stray").                                                  *)
Open == {"starting", "live"}
Registered(k) == conv[k].st \in Open \cup {"closing", "ended"}
Backing(i) == {k \in Convs : conv[k].id = i /\ Registered(k)}
\* werkLiveness
IsLive(k) == conv[k].st \in Open \cup {"closing"}
AnyLive(i) == \E k \in Backing(i) : IsLive(k)
\* isCrashEnd
IsCrashEnd(k) == k # 0 /\ conv[k].st \in {"closing", "ended"} /\ conv[k].crash

Unused == {k \in Convs : conv[k].st = "none"}
\* dispatchSpawn: acknowledged, refused, or timed out although the worker comes.
SpawnOutcome == {"ok", "late", "refused"}
Spawn(out, i, c, again) ==
    IF out = "refused" THEN conv' = conv
    ELSE /\ Unused # {}
         /\ conv' = [conv EXCEPT ![Min(Unused)] =
                [NoConv EXCEPT !.id = i, !.card = c, !.st = "booting", !.retry = again]]

End(k, st, crash) ==
    /\ conv' = [conv EXCEPT ![k].st = st, ![k].crash = crash, ![k].killing = FALSE,
                            ![k].acted = @ /\ ~crash]
    /\ lastEnd' = [lastEnd EXCEPT ![conv[k].id] = k]
-----------------------------------------------------------------------------
(* Opening a run.                                                             *)
Put(t, r) == run' = [run EXCEPT ![t] = r]
To(t, pc) == run' = [run EXCEPT ![t].pc = pc]

\* consider: the busy check, before the config read.
Consider ==
    /\ "scheduler" \in Triggers /\ run["scheduler"].pc = "off" /\ active = None /\ ~ranToday
    /\ To("scheduler", "consider")
    /\ UNCHANGED <<tagged, control, artifacts, workers, guardian, admission, reserved, lost,
                   restarts>>

\* runNightshift up to its first await: one run in flight per project.
RunNightshift(t) ==
    /\ run[t].pc = IF t = "scheduler" THEN "consider" ELSE "off"
    /\ ranToday' = (ranToday \/ t = "scheduler")
    /\ IF active = None /\ opens < MaxOpens
       THEN To(t, "scan") /\ opens' = opens + 1
       ELSE To(t, "off") /\ UNCHANGED opens
    /\ UNCHANGED <<tagged, active, artifacts, workers, guardian, admission, reserved, lost,
                   restarts>>

\* The tagged cards among the first n of the scan, and the tasks built from all
\* of them: a task's ordinal is its card's place among the tagged ones.
TaggedIn(n) == {m \in 1..n : CardSeq[m] \in tagged}
Numbered ==
    [i \in 1..Cardinality(TaggedIn(Len(CardSeq))) |->
        [id |-> i, card |-> CardSeq[CHOOSE n \in Ids : n \in TaggedIn(n) /\ Cardinality(TaggedIn(n)) = i]]]

\* scanBoardForTasks: no tagged card, or a board that does not answer, ends the
\* call.
ScanBoard(t) ==
    /\ run[t].pc = "scan"
    /\ \E ok \in BOOLEAN :
         LET found == IF ok THEN Numbered ELSE <<>>
         IN  /\ Rpc(ok)
             /\ Put(t, [NoRun EXCEPT !.pc = IF found = <<>> THEN "off" ELSE "start",
                                     !.pending = found])
    /\ UNCHANGED <<tagged, control, artifacts, workers, guardian, admission, reserved, restarts>>
-----------------------------------------------------------------------------
(* advanceRun: reap, fill, finalize.  r is the RunState and led the ledger as *)
(* the code between two awaits has left them.                                 *)
InflightOf(r) == {i \in Ids : r.inflight[i] # 0}
Inflight(t) == InflightOf(run[t])
SlotFree(r) == Cardinality(InflightOf(r)) < Concurrency
Resumed(r) == [r EXCEPT !.id = 0, !.conv = 0, !.card = Summary]

\* A slip: only the workers in flight hold a run open.
ForgetsPending(t, r) ==
    Put(t, [Resumed(r) EXCEPT !.pc = IF InflightOf(r) # {} THEN "idle" ELSE "finalize"])

\* maybeFinalize, up to its round trip.
MaybeFinalize(t, r) ==
    Put(t, [Resumed(r) EXCEPT
              !.pc = IF r.pending # <<>> \/ InflightOf(r) # {} THEN "idle" ELSE "finalize"])

\* admitAvailable: the head of the queue, if its estimate fits next to what is
\* reserved in some reading of the oracle (none reads as 0).  All estimates are
\* the default one, so what denies the head denies the rest.
Outstanding(led) == MapThenSumSet(LAMBDA i : led[i], Ids)
\* A slip: the reservations of the workers in flight are not subtracted.
IgnoresOutstanding(r, led, headroom) ==
    r.pending # <<>> /\ SlotFree(r) /\ (admission => Estimate <= headroom)

Admissible(r, led, headroom) ==
    /\ r.pending # <<>> /\ SlotFree(r)
    /\ admission => Outstanding(led) + Estimate <= headroom

Admit(t, r, led) ==
    LET task == Head(r.pending)
    IN  /\ \E headroom \in Rooms : Admissible(r, led, headroom)
        /\ Put(t, [r EXCEPT !.pc = "placeholder", !.pending = Tail(@),
                            !.id = task.id, !.conv = 0, !.card = task.card])
        /\ reserved' = IF admission THEN [led EXCEPT ![task.id] = Estimate] ELSE led

\* Nothing more to admit: the run parks when nothing is running, tasks were
\* denied and some profile shows when its window resets.
AdmitNone(t, r, led) ==
    /\ \E headroom \in Rooms : ~Admissible(r, led, headroom)
    /\ \E wakeKnown \in BOOLEAN :
         MaybeFinalize(t, [r EXCEPT !.parked =
             admission /\ wakeKnown /\ InflightOf(r) = {} /\ r.pending # <<>>])
    /\ reserved' = led

\* A slip: the parked check comes before the window check.
ParkedFirst(t, r, led) ==
    IF admission /\ (r.closed \/ r.parked)
    THEN /\ IF ~r.parked /\ InflightOf(r) = {} /\ r.pending # <<>>
            THEN Put(t, [Resumed(r) EXCEPT !.pc = "starve", !.pending = <<>>,
                           !.todo = {task.id : task \in Range(r.pending)}])
            ELSE MaybeFinalize(t, r)
         /\ reserved' = led
    ELSE Admit(t, r, led) \/ AdmitNone(t, r, led)

\* fillSlots: after the window the rest is starved once nothing runs; a parked
\* run waits.
FillSlots(t, r, led) ==
    IF admission /\ (r.closed \/ r.parked)
    THEN /\ IF r.closed /\ InflightOf(r) = {} /\ r.pending # <<>>
            THEN Put(t, [Resumed(r) EXCEPT !.pc = "starve", !.pending = <<>>,
                           !.todo = {task.id : task \in Range(r.pending)}])
            ELSE MaybeFinalize(t, r)
         /\ reserved' = led
    ELSE Admit(t, r, led) \/ AdmitNone(t, r, led)

\* reapFinished: a conversation the registry does not know counts as ended.
ReapFinished(t, r, led) ==
    LET gone == {i \in r.todo : conv[r.inflight[i]].st \notin Open}
    IN  IF gone = {} THEN FillSlots(t, [r EXCEPT !.todo = {}], led)
        ELSE \E i \in gone :
               /\ Put(t, [r EXCEPT !.pc = "snapshot", !.todo = @ \ {i}, !.id = i,
                                   !.conv = r.inflight[i], !.inflight[i] = 0])
               /\ reserved' = [led EXCEPT ![i] = 0]
AdvanceRun(t, r) == ReapFinished(t, [r EXCEPT !.todo = InflightOf(r)], reserved)

\* run_start, activeRuns.set and the first advanceRun.
RunStart(t) ==
    /\ run[t].pc = "start"
    /\ \E ok \in BOOLEAN :
         /\ Rpc(ok)
         /\ IF ok
            THEN /\ runmd' = IF runmd = None THEN "running" ELSE runmd
                 /\ active' = t
                 /\ AdvanceRun(t, run[t])
            ELSE Put(t, NoRun) /\ UNCHANGED <<runmd, active, reserved>>
    /\ UNCHANGED <<tagged, ranToday, opens, file, skipped, workers, guardian, admission, restarts>>

Tick(t) ==
    /\ active = t /\ run[t].pc = "idle"
    /\ AdvanceRun(t, run[t])
    /\ UNCHANGED <<tagged, control, artifacts, workers, guardian, admission, lost, restarts>>

\* ensureTerminalArtifact: an unreadable card counts as unsettled; a crash goes
\* to the guardian's ladder unless one is already under way.
Snapshot(t) ==
    /\ run[t].pc = "snapshot"
    /\ \E ok \in BOOLEAN :
         LET i == run[t].id
             crash == IsCrashEnd(run[t].conv)
             settled == ok /\ Terminal(View(i))
         IN  /\ Rpc(ok)
             /\ \/ /\ ~settled /\ crash /\ ladder[i].pc = "none"
                   /\ ladder' = [ladder EXCEPT ![i] = [NoLadder EXCEPT !.pc = "read",
                                                                       !.conv = run[t].conv]]
                   /\ To(t, "ladder") /\ UNCHANGED reserved
                \/ /\ ~settled /\ ~crash
                   /\ To(t, "patch") /\ UNCHANGED <<ladder, reserved>>
                \/ /\ settled \/ (crash /\ ladder[i].pc # "none")
                   /\ ReapFinished(t, run[t], reserved) /\ UNCHANGED ladder
    /\ UNCHANGED <<tagged, control, artifacts, workers, sweep, pokes, admission, restarts>>

PatchErrored(t) ==
    /\ run[t].pc = "patch"
    /\ \E ok \in BOOLEAN : Rpc(ok) /\ StampErrored(run[t].id, ok)
    /\ ReapFinished(t, run[t], reserved)
    /\ UNCHANGED <<tagged, control, skipped, runmd, workers, guardian, admission, restarts>>

LadderAwaited(t) ==
    /\ run[t].pc = "ladder" /\ ladder[run[t].id].pc = "none"
    /\ ReapFinished(t, run[t], reserved)
    /\ UNCHANGED <<tagged, control, artifacts, workers, guardian, admission, lost, restarts>>

\* starveAll: one skipped card per round trip.
Starve(t) ==
    /\ run[t].pc = "starve"
    /\ \E ok \in BOOLEAN :
         /\ Rpc(ok)
         /\ skipped' = IF ok THEN skipped \cup {Min(run[t].todo)} ELSE skipped
    /\ LET rest == run[t].todo \ {Min(run[t].todo)}
       IN  IF rest # {} THEN Put(t, [run[t] EXCEPT !.todo = rest])
           ELSE MaybeFinalize(t, [run[t] EXCEPT !.todo = {}])
    /\ UNCHANGED <<tagged, control, file, runmd, workers, guardian, admission, reserved, restarts>>

\* dispatchTask: the running placeholder, the untag, the spawn, and the patch of
\* a spawn that failed.
Placeholder(t) ==
    /\ run[t].pc = "placeholder"
    /\ \E ok \in BOOLEAN :
         /\ Rpc(ok)
         /\ IF ok THEN Write(run[t].id, run[t].card, "running") ELSE file' = file
    /\ To(t, "untag")
    /\ UNCHANGED <<tagged, control, skipped, runmd, workers, guardian, admission, reserved,
                   restarts>>

Untag(t) ==
    /\ run[t].pc = "untag"
    /\ \E ok \in BOOLEAN :
         Rpc(ok) /\ tagged' = IF ok THEN tagged \ {run[t].card} ELSE tagged
    /\ To(t, "spawn")
    /\ UNCHANGED <<control, artifacts, workers, guardian, admission, reserved, restarts>>

\* A slip: a failed spawn keeps its reservation.
KeepsReservation(t) ==
    /\ run[t].pc = "spawn"
    /\ \E out \in SpawnOutcome :
         /\ Spawn(out, run[t].id, run[t].card, FALSE)
         /\ LET r == [run[t] EXCEPT !.inflight[run[t].id] = Min(Unused)]
            IN  IF out = "ok" THEN Admit(t, r, reserved) \/ AdmitNone(t, r, reserved)
                ELSE To(t, "failed") /\ UNCHANGED reserved
    /\ UNCHANGED <<tagged, control, artifacts, lastEnd, guardian, admission, lost, restarts>>

SpawnWorker(t) ==
    /\ run[t].pc = "spawn"
    /\ \E out \in SpawnOutcome :
         LET i == run[t].id
             r == [run[t] EXCEPT !.inflight[i] = Min(Unused)]
         IN  /\ Spawn(out, i, run[t].card, FALSE)
             /\ IF out = "ok"
                THEN Admit(t, r, reserved) \/ AdmitNone(t, r, reserved)
                ELSE To(t, "failed") /\ reserved' = [reserved EXCEPT ![i] = 0]
    /\ UNCHANGED <<tagged, control, artifacts, lastEnd, guardian, admission, lost, restarts>>

SpawnFailed(t) ==
    /\ run[t].pc = "failed"
    /\ \E ok \in BOOLEAN : Rpc(ok) /\ StampErrored(run[t].id, ok)
    /\ Admit(t, run[t], reserved) \/ AdmitNone(t, run[t], reserved)
    /\ UNCHANGED <<tagged, control, skipped, runmd, workers, guardian, admission, restarts>>

\* run_finalize; activeRuns.delete(project) follows whether or not the sentinel
\* answered.
Finalize(t) ==
    /\ run[t].pc = "finalize"
    /\ \E ok \in BOOLEAN : Rpc(ok) /\ runmd' = IF ok /\ runmd # None THEN "done" ELSE runmd
    /\ active' = None
    /\ Put(t, NoRun)
    /\ UNCHANGED <<tagged, ranToday, opens, file, skipped, workers, guardian, admission,
                   reserved, restarts>>

\* noteCapacityUsageEvent: a rate_limit_event wakes a parked run and advances it.
UsageEvent(t) ==
    /\ active = t /\ run[t].parked
    /\ LET r == [run[t] EXCEPT !.parked = FALSE]
       IN  IF r.pc = "idle" THEN AdvanceRun(t, r) ELSE Put(t, r) /\ UNCHANGED reserved
    /\ UNCHANGED <<tagged, control, artifacts, workers, guardian, admission, lost, restarts>>

\* The clock: the computed wake time of a parked run passes, its window closes.
SleepOver(t) ==
    /\ active = t /\ run[t].parked
    /\ Put(t, [run[t] EXCEPT !.parked = FALSE])
    /\ UNCHANGED <<tagged, control, artifacts, workers, guardian, admission, reserved, lost,
                   restarts>>

WindowCloses(t) ==
    /\ admission /\ active = t /\ ~run[t].closed /\ run[t].pending # <<>>
    /\ Put(t, [run[t] EXCEPT !.closed = TRUE])
    /\ UNCHANGED <<tagged, control, artifacts, workers, guardian, admission, reserved, lost,
                   restarts>>
-----------------------------------------------------------------------------
(* settleEndedWorker: read, cap, investigate, count the attempt, respawn.     *)
Climb(i, pc) == ladder' = [ladder EXCEPT ![i].pc = pc]

\* The cap, then the investigator's verdict: fatal or retryable.
LadderRead(i) ==
    /\ ladder[i].pc = "read"
    /\ \E ok \in BOOLEAN :
         /\ Rpc(ok)
         /\ IF ~ok \/ View(i).st # "running"
            THEN ladder' = [ladder EXCEPT ![i] = NoLadder]
            ELSE \E retryable \in BOOLEAN :
                   ladder' = [ladder EXCEPT ![i].attempts = View(i).attempts,
                       ![i].pc = IF retryable /\ View(i).attempts < AttemptCap
                                 THEN "bump" ELSE "stamp"]
    /\ UNCHANGED <<tagged, control, run, artifacts, workers, sweep, pokes, admission, reserved,
                   restarts>>

\* A slip: the retry is noted on the card without counting it.
BumpsNothing(i) ==
    /\ ladder[i].pc = "bump"
    /\ \E ok \in BOOLEAN :
         /\ Rpc(ok)
         /\ IF ok THEN Patch(i, "running", ladder[i].attempts) ELSE file' = file
    /\ Climb(i, "respawn")
    /\ UNCHANGED <<tagged, control, run, skipped, runmd, workers, sweep, pokes, admission,
                   reserved, restarts>>

\* The counter is written before the respawn, which follows whatever the
\* sentinel answered.
LadderBump(i) ==
    /\ ladder[i].pc = "bump"
    /\ \E ok \in BOOLEAN :
         /\ Rpc(ok)
         /\ IF ok THEN Patch(i, "running", ladder[i].attempts + 1) ELSE file' = file
    /\ Climb(i, "respawn")
    /\ UNCHANGED <<tagged, control, run, skipped, runmd, workers, sweep, pokes, admission,
                   reserved, restarts>>

LadderRespawn(i) ==
    /\ ladder[i].pc = "respawn"
    /\ \E out \in SpawnOutcome :
         /\ Spawn(out, i, conv[ladder[i].conv].card, TRUE)
         /\ ladder' = [ladder EXCEPT ![i] =
                IF out = "ok" THEN NoLadder ELSE [@ EXCEPT !.pc = "stamp"]]
    /\ UNCHANGED <<tagged, control, run, artifacts, lastEnd, sweep, pokes, admission, reserved,
                   lost, restarts>>

\* stampTerminal
LadderStamp(i) ==
    /\ ladder[i].pc = "stamp"
    /\ \E ok \in BOOLEAN : Rpc(ok) /\ StampErrored(i, ok)
    /\ ladder' = [ladder EXCEPT ![i] = NoLadder]
    /\ pokes' = [pokes EXCEPT ![i] = 0]
    /\ UNCHANGED <<tagged, control, run, skipped, runmd, workers, sweep, admission, reserved,
                   restarts>>
-----------------------------------------------------------------------------
(* sweepGuardians: the fold over the registry is taken once, at the start;    *)
(* the tasks it found dead are then handled one after the other, those with a *)
(* ladder under way passed over.                                              *)
Orphans == {i \in Ids : Backing(i) # {} /\ ~AnyLive(i)}
SweepOn(s) ==
    LET free == {i \in s.todo : ladder[i].pc = "none"}
    IN  sweep' = IF free = {} THEN NoSweep
                 ELSE [s EXCEPT !.pc = "read", !.id = Min(free),
                                !.todo = {i \in s.todo : i > Min(free)}]

SweepStart ==
    /\ sweep.pc = "idle"
    /\ Orphans # {} \/ \E i \in Ids : AnyLive(i) /\ pokes[i] > 0
    /\ SweepOn([NoSweep EXCEPT !.todo = Orphans,
                    !.dead = [i \in Ids |-> IF i \in Orphans THEN lastEnd[i] ELSE 0]])
    /\ pokes' = [i \in Ids |-> IF AnyLive(i) THEN 0 ELSE pokes[i]]
    /\ UNCHANGED <<tagged, control, run, artifacts, workers, ladder, admission, reserved, lost,
                   restarts>>

\* pokeOrStamp's bound.
PokesLeft(i) == pokes[i] < MaxPokes

\* handleOrphanTask: forget a settled or unreadable card, hand a crash to the
\* ladder, poke up to MaxPokes times (a revive through the sentinel), then stamp.
SweepRead ==
    LET i == sweep.id
        k == sweep.dead[i]
        open == View(i).st = "running"
    IN  /\ sweep.pc = "read"
        /\ \E ok \in BOOLEAN :
             /\ Rpc(ok)
             /\ \/ /\ ~ok \/ ~open
                   /\ SweepOn(sweep)
                   /\ pokes' = [pokes EXCEPT ![i] = 0]
                   /\ UNCHANGED <<conv, ladder>>
                \/ /\ ok /\ open /\ IsCrashEnd(k)
                   /\ IF ladder[i].pc = "none"
                      THEN /\ ladder' = [ladder EXCEPT ![i] = [NoLadder EXCEPT !.pc = "read",
                                                                               !.conv = k]]
                           /\ sweep' = [sweep EXCEPT !.pc = "ladder"]
                      ELSE SweepOn(sweep) /\ UNCHANGED ladder
                   /\ UNCHANGED <<conv, pokes>>
                \/ /\ ok /\ open /\ ~IsCrashEnd(k)
                   /\ IF PokesLeft(i)
                      THEN /\ pokes' = [pokes EXCEPT ![i] = @ + 1]
                           /\ conv' = [conv EXCEPT ![k].poked = (conv[k].st = "ended")]
                           /\ SweepOn(sweep)
                      ELSE sweep' = [sweep EXCEPT !.pc = "stamp"] /\ UNCHANGED <<conv, pokes>>
                   /\ UNCHANGED ladder
        /\ UNCHANGED <<tagged, control, run, artifacts, lastEnd, admission, reserved, restarts>>

\* A slip: exhausted pokes clear the tracker but stamp nothing.
PokesStartOver ==
    /\ sweep.pc = "stamp"
    /\ pokes' = [pokes EXCEPT ![sweep.id] = 0]
    /\ SweepOn(sweep)
    /\ UNCHANGED <<tagged, control, run, artifacts, workers, ladder, admission, reserved, lost,
                   restarts>>

SweepStamp ==
    /\ sweep.pc = "stamp"
    /\ \E ok \in BOOLEAN : Rpc(ok) /\ StampErrored(sweep.id, ok)
    /\ pokes' = [pokes EXCEPT ![sweep.id] = 0]
    /\ SweepOn(sweep)
    /\ UNCHANGED <<tagged, control, run, skipped, runmd, workers, ladder, admission, reserved,
                   restarts>>

SweepLadder ==
    /\ sweep.pc = "ladder" /\ ladder[sweep.id].pc = "none"
    /\ SweepOn(sweep)
    /\ UNCHANGED <<tagged, control, run, artifacts, workers, ladder, pokes, admission, reserved,
                   lost, restarts>>
-----------------------------------------------------------------------------
(* The workers and the watchdog.                                              *)
BrokerUnchanged == UNCHANGED <<tagged, control, run, guardian, admission, reserved, restarts>>

\* The host of a spawned or a revived worker connects.  A watchdog sweep that saw
\* the conversation ended will act on it again.
Boot(k) ==
    /\ conv[k].st = "booting" \/ (conv[k].st = "ended" /\ conv[k].poked)
    /\ \E st \in Open, again \in {FALSE, conv[k].acted} :
         conv' = [conv EXCEPT ![k].st = st, ![k].crash = FALSE, ![k].poked = FALSE,
                              ![k].acted = again]
    /\ UNCHANGED <<lastEnd, artifacts, lost>> /\ BrokerUnchanged

\* The worker reports an outcome through POST /api/nightshift, which overwrites
\* its card.  (A question goes to the blocked lane, which the engine never reads.)
Report(k) ==
    /\ conv[k].st \in {"live", "stray"}
    /\ Write(conv[k].id, conv[k].card, "done")
    /\ UNCHANGED <<skipped, runmd, workers, lost>> /\ BrokerUnchanged

\* A worker ends: by itself, on the operator's word, or as the watchdog told it.
\* (A kill that is still to come finds nothing to end.  Only a worker that did not
\* crash is ever poked, so only then the watchdog's mark can matter again.)
WorkerEnds(k) ==
    /\ conv[k].st \in Open
    /\ \E crash \in BOOLEAN : End(k, "closing", crash)
    /\ UNCHANGED <<artifacts, lost>> /\ BrokerUnchanged

SocketCloses(k) ==
    /\ conv[k].st = "closing"
    /\ conv' = [conv EXCEPT ![k].st = "ended"]
    /\ UNCHANGED <<lastEnd, artifacts, lost>> /\ BrokerUnchanged

\* stampThenTerminate: a breached cap writes an errored artifact under the
\* conversation's summary as title; a rate limit writes to the blocked lane only;
\* the kill follows whether or not the write went through.  The watchdog acts once
\* on a conversation, and only while it is active or idle.  (The next sweep is a
\* minute away: the write has ended by then.)
WatchdogStamps(k) ==
    /\ conv[k].st = "live" /\ ~conv[k].acted /\ ~conv[k].killing
    /\ conv' = [conv EXCEPT ![k].acted = TRUE, ![k].killing = TRUE]
    /\ \E breach \in BOOLEAN, ok \in BOOLEAN :
         Rpc(ok) /\ IF breach /\ ok THEN Write(conv[k].id, Summary, "errored") ELSE file' = file
    /\ UNCHANGED <<lastEnd, skipped, runmd>> /\ BrokerUnchanged

\* terminate: forwarded, once and without an answer, while a host holds a socket;
\* the conversation is ended directly when none does.
WatchdogKills(k) ==
    /\ conv[k].st = "live" /\ conv[k].killing
    /\ \/ conv' = [conv EXCEPT ![k].killing = FALSE] /\ UNCHANGED lastEnd
       \/ End(k, "ended", FALSE)
    /\ UNCHANGED <<artifacts, lost>> /\ BrokerUnchanged


\* The broker process goes and comes back: every map in memory is gone, the
\* ledger is rebuilt from the registered conversations that have not ended
\* (reconstructLedger), a booting worker loses its launch tag.
Restart ==
    /\ FaultLeft /\ restarts' = restarts + 1
    /\ ranToday' = FALSE
    /\ active' = None
    /\ run' = [t \in Triggers |-> NoRun]
    /\ ladder' = [i \in Ids |-> NoLadder]
    /\ sweep' = NoSweep
    /\ pokes' = [i \in Ids |-> 0]
    /\ reserved' = [i \in Ids |->
         IF admission /\ \E k \in Convs : conv[k].id = i /\ conv[k].st \in Open THEN Estimate ELSE 0]
    /\ conv' = [k \in Convs |-> [conv[k] EXCEPT !.acted = FALSE, !.killing = FALSE,
                   !.st = CASE @ = "booting" -> "stray" [] @ = "closing" -> "ended"
                            [] OTHER -> @]]
    /\ UNCHANGED <<tagged, opens, artifacts, lastEnd, admission, lost>>
-----------------------------------------------------------------------------
Init ==
    /\ tagged = Cards
    /\ ranToday = FALSE /\ active = None
    /\ run = [t \in Triggers |-> NoRun]
    /\ file = [i \in Ids |-> [x \in Titles |-> NoFile]]
    /\ skipped = {} /\ runmd = None
    /\ conv = [k \in Convs |-> NoConv]
    /\ lastEnd = [i \in Ids |-> 0]
    /\ ladder = [i \in Ids |-> NoLadder]
    /\ sweep = NoSweep
    /\ pokes = [i \in Ids |-> 0]
    /\ admission \in Switches
    /\ reserved = [i \in Ids |-> 0]
    /\ opens = 0 /\ lost = 0 /\ restarts = 0

Advance(t) ==
    \/ RunNightshift(t) \/ ScanBoard(t) \/ RunStart(t) \/ Tick(t) \/ Snapshot(t)
    \/ PatchErrored(t) \/ LadderAwaited(t) \/ Starve(t) \/ Placeholder(t) \/ Untag(t)
    \/ SpawnWorker(t) \/ SpawnFailed(t) \/ Finalize(t)
Settle(i) == LadderRead(i) \/ LadderBump(i) \/ LadderRespawn(i) \/ LadderStamp(i)
Sweep == SweepStart \/ SweepRead \/ SweepStamp \/ SweepLadder
Watchdog(k) == WatchdogStamps(k) \/ WatchdogKills(k)
Worker(k) == Boot(k) \/ Report(k) \/ WorkerEnds(k) \/ SocketCloses(k)

Next ==
    \/ Consider
    \/ \E t \in Triggers : Advance(t) \/ UsageEvent(t) \/ SleepOver(t) \/ WindowCloses(t)
    \/ \E i \in Ids : Settle(i)
    \/ Sweep
    \/ \E k \in Convs : Worker(k) \/ Watchdog(k)
    \/ Restart

Spec == Init /\ [][Next]_vars

(* The ticks, the sweep and the watchdog are timers; every await ends by its  *)
(* answer or its timeout; every active worker reaches the watchdog's time     *)
(* cap; the clock closes the window of a run that has one.  A worker that     *)
(* dies and is revived again and again is seen dead by some tick, because     *)
(* only the slower sweep revives it: hence strong fairness.  Workers owe      *)
(* nothing, not even to end when they are told to.                            *)
FairSpec ==
    /\ Spec
    /\ \A t \in Triggers : WF_vars(Advance(t)) /\ SF_vars(Tick(t)) /\ WF_vars(WindowCloses(t))
    /\ \A i \in Ids : WF_vars(Settle(i))
    /\ WF_vars(Sweep)
    /\ \A k \in Convs : WF_vars(Watchdog(k)) /\ WF_vars(SocketCloses(k))
-----------------------------------------------------------------------------
Awaits == {"consider", "scan", "start", "snapshot", "patch", "ladder", "starve",
           "placeholder", "untag", "spawn", "failed", "finalize"}
\* Every variable keeps to its type.
TypeOK ==
    /\ tagged \subseteq Cards
    /\ ranToday \in BOOLEAN /\ active \in Triggers \cup {None}
    /\ run \in [Triggers -> [pc : Awaits \cup {"off", "idle"},
                             pending : SeqOf(Task, Len(CardSeq)),
                             inflight : [Ids -> 0..MaxConv], todo : SUBSET Ids,
                             parked : BOOLEAN, closed : BOOLEAN,
                             id : Ids \cup {0}, conv : 0..MaxConv, card : Titles]]
    /\ file \in [Ids -> [Titles -> [st : {"none", "running", "done", "errored"},
                                    attempts : 0..AttemptCap]]]
    /\ skipped \subseteq Ids
    /\ runmd \in {None, "running", "done"}
    /\ conv \in [Convs -> [id : Ids \cup {0}, card : Titles,
                           st : Open \cup {"none", "booting", "closing", "ended", "stray"},
                           crash : BOOLEAN, retry : BOOLEAN, poked : BOOLEAN,
                           acted : BOOLEAN, killing : BOOLEAN]]
    /\ lastEnd \in [Ids -> 0..MaxConv]
    /\ ladder \in [Ids -> [pc : {"none", "read", "bump", "respawn", "stamp"},
                           conv : 0..MaxConv, attempts : 0..AttemptCap]]
    /\ sweep \in [pc : {"idle", "read", "ladder", "stamp"}, todo : SUBSET Ids,
                  dead : [Ids -> 0..MaxConv], id : Ids \cup {0}]
    /\ pokes \in [Ids -> 0..MaxPokes]
    /\ admission \in BOOLEAN /\ reserved \in [Ids -> Nat]
    /\ opens \in 0..MaxOpens /\ lost \in 0..MaxFaults /\ restarts \in 0..MaxFaults

\* A task is respawned at most AttemptCap times per night, however reap, sweep,
\* late reports and restarts interleave; only a lost counter write buys one more.
\* (A second run on the same day numbers its cards from 1 again, and an ordinal
\* then names two cards.)
RetriesBounded ==
    opens <= 1 => \A i \in Ids :
        Cardinality({k \in Convs : conv[k].id = i /\ conv[k].retry}) <= AttemptCap + lost

Dispatching(t) == run[t].pc \in {"placeholder", "untag", "spawn"}
\* The ledger is exact until a restart: a reservation stands for each task the
\* run tracks or is dispatching, and for nothing else, so neither a failed spawn
\* nor a reaped worker leaves tokens on the books.
LedgerExact ==
    admission /\ restarts = 0 /\ opens <= 1 =>
        {i \in Ids : reserved[i] # 0} =
            UNION {Inflight(t) \cup (IF Dispatching(t) THEN {run[t].id} ELSE {}) : t \in Triggers}

\* Until a restart parallel dispatches never collectively overshoot: what is
\* reserved fits the widest headroom the oracle ever reads.  (The rebuilt ledger
\* also books workers whose spawn had timed out and was released.)
NeverOverbooked == admission /\ restarts = 0 => Outstanding(reserved) <= Max(Rooms)

\* While every round trip is answered and the broker stays up, no card of an
\* opened run is ever nowhere: it waits in the run, is being dispatched or
\* skipped, is settled, or a conversation carries it.
CardAccounted ==
    lost = 0 /\ restarts = 0 /\ runmd # None =>
        \A i \in Ids :
            \/ i \in skipped \/ Terminal(View(i))
            \/ \E k \in Convs : conv[k].id = i
            \/ \E t \in Triggers :
                 \/ run[t].id = i \/ (run[t].pc = "starve" /\ i \in run[t].todo)
                 \/ \E task \in Range(run[t].pending) : task.id = i

\* "No card sits non-terminal behind a dead conversation", restarts and lost
\* round trips included.
NoDeadCard ==
    \A i \in Ids : (i \in Orphans /\ View(i).st = "running")
                    ~> (AnyLive(i) \/ View(i).st # "running")

\* A run that does not end is held open by one worker for good: one that never had
\* its first turn, or that outlived the one terminate the watchdog sends it.  Every
\* other task is dispatched and reaped, or skipped, and the run finalized.
Hung(k) == conv[k].st = "starting" \/ (conv[k].st = "live" /\ conv[k].acted /\ ~conv[k].killing)
Holds(k) == \E t \in Triggers, i \in Ids : active = t /\ run[t].inflight[i] = k

RunDrains == []<>(active = None) \/ \E k \in Convs : <>[](Hung(k) /\ Holds(k))
=============================================================================
