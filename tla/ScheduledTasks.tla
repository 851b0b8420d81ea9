--------------------------- MODULE ScheduledTasks ---------------------------
(***************************************************************************)
(* The broker's scheduled-task engine: the minute tick, the fire path, the *)
(* seat pool, boot reconciliation of missed fires, and the write path of   *)
(* the HTTP and MCP surfaces (src/broker/scheduled-tasks, its SQLite store *)
(* and src/shared/cron-time.ts).                                           *)
(*                                                                         *)
(* The broker is one JavaScript thread.  A handler runs from one await to  *)
(* the next without interruption, so `turn' says which handler holds the   *)
(* thread; every other step waits for "idle".  What interleaves is what    *)
(* happens between an await and its resumption: a dispatch in flight, a    *)
(* PATCH whose body is still being read, the boot walk waiting for a       *)
(* catch-up, and a crash.                                                  *)
(*                                                                         *)
(* Time is counted in minutes.  Wall maps a minute to the wall-clock key   *)
(* of the schedule's zone; it is not injective over the fall-back hour.    *)
(***************************************************************************)
EXTENDS Integers, FiniteSets

CONSTANTS
    Schedules,      \* schedule ids (newScheduledTaskId never repeats one)
    Orders,         \* work orders a schedule may name
    NoOrder,        \* "this schedule names no order"
    Reservation,    \* [Orders -> Nat]; Unreserved when the order declares none
    Confs,          \* the schedule definitions users write (records, see Conf)
    Initial,        \* [a set of schedules -> Confs]: the rows before the first boot
    Wall,           \* [minute -> wall-clock minute key]
    MaxMinute,      \* bound on the clock
    Limits,         \* [Ops -> Nat]: how often each outside event may happen
    MaxInFlight,    \* MAX_CONCURRENT_SCHEDULED_SPAWNS (3)
    MaxFailures,    \* MAX_CONSECUTIVE_FAILURES (5)
    Grace,          \* CATCH_UP_GRACE_MS, in minutes (360)
    MissedCap,      \* MAX_MISSED_ROWS (20)
    HistoryWindow,  \* rows read by lastSpawnedConversationId (20)
    MaxCount        \* SCHEDULE_MAX_COUNT (200)

Minutes    == 0..MaxMinute
NoTime     == -1
Unreserved == -1
NoConv     == 0
NoFlight   == 0

Keys == {Wall[m] : m \in Minutes}

\* The outside events that Limits bounds.
Ops == {"manual", "edit", "delete", "create", "crash", "grant", "scanner"}

\* What a user configures.  `due' is the set of wall-clock minutes the cron
\* expression matches; `planOk' is whether planFire can build the request (the
\* order's caps compose and the deny-floor applies).
Conf == [kind    : {"cron", "once", "bad"},
         due     : SUBSET Keys,
         runAt   : Minutes,
         startAt : Minutes \cup {NoTime},
         endAt   : Minutes \cup {NoTime},
         maxRuns : Nat \cup {NoTime},
         overlap : {"skip", "parallel"},
         catchUp : {"skip", "once"},
         action  : {"spawn", "board-sweep", "epic-start"},
         order   : Orders \cup {NoOrder},
         planOk  : BOOLEAN]

ASSUME ConstantsAssumption ==
    /\ IsFiniteSet(Schedules)
    /\ MaxMinute \in Nat
    /\ NoOrder \notin Orders
    /\ Reservation \in [Orders -> Nat \cup {Unreserved}]
    /\ Confs \subseteq Conf
    /\ DOMAIN Initial \subseteq Schedules
    /\ Initial \in [DOMAIN Initial -> Confs]
    /\ Limits \in [Ops -> Nat]
    /\ MaxInFlight \in Nat
    /\ MaxFailures \in Nat \ {0}
    /\ Grace \in Nat /\ MissedCap \in Nat /\ HistoryWindow \in Nat
    /\ MaxCount \in Nat

\* Fire markers: a wall-clock minute, a one-shot's own instant, or a manual run.
WallKey(m)   == <<"wall", Wall[m]>>
OnceKey(m)   == <<"once", m>>
ManualKey(m) == <<"manual", Wall[m]>>
NoKey        == <<"none">>

Marker == {<<"wall", k>> : k \in Keys} \cup {<<"once", m>> : m \in Minutes} \cup {NoKey}
RunKey == Marker \cup {<<"manual", k>> : k \in Keys}

\* A row of scheduled_tasks.
Task == [enabled   : BOOLEAN,
         conf      : Confs,
         runCount  : Nat,
         failures  : Nat,
         lastRunAt : Minutes \cup {NoTime},
         marker    : Marker]

Triggers == {"cron", "manual", "catchup"}
Outcomes == {"spawned", "swept", "armed", "skipped_overlap", "skipped_disabled",
             "error", "missed"}

\* A row of scheduled_task_runs.
Run == [id : Nat, s : Schedules, at : Minutes, key : RunKey,
        trigger : Triggers, outcome : Outcomes, conv : Nat]

\* A fire between `await plan.run()' and its resumption, with the task record
\* it captured before the await.
Flight == [id : Nat, s : Schedules, snap : Task, at : Minutes, key : RunKey,
           trigger : Triggers]

\* History of a dispatch: was it made under overlap `skip', and which runs of its
\* schedule did the overlap check not see?
Fire == [id : Nat, s : Schedules, key : RunKey, trigger : Triggers,
         skip : BOOLEAN, unseen : SUBSET Nat]

\* What a PATCH body asks for.
Patches == [what : {"enabled"}, value : BOOLEAN] \cup [what : {"conf"}, value : Confs]

\* A PATCH request that has read its row and still awaits its body.
Edit == [s : Schedules, existing : Task, patch : Patches]

VARIABLES
    tasks,        \* scheduled_tasks: a function from the ids present to rows
    runs,         \* scheduled_task_runs: a set of rows
    nextId,       \* source of fresh run-row and conversation ids
    clock,        \* the current minute
    turn,         \* who holds the thread: idle, tick, reconcile, or down
    todo,         \* schedules the running tick has yet to consider
    booted,       \* the boot tick has been started
    rec,          \* the boot walk: [now, list of snapshots, flight awaited]
    firing,       \* the engine's double-fire guard
    flights,      \* dispatches awaited
    dispatching,  \* the seat pool's counter ...
    byOrder,      \* ... and its per-order counters
    edits,        \* PATCH requests between read and write
    alive,        \* conversations the registry shows as running
    coming,       \* launches whose host has not connected, and may never
    granted,      \* schedules whose owner holds the spawn permission
    optedIn,      \* schedules whose project has its scanner box ticked
    used,         \* how often each outside event has happened
    fires,        \* history: every dispatch ever started, and the runs its check missed
    deleted       \* history: every id ever deleted

storeVars  == <<tasks, runs>>
engineVars == <<firing, flights, dispatching, byOrder>>
launchVars == <<fires, coming>>
envVars    == <<clock, edits, alive, granted, optedIn, used, deleted>>
vars == <<storeVars, nextId, turn, todo, booted, rec, engineVars, envVars, launchVars>>

-----------------------------------------------------------------------------
(* The store: whole-record upsert, append-only rows, delete with history.  *)

Upsert(s, t) == [x \in DOMAIN tasks \cup {s} |-> IF x = s THEN t ELSE tasks[x]]

Row(id, s, at, key, trigger, outcome, conv) ==
    [id |-> id, s |-> s, at |-> at, key |-> key, trigger |-> trigger,
     outcome |-> outcome, conv |-> conv]

Enabled == {s \in DOMAIN tasks : tasks[s].enabled}

\* ORDER BY fired_at DESC; rows of one minute in insertion order.
Newer(r, q) == \/ r.at > q.at
               \/ r.at = q.at /\ r.id > q.id

ListRuns(rs, s, limit) ==
    LET mine == {r \in rs : r.s = s}
    IN  {r \in mine : Cardinality({q \in mine : Newer(q, r)}) < limit}

LastSpawnedConversationId(rs, s) ==
    LET spawned == {r \in ListRuns(rs, s, HistoryWindow) : r.outcome = "spawned"}
    IN  IF spawned = {} THEN NoConv
        ELSE (CHOOSE r \in spawned : \A q \in spawned : q = r \/ Newer(r, q)).conv

-----------------------------------------------------------------------------
(* policy.ts: is the schedule due, and what did it miss?                   *)

DecideOneShot(t, now) ==
    IF now < t.conf.runAt THEN "not_due"
    ELSE IF t.marker = OnceKey(t.conf.runAt) THEN "already_fired"
    ELSE IF now - t.conf.runAt > Grace THEN "one_shot_stale"
    ELSE "fire"

RunsUsedUpOneLate(t) == t.conf.maxRuns # NoTime /\ t.runCount > t.conf.maxRuns

RunsUsedUp(t) == t.conf.maxRuns # NoTime /\ t.runCount >= t.conf.maxRuns

DecideFire(t, now) ==
    IF ~t.enabled THEN "disabled"
    ELSE IF t.conf.startAt # NoTime /\ now < t.conf.startAt THEN "not_started"
    ELSE IF t.conf.endAt # NoTime /\ now > t.conf.endAt THEN "expired"
    ELSE IF RunsUsedUp(t) THEN "max_runs"
    ELSE IF t.conf.kind = "once" THEN DecideOneShot(t, now)
    ELSE IF t.conf.kind = "bad" THEN "bad_cron"
    ELSE IF Wall[now] \notin t.conf.due THEN "not_due"
    ELSE IF t.marker = WallKey(now) THEN "already_fired"
    ELSE "fire"

FireKey(t, now) == IF t.conf.kind = "once" THEN OnceKey(t.conf.runAt) ELSE WallKey(now)

ExpiredNotTerminal(t, reason) ==
    \/ t.conf.kind = "once" /\ reason = "already_fired"
    \/ reason \in {"max_runs", "one_shot_stale"}

IsTerminalFor(t, reason) ==
    \/ t.conf.kind = "once" /\ reason = "already_fired"
    \/ reason \in {"expired", "max_runs", "one_shot_stale"}

\* nextFires resolves an ambiguous wall clock to its earlier instant.
FirstPass(m) == \A e \in 0..(m - 1) : Wall[e] # Wall[m]

\* The fires since the last run.  A boot inside minute `now' already lies after
\* that minute's own instant.
FiresSince(t, now) == {m \in Minutes : /\ t.lastRunAt < m /\ m <= now
                                       /\ Wall[m] \in t.conf.due /\ FirstPass(m)}

\* The list is cut to the OLDEST MissedCap fires.
ComputeMissedFires(t, now) ==
    LET gap == FiresSince(t, now)
    IN  IF t.conf.kind # "cron" \/ t.lastRunAt = NoTime THEN {}
        ELSE {m \in gap : Cardinality({x \in gap : x < m}) < MissedCap}

CatchUpStrictlyInsideGrace(t, missed, now) ==
    /\ t.conf.catchUp = "once"
    /\ \E last \in missed : (\A m \in missed : m <= last) /\ now - last < Grace

ShouldCatchUp(t, missed, now) ==
    /\ t.conf.catchUp = "once"
    /\ \E last \in missed : (\A m \in missed : m <= last) /\ now - last <= Grace

NextFailures(previous, ok) == IF ok THEN 0 ELSE previous + 1

-----------------------------------------------------------------------------
(* fire.ts and seat-reservation.ts                                         *)

ScannerOptOut(s, t) == t.conf.action # "spawn" /\ s \notin optedIn

LiveInNewestRow(rs, s) == \E r \in ListRuns(rs, s, 1) : r.outcome = "spawned" /\ r.conv \in alive

LiveConversation(rs, s) == LastSpawnedConversationId(rs, s) \in alive

\* History, for a dispatch of s: its settled launches that run, or may still come
\* up, and that no recent row tells of or the registry does not show.
Unseen(s, rs) ==
    {f.id : f \in {g \in fires : g.s = s /\ g.id \in alive \cup coming}}
    \ ({f.id : f \in flights}
       \cup {c \in alive : \E r \in ListRuns(rs, s, HistoryWindow) :
                                r.outcome = "spawned" /\ r.conv = c})

SeatLimit(o) == IF Reservation[o] < MaxInFlight THEN Reservation[o] ELSE MaxInFlight

AdmitsAtCeiling(o) ==
    /\ dispatching <= MaxInFlight
    /\ o = NoOrder \/ Reservation[o] = Unreserved \/ byOrder[o] < SeatLimit(o)

DecideSeatAdmission(o) ==
    /\ dispatching < MaxInFlight
    /\ o = NoOrder \/ Reservation[o] = Unreserved \/ byOrder[o] < SeatLimit(o)

FuseBlowsLate(t, ok, at) ==
    LET f == NextFailures(t.failures, ok)
    IN  [t EXCEPT !.lastRunAt = at, !.runCount = IF ok THEN @ + 1 ELSE @, !.failures = f,
                  !.enabled = IF ~ok /\ f > MaxFailures THEN FALSE ELSE @]

SettleTask(t, ok, at) ==
    LET f == NextFailures(t.failures, ok)
    IN  [t EXCEPT !.lastRunAt = at,
                  !.runCount  = IF ok THEN @ + 1 ELSE @,
                  !.failures  = f,
                  !.enabled   = IF ~ok /\ f >= MaxFailures THEN FALSE ELSE @]

\* Where fireSchedule stops, in the order of its early returns.
FireVerdict(s, t, rs) ==
    IF s \notin granted THEN "owner"
    ELSE IF ScannerOptOut(s, t) THEN "opted_out"
    ELSE IF t.conf.overlap = "skip" /\ LiveConversation(rs, s) THEN "overlap"
    ELSE IF ~DecideSeatAdmission(t.conf.order) THEN "no_seat"
    ELSE IF ~t.conf.planOk THEN "no_plan"
    ELSE "dispatch"

RefusalOutcome(v) == CASE v \in {"owner", "no_plan"}   -> "error"
                       [] v = "opted_out"              -> "skipped_disabled"
                       [] v \in {"overlap", "no_seat"} -> "skipped_overlap"

ClaimSlot(o) ==
    /\ dispatching' = dispatching + 1
    /\ byOrder' = IF o = NoOrder THEN byOrder ELSE [byOrder EXCEPT ![o] = @ + 1]

ReleaseSlot(o) ==
    /\ dispatching' = dispatching - 1
    /\ byOrder' = IF o = NoOrder THEN byOrder ELSE [byOrder EXCEPT ![o] = @ - 1]

NeverStamps(t, key, trigger) == t

\* claimAndFire stamps the record it was given, except for a manual run.
Claimed(t, key, trigger) == IF trigger = "manual" THEN t ELSE [t EXCEPT !.marker = key]

\* firing.delete in claimAndFire's finally.
KeepGuard(s) == firing

LeaveGuard(s) == firing \ {s}

\* claimAndFire up to its first await or to its end: `t' is the record the
\* caller holds, `rs' and `id' the history table and id source it starts from.
\* A refused fire leaves the guard (firing.delete in the finally) in the same
\* turn.  A dispatched one stays in it until it settles.
ClaimAndFire(s, t, key, trigger, rs, id) ==
    LET claimed == Claimed(t, key, trigger)
        stamped == IF trigger = "manual" THEN tasks ELSE Upsert(s, claimed)
        v       == FireVerdict(s, claimed, rs)
    IN  /\ nextId' = id + 1
        /\ \/ /\ v # "dispatch"
              /\ tasks' = CASE v = "owner"   -> Upsert(s, [claimed EXCEPT !.enabled = FALSE])
                            [] v = "no_plan" -> Upsert(s, SettleTask(claimed, FALSE, clock))
                            [] OTHER         -> stamped
              /\ runs' = rs \cup {Row(id, s, clock, key, trigger, RefusalOutcome(v),
                                      IF v = "overlap" THEN LastSpawnedConversationId(rs, s)
                                                       ELSE NoConv)}
              /\ firing' = LeaveGuard(s)
              /\ UNCHANGED <<flights, dispatching, byOrder, launchVars>>
           \/ /\ v = "dispatch"
              /\ tasks' = stamped
              /\ runs' = rs
              /\ firing' = firing \cup {s}
              /\ flights' = flights \cup {[id |-> id, s |-> s, snap |-> claimed, at |-> clock,
                                           key |-> key, trigger |-> trigger]}
              /\ ClaimSlot(claimed.conf.order)
              /\ coming' = IF claimed.conf.action = "spawn" THEN coming \cup {id} ELSE coming
              /\ fires' = fires \cup {[id |-> id, s |-> s, key |-> key, trigger |-> trigger,
                                       skip |-> claimed.conf.overlap = "skip",
                                       unseen |-> Unseen(s, rs)]}

RunOutcome(action) == CASE action = "spawn"       -> "spawned"
                        [] action = "board-sweep" -> "swept"
                        [] action = "epic-start"  -> "armed"

-----------------------------------------------------------------------------
(* engine.ts and catch-up.ts: boot, the minute tick, run-now, settlement.  *)

NoWalk == [now |-> 0, list |-> [s \in {} |-> 0], wait |-> NoFlight]

Idle == turn = "idle"

Spend(op) == /\ used[op] < Limits[op]
             /\ used' = [used EXCEPT ![op] = @ + 1]

Init ==
    /\ tasks = [s \in DOMAIN Initial |->
                  [enabled |-> TRUE, conf |-> Initial[s], runCount |-> 0, failures |-> 0,
                   lastRunAt |-> NoTime, marker |-> NoKey]]
    /\ runs = {} /\ nextId = 1 /\ clock = 0
    /\ turn = "down" /\ todo = {} /\ booted = FALSE /\ rec = NoWalk
    /\ firing = {} /\ flights = {} /\ dispatching = 0 /\ byOrder = [o \in Orders |-> 0]
    /\ edits = {} /\ alive = {} /\ coming = {} /\ granted = Schedules /\ optedIn = Schedules
    /\ used = [op \in Ops |-> 0] /\ fires = {} /\ deleted = {}

\* startScheduledTaskEngine: reconcileMissedFires takes its clock reading and
\* its list of armed schedules, and runs until its first await.
Boot ==
    /\ turn = "down"
    /\ turn' = "reconcile" /\ booted' = FALSE
    /\ rec' = [now |-> clock, list |-> [s \in Enabled |-> tasks[s]], wait |-> NoFlight]
    /\ UNCHANGED <<storeVars, nextId, todo, engineVars, envVars, launchVars>>

\* The walk gives up the thread: to the boot tick the first time, later to
\* `next'.  The boot tick runs before any callback, so it still finds the
\* schedule the walk just claimed in the guard and passes it over.
Yield(claimed, next) ==
    /\ booted' = TRUE
    /\ turn' = IF booted THEN next ELSE "tick"
    /\ todo' = IF booted THEN {} ELSE {s \in DOMAIN tasks' : tasks'[s].enabled} \ claimed

MissedRows(s, missed) ==
    {Row(nextId + Cardinality({x \in missed : x < m}), s, m, WallKey(m), "cron",
         "missed", NoConv) : m \in missed}

\* One armed schedule of the boot snapshot: record what it missed, then
\* perhaps catch up.  The catch-up does not consult `firing'.
Reconcile(s) ==
    /\ turn = "reconcile" /\ s \in DOMAIN rec.list
    /\ LET t      == rec.list[s]
           missed == ComputeMissedFires(t, rec.now)
           rs     == runs \cup MissedRows(s, missed)
           id     == nextId + Cardinality(missed)
           rest   == [x \in DOMAIN rec.list \ {s} |-> rec.list[x]]
       IN  \/ /\ ~ShouldCatchUp(t, missed, rec.now)
              /\ runs' = rs /\ nextId' = id
              /\ rec' = [rec EXCEPT !.list = rest]
              /\ UNCHANGED <<tasks, turn, todo, booted, engineVars, launchVars>>
           \/ /\ ShouldCatchUp(t, missed, rec.now)
              /\ ClaimAndFire(s, t, WallKey(rec.now), "catchup", rs, id)
              /\ rec' = [rec EXCEPT !.list = rest,
                                    !.wait = IF fires' = fires THEN NoFlight ELSE id]
              /\ Yield({s}, IF fires' = fires THEN "reconcile" ELSE "idle")
    /\ UNCHANGED envVars

ReconcileDone ==
    /\ turn = "reconcile" /\ DOMAIN rec.list = {}
    /\ rec' = NoWalk
    /\ UNCHANGED <<storeVars, nextId, engineVars, envVars, launchVars>>
    /\ Yield({}, "idle")

\* The 60s interval.  Ticks may drift past a minute or fall twice into one.
Tick ==
    /\ Idle
    /\ turn' = "tick" /\ todo' = Enabled
    /\ UNCHANGED <<storeVars, nextId, booted, rec, engineVars, envVars, launchVars>>

\* considerOne, its three ways out.
ConsiderFiring(s) ==
    /\ turn = "tick" /\ s \in todo /\ s \in firing
    /\ todo' = todo \ {s}
    /\ UNCHANGED <<storeVars, nextId, turn, booted, rec, engineVars, envVars, launchVars>>

ConsiderDue(s) ==
    /\ turn = "tick" /\ s \in todo /\ s \notin firing
    /\ DecideFire(tasks[s], clock) = "fire"
    /\ todo' = todo \ {s}
    /\ ClaimAndFire(s, tasks[s], FireKey(tasks[s], clock), "cron", runs, nextId)
    /\ UNCHANGED <<turn, booted, rec, envVars>>

ConsiderNotDue(s) ==
    /\ turn = "tick" /\ s \in todo /\ s \notin firing
    /\ todo' = todo \ {s}
    /\ LET t      == tasks[s]
           reason == DecideFire(t, clock)
       IN  /\ reason # "fire"
           /\ tasks' = IF IsTerminalFor(t, reason)
                       THEN Upsert(s, [t EXCEPT !.enabled = FALSE]) ELSE tasks
           /\ IF reason = "one_shot_stale"
              THEN /\ runs' = runs \cup {Row(nextId, s, t.conf.runAt, OnceKey(t.conf.runAt),
                                             "cron", "missed", NoConv)}
                   /\ nextId' = nextId + 1
              ELSE UNCHANGED <<runs, nextId>>
    /\ UNCHANGED <<turn, booted, rec, engineVars, envVars, launchVars>>

\* The tick has started every fire; a boot walk whose catch-up was refused
\* resumes, otherwise the thread is free.
TickDone ==
    /\ turn = "tick" /\ todo = {}
    /\ turn' = IF DOMAIN rec.list # {} /\ rec.wait = NoFlight THEN "reconcile" ELSE "idle"
    /\ UNCHANGED <<storeVars, nextId, todo, booted, rec, engineVars, envVars, launchVars>>

RunNow(s) ==
    /\ Idle /\ s \in DOMAIN tasks /\ s \notin firing
    /\ Spend("manual")
    /\ ClaimAndFire(s, tasks[s], ManualKey(clock), "manual", runs, nextId)
    /\ UNCHANGED <<turn, todo, booted, rec, clock, edits, alive, granted, optedIn, deleted>>

\* `await claimAndFire' inside reconcileMissedFires: the walk goes on once the
\* fire it waited for has settled.
WalkNotResumed(f) == UNCHANGED <<turn, rec>>

ResumeWalk(f) ==
    IF rec.wait = f.id
    THEN turn' = "reconcile" /\ rec' = [rec EXCEPT !.wait = NoFlight]
    ELSE UNCHANGED <<turn, rec>>

\* The dispatch answers, fails, throws or times out: release the seat, write the
\* captured record back, record the run, leave the guard, resume the boot walk if
\* it was this fire it waited for.  Whether a conversation comes of it is decided
\* elsewhere: an acknowledged host has still to connect, one that was given up
\* may connect later.
Settle(f, ok) ==
    /\ Idle /\ f \in flights
    /\ flights' = flights \ {f}
    /\ ReleaseSlot(f.snap.conf.order)
    /\ tasks' = Upsert(f.s, SettleTask(f.snap, ok, f.at))
    /\ runs' = runs \cup
          {Row(nextId, f.s, f.at, f.key, f.trigger,
               IF ok THEN RunOutcome(f.snap.conf.action) ELSE "error",
               IF ok /\ f.snap.conf.action = "spawn" THEN f.id ELSE NoConv)}
    /\ nextId' = nextId + 1
    /\ firing' = LeaveGuard(f.s)
    /\ ResumeWalk(f)
    /\ UNCHANGED <<todo, booted, launchVars, clock, edits, alive, granted, optedIn, used, deleted>>

-----------------------------------------------------------------------------
(* routes.ts, scheduled-tasks-mcp.ts and operations.ts: the write path.    *)

\* PATCH reads its row before it awaits the body.
PatchRead(s, p) ==
    /\ Idle /\ s \in DOMAIN tasks
    /\ Spend("edit")
    /\ edits' = edits \cup {[s |-> s, existing |-> tasks[s], patch |-> p]}
    /\ UNCHANGED <<storeVars, nextId, turn, todo, booted, rec, engineVars, launchVars,
                   clock, alive, granted, optedIn, deleted>>

Merge(t, p) == IF p.what = "enabled" THEN [t EXCEPT !.enabled = p.value]
                                     ELSE [t EXCEPT !.conf = p.value]

\* Re-arming clears the failure count.
PatchSchedule(existing, p) ==
    LET merged == Merge(existing, p)
    IN  IF ~existing.enabled /\ merged.enabled THEN [merged EXCEPT !.failures = 0] ELSE merged

PatchWrite(e) ==
    /\ Idle /\ e \in edits
    /\ edits' = edits \ {e}
    /\ tasks' = Upsert(e.s, PatchSchedule(e.existing, e.patch))
    /\ UNCHANGED <<runs, nextId, turn, todo, booted, rec, engineVars, launchVars,
                   clock, alive, granted, optedIn, used, deleted>>

\* Unparseable body, schema miss, or an invalid merged record.
PatchRefused(e) ==
    /\ Idle /\ e \in edits
    /\ edits' = edits \ {e}
    /\ UNCHANGED <<storeVars, nextId, turn, todo, booted, rec, engineVars, launchVars,
                   clock, alive, granted, optedIn, used, deleted>>

Delete(s) ==
    /\ Idle /\ s \in DOMAIN tasks
    /\ Spend("delete")
    /\ tasks' = [x \in DOMAIN tasks \ {s} |-> tasks[x]]
    /\ runs' = {r \in runs : r.s # s}
    /\ deleted' = deleted \cup {s}
    /\ UNCHANGED <<nextId, turn, todo, booted, rec, engineVars, launchVars,
                   clock, edits, alive, granted, optedIn>>

Create(s, c) ==
    /\ Idle /\ s \notin DOMAIN tasks \cup deleted
    /\ Cardinality(DOMAIN tasks) < MaxCount
    /\ Spend("create")
    /\ tasks' = Upsert(s, [enabled |-> TRUE, conf |-> c, runCount |-> 0, failures |-> 0,
                           lastRunAt |-> NoTime, marker |-> NoKey])
    /\ UNCHANGED <<runs, nextId, turn, todo, booted, rec, engineVars, launchVars,
                   clock, edits, alive, granted, optedIn, deleted>>

-----------------------------------------------------------------------------
(* The surroundings: time, conversations, permissions, crashes.            *)

Advance ==
    /\ turn \in {"idle", "down"} /\ clock < MaxMinute
    /\ clock' = clock + 1
    /\ UNCHANGED <<storeVars, nextId, turn, todo, booted, rec, engineVars, launchVars,
                   edits, alive, granted, optedIn, used, deleted>>

\* The host of a launch connects, before or after its dispatch was answered.
HostBoots(c) ==
    /\ Idle /\ c \in coming
    /\ coming' = coming \ {c} /\ alive' = alive \cup {c}
    /\ UNCHANGED <<storeVars, nextId, turn, todo, booted, rec, engineVars, fires,
                   clock, edits, granted, optedIn, used, deleted>>

\* It was refused, or dies before it connects.
NeverComes(c) ==
    /\ turn \in {"idle", "down"} /\ c \in coming
    /\ coming' = coming \ {c}
    /\ UNCHANGED <<storeVars, nextId, turn, todo, booted, rec, engineVars, fires, envVars>>

ConversationEnds(c) ==
    /\ turn \in {"idle", "down"} /\ c \in alive
    /\ alive' = alive \ {c}
    /\ UNCHANGED <<storeVars, nextId, turn, todo, booted, rec, engineVars, launchVars,
                   clock, edits, granted, optedIn, used, deleted>>

\* The owner's spawn permission is revoked or granted back.
FlipGrant(s) ==
    /\ Idle
    /\ Spend("grant")
    /\ granted' = IF s \in granted THEN granted \ {s} ELSE granted \cup {s}
    /\ UNCHANGED <<storeVars, nextId, turn, todo, booted, rec, engineVars, launchVars,
                   clock, edits, alive, optedIn, deleted>>

\* The project's scanner box is unticked or ticked.
FlipScanner(s) ==
    /\ Idle
    /\ Spend("scanner")
    /\ optedIn' = IF s \in optedIn THEN optedIn \ {s} ELSE optedIn \cup {s}
    /\ UNCHANGED <<storeVars, nextId, turn, todo, booted, rec, engineVars, launchVars,
                   clock, edits, alive, granted, deleted>>

\* The broker dies: the store survives, everything in memory is lost.  A launch
\* already asked for may still come up.
Crash ==
    /\ turn # "down"
    /\ Spend("crash")
    /\ turn' = "down" /\ todo' = {} /\ booted' = FALSE /\ rec' = NoWalk
    /\ firing' = {} /\ flights' = {} /\ dispatching' = 0
    /\ byOrder' = [o \in Orders |-> 0]
    /\ edits' = {}
    /\ UNCHANGED <<storeVars, nextId, launchVars, clock, alive, granted, optedIn, deleted>>

Next ==
    \/ Boot \/ ReconcileDone \/ Tick \/ TickDone \/ Advance \/ Crash
    \/ \E s \in Schedules : \/ Reconcile(s) \/ ConsiderFiring(s) \/ ConsiderDue(s)
                            \/ ConsiderNotDue(s) \/ RunNow(s) \/ Delete(s)
                            \/ FlipGrant(s) \/ FlipScanner(s)
                            \/ \E p \in Patches : PatchRead(s, p)
                            \/ \E c \in Confs : Create(s, c)
    \/ \E f \in flights, ok \in BOOLEAN : Settle(f, ok)
    \/ \E e \in edits : PatchWrite(e) \/ PatchRefused(e)
    \/ \E c \in alive : ConversationEnds(c)
    \/ \E c \in coming : HostBoots(c) \/ NeverComes(c)

Spec == Init /\ [][Next]_vars

\* The timer keeps ticking, the event loop finishes what it started, a broken
\* broker is restarted, and every dispatch is answered or times out.
Fairness ==
    /\ WF_vars(Boot) /\ WF_vars(ReconcileDone) /\ WF_vars(Tick) /\ WF_vars(TickDone)
    /\ \A s \in Schedules :
          WF_vars(Reconcile(s) \/ ConsiderFiring(s) \/ ConsiderDue(s) \/ ConsiderNotDue(s))
    /\ SF_vars(\E f \in flights, ok \in BOOLEAN : Settle(f, ok))

FairSpec == Spec /\ Fairness
-----------------------------------------------------------------------------
(* Properties                                                              *)

\* Every variable keeps its type: store rows and every record captured before
\* an await are well-formed tasks.
TypeOK ==
    /\ DOMAIN tasks \subseteq Schedules /\ tasks \in [DOMAIN tasks -> Task]
    /\ runs \subseteq Run
    /\ nextId \in Nat \ {0} /\ clock \in Minutes
    /\ turn \in {"idle", "tick", "reconcile", "down"}
    /\ todo \subseteq DOMAIN tasks /\ (turn # "tick" => todo = {}) /\ booted \in BOOLEAN
    /\ rec = [now |-> rec.now, list |-> rec.list, wait |-> rec.wait]
    /\ rec.now \in Minutes /\ rec.wait \in Nat
    /\ DOMAIN rec.list \subseteq Schedules /\ rec.list \in [DOMAIN rec.list -> Task]
    /\ firing \subseteq Schedules /\ flights \subseteq Flight
    /\ dispatching \in Int /\ byOrder \in [Orders -> Int]
    /\ edits \subseteq Edit
    /\ alive \subseteq Nat /\ coming \subseteq Nat
    /\ granted \subseteq Schedules /\ optedIn \subseteq Schedules
    /\ used \in [Ops -> Nat]
    /\ fires \subseteq Fire /\ deleted \subseteq Schedules

\* The seat pool (engine.ts claimSlot, fire.ts's finally): the counter is the
\* number of dispatches in flight and never passes the ceiling, and an order
\* with a reservation never holds more than its share, whatever refusals,
\* failures, edits of the schedule's order and crashes happen in between.
HeldBy(o) == {f \in flights : f.snap.conf.order = o}

SeatPool ==
    /\ dispatching = Cardinality(flights)
    /\ dispatching <= MaxInFlight
    /\ \A o \in Orders : /\ byOrder[o] = Cardinality(HeldBy(o))
                         /\ Reservation[o] # Unreserved => byOrder[o] <= SeatLimit(o)

\* The five-failure fuse (policy.ts nextFailureState): an armed schedule is
\* below the threshold.  Settlement writes whole captured records back and a
\* PATCH writes a record it read earlier, so this must survive stale writes.
FailureFuse == \A s \in DOMAIN tasks : tasks[s].enabled => tasks[s].failures < MaxFailures

\* policy.ts, "The rule that matters most": a schedule fires at most once per
\* wall-clock minute of its zone, across restarts, slow dispatches, manual
\* runs and a repeated hour (with one due minute in it: only the last marker
\* is kept).
AtMostOncePerMinute ==
    \A f, g \in fires :
        (f.s = g.s /\ f.key = g.key /\ f.trigger # "manual" /\ g.trigger # "manual") => f = g

\* overlap `skip': no run is started beside another one the check could see (fire.ts
\* liveConversationFor).  Of two runs of a schedule that go on together, dispatched,
\* on their way or alive, the older was unseen when one after it started: its
\* launch had been given up or lost with the broker, its host was not connected
\* yet, or its row was out of the window.  Only launches made under `skip' count.
Running(s) == {f.id : f \in {g \in flights : g.s = s}}
              \cup {f.id : f \in {g \in fires : g.s = s /\ g.id \in alive \cup coming}}

Slipped == UNION {f.unseen : f \in fires}

Serial(f, g) == \A h \in fires : (h.s = f.s /\ f.id < h.id /\ h.id <= g.id) => h.skip

OneLiveRun ==
    \A f, g \in fires :
        (f.s = g.s /\ f.id < g.id /\ {f.id, g.id} \subseteq Running(f.s) /\ Serial(f, g))
        => f.id \in Slipped

\* maxRuns: the clock never launches more runs than the schedule allows, and
\* the counter in the row agrees with the history (settleTask and finish).
Launched(s) == {r \in runs : r.s = s /\ r.outcome \in {"spawned", "swept", "armed"}}

RunBudget ==
    \A s \in DOMAIN tasks :
        /\ tasks[s].runCount = Cardinality(Launched(s))
        /\ tasks[s].conf.maxRuns # NoTime =>
              Cardinality({r \in Launched(s) : r.trigger # "manual"}) <= tasks[s].conf.maxRuns

\* catchUp `once' re-runs the most recent miss while it is still recent: the
\* boot walk claims a catch-up whenever some missed minute lies within Grace.
\* (Unless the outage missed more than MissedCap fires: the list is cut at its
\* recent end, so the walk no longer sees them.)
RecentMiss(t, now) ==
    /\ t.conf.kind = "cron" /\ t.lastRunAt # NoTime
    /\ \E m \in FiresSince(t, now) : now - m <= Grace

\* The walk passes s, whose user wants its recent misses caught up.
WalkPasses(s) ==
    /\ turn = "reconcile" /\ turn' # "down" /\ s \notin DOMAIN rec.list'
    /\ rec.list[s].conf.catchUp = "once"

RecentMissIsCaughtUp ==
    [][\A s \in DOMAIN rec.list :
          (/\ WalkPasses(s) /\ RecentMiss(rec.list[s], rec.now)
           /\ Cardinality(FiresSince(rec.list[s], rec.now)) <= MissedCap)
          => tasks'[s].marker = WallKey(rec.now)]_vars

\* The double-fire guard is always given back (claimAndFire's finally).
GuardReleased == \A s \in Schedules : s \in firing ~> s \notin firing

\* A schedule that can never fire again (its window closed, its runs used up,
\* its one moment taken or gone stale) is eventually disarmed (disarm).
Spent(s) ==
    /\ s \in DOMAIN tasks /\ tasks[s].enabled
    /\ LET t == tasks[s]
       IN  \/ t.conf.endAt # NoTime /\ clock > t.conf.endAt
           \/ t.conf.maxRuns # NoTime /\ t.runCount >= t.conf.maxRuns
           \/ t.conf.kind = "once" /\ t.marker = OnceKey(t.conf.runAt)
           \/ t.conf.kind = "once" /\ clock - t.conf.runAt > Grace

SpentIsDisarmed == \A s \in Schedules : Spent(s) ~> ~Spent(s)

\* The boot walk reaches every schedule of its list (reconcileMissedFires).
BootWalkEnds == \A s \in Schedules : s \in DOMAIN rec.list ~> s \notin DOMAIN rec.list
=============================================================================
