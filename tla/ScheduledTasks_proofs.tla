----------------------- MODULE ScheduledTasks_proofs -----------------------
(***************************************************************************)
(* Proofs about the scheduled-task engine for every number of schedules,   *)
(* orders, minutes, seats and outside events.                              *)
(***************************************************************************)
EXTENDS ScheduledTasks, FiniteSetTheorems, NaturalsInduction, TLAPS

-----------------------------------------------------------------------------
(* Facts about the helpers.                                                *)

\* The bounded clock has finitely many minutes.
LEMMA MinutesFinite == IsFiniteSet(Minutes)
  <1>1. 0 \in Int /\ MaxMinute \in Int
    BY ConstantsAssumption
  <1>2. IsFiniteSet(0..MaxMinute)
    BY <1>1, FS_Interval, Zenon
  <1> QED BY <1>2 DEF Minutes

\* The wall-clock key of a minute is a fire marker, its manual key a run key.
LEMMA WallKeyType == ASSUME NEW m \in Minutes
                     PROVE  WallKey(m) \in Marker /\ ManualKey(m) \in RunKey
  BY DEF WallKey, ManualKey, Marker, RunKey, Keys

\* A one-shot's own instant is a fire marker.
LEMMA OnceKeyType == ASSUME NEW m \in Minutes PROVE OnceKey(m) \in Marker
  BY DEF OnceKey, Marker

\* What a task record says of its definition, its arming and its failures.
LEMMA ConfFacts == ASSUME NEW t \in Task
                   PROVE  /\ t.conf \in Conf
                          /\ t.conf.order \in Orders \cup {NoOrder}
                          /\ t.conf.runAt \in Minutes
                          /\ t.enabled \in BOOLEAN /\ t.failures \in Nat
  BY ConstantsAssumption DEF Task, Conf

\* The key a due schedule is claimed under is a fire marker.
LEMMA FireKeyType == ASSUME NEW t \in Task, NEW m \in Minutes PROVE FireKey(t, m) \in Marker
  BY ConfFacts, OnceKeyType, WallKeyType DEF FireKey

\* A settled record is again a well-formed record.
LEMMA SettleTaskType ==
    ASSUME NEW t \in Task, NEW ok \in BOOLEAN, NEW at \in Minutes
    PROVE  SettleTask(t, ok, at) \in Task
  <1> DEFINE f == NextFailures(t.failures, ok)
  <1>1. f \in Nat
    BY ConfFacts DEF NextFailures
  <1>2. /\ t.runCount \in Nat /\ t.enabled \in BOOLEAN
        /\ t = [enabled |-> t.enabled, conf |-> t.conf, runCount |-> t.runCount,
                failures |-> t.failures, lastRunAt |-> t.lastRunAt, marker |-> t.marker]
    BY DEF Task
  <1>3. (IF ok THEN t.runCount + 1 ELSE t.runCount) \in Nat
    BY <1>2
  <1>4. (IF ~ok /\ f >= MaxFailures THEN FALSE ELSE t.enabled) \in BOOLEAN
    BY <1>2
  <1> HIDE DEF f
  <1> QED BY <1>1, <1>2, <1>3, <1>4 DEF SettleTask, Task, f

\* A patched record is again a well-formed record (patchSchedule).
LEMMA PatchType ==
    ASSUME NEW t \in Task, NEW p \in Patches PROVE PatchSchedule(t, p) \in Task
  <1>1. Merge(t, p) \in Task
    BY DEF Merge, Patches, Task
  <1> QED BY <1>1 DEF PatchSchedule, Task

\* An upsert of a well-formed record leaves a well-formed table.
LEMMA UpsertType ==
    ASSUME DOMAIN tasks \subseteq Schedules, tasks \in [DOMAIN tasks -> Task],
           NEW s \in Schedules, NEW t \in Task
    PROVE  /\ DOMAIN Upsert(s, t) = DOMAIN tasks \cup {s}
           /\ DOMAIN Upsert(s, t) \subseteq Schedules
           /\ Upsert(s, t) \in [DOMAIN Upsert(s, t) -> Task]
           /\ \A x \in DOMAIN Upsert(s, t) : Upsert(s, t)[x] = IF x = s THEN t ELSE tasks[x]
  BY DEF Upsert

\* The missed fires of one outage are a finite set of minutes.
LEMMA MissedFacts ==
    ASSUME NEW t \in Task, NEW now \in Minutes
    PROVE  /\ ComputeMissedFires(t, now) \subseteq Minutes
           /\ IsFiniteSet(ComputeMissedFires(t, now))
           /\ Cardinality(ComputeMissedFires(t, now)) \in Nat
  <1>1. ComputeMissedFires(t, now) \subseteq Minutes
    BY DEF ComputeMissedFires, FiresSince
  <1>2. IsFiniteSet(ComputeMissedFires(t, now))
    BY <1>1, MinutesFinite, FS_Subset
  <1> QED BY <1>1, <1>2, FS_CardinalityType

\* The rows recorded for missed fires are well-formed (recordMissed).
LEMMA MissedRowsType ==
    ASSUME nextId \in Nat, NEW s \in Schedules, NEW missed \in SUBSET Minutes
    PROVE  MissedRows(s, missed) \subseteq Run
  <1> SUFFICES ASSUME NEW m \in missed
               PROVE  Row(nextId + Cardinality({x \in missed : x < m}), s, m, WallKey(m),
                          "cron", "missed", NoConv) \in Run
    BY DEF MissedRows
  <1>1. IsFiniteSet({x \in missed : x < m})
    BY MinutesFinite, FS_Subset
  <1>2. Cardinality({x \in missed : x < m}) \in Nat
    BY <1>1, FS_CardinalityType
  <1>3. WallKey(m) \in RunKey
    BY WallKeyType DEF RunKey
  <1> QED BY <1>2, <1>3 DEF Row, Run, Triggers, Outcomes, NoConv

\* Where a fire stops; an overlap refusal names a live conversation.
LEMMA VerdictFacts ==
    ASSUME NEW s, NEW t, NEW rs
    PROVE  /\ FireVerdict(s, t, rs) \in
                 {"owner", "opted_out", "overlap", "no_seat", "no_plan", "dispatch"}
           /\ FireVerdict(s, t, rs) = "overlap" => LastSpawnedConversationId(rs, s) \in alive
           /\ FireVerdict(s, t, rs) = "dispatch" => DecideSeatAdmission(t.conf.order)
  BY DEF FireVerdict, LiveConversation

\* The shared fire path keeps every variable it writes in its type.
FireTypes ==
    /\ DOMAIN tasks \subseteq DOMAIN tasks'
    /\ DOMAIN tasks' \subseteq Schedules /\ tasks' \in [DOMAIN tasks' -> Task]
    /\ runs' \subseteq Run /\ nextId' \in Nat \ {0}
    /\ firing' \subseteq Schedules /\ flights' \subseteq Flight
    /\ dispatching' \in Int /\ byOrder' \in [Orders -> Int]
    /\ fires' \subseteq Fire /\ coming' \subseteq Nat

\* A claim, refused or dispatched, keeps table, history and flights well-typed.
LEMMA ClaimAndFireType ==
    ASSUME TypeOK, NEW s \in Schedules, NEW t \in Task, NEW trigger \in Triggers,
           NEW key \in RunKey, trigger # "manual" => key \in Marker,
           NEW rs \in SUBSET Run, NEW id \in Nat \ {0},
           ClaimAndFire(s, t, key, trigger, rs, id)
    PROVE  FireTypes
  <1> DEFINE claimed == IF trigger = "manual" THEN t ELSE [t EXCEPT !.marker = key]
             stamped == IF trigger = "manual" THEN tasks ELSE Upsert(s, claimed)
             v       == FireVerdict(s, claimed, rs)
  <1>1. /\ DOMAIN tasks \subseteq Schedules /\ tasks \in [DOMAIN tasks -> Task]
        /\ clock \in Minutes /\ alive \subseteq Nat
    BY DEF TypeOK
  <1>2. claimed \in Task
    BY DEF Task
  <1>3. /\ DOMAIN tasks \subseteq DOMAIN stamped
        /\ DOMAIN stamped \subseteq Schedules /\ stamped \in [DOMAIN stamped -> Task]
    BY <1>1, <1>2, UpsertType
  <1>4. nextId' \in Nat \ {0}
    BY DEF ClaimAndFire, Claimed, LeaveGuard
  <1>5. CASE v # "dispatch"
    <2>1. PICK u : u \in Task /\ tasks' \in {stamped, Upsert(s, u)}
      <3>1. [claimed EXCEPT !.enabled = FALSE] \in Task
        BY <1>2 DEF Task
      <3>2. SettleTask(claimed, FALSE, clock) \in Task
        BY <1>1, <1>2, SettleTaskType
      <3>3. tasks' \in {stamped, Upsert(s, [claimed EXCEPT !.enabled = FALSE]),
                        Upsert(s, SettleTask(claimed, FALSE, clock))}
        BY <1>5 DEF ClaimAndFire, Claimed, LeaveGuard
      <3> QED BY <3>1, <3>2, <3>3
    <2>2. /\ DOMAIN tasks \subseteq DOMAIN tasks'
          /\ DOMAIN tasks' \subseteq Schedules /\ tasks' \in [DOMAIN tasks' -> Task]
      <3>1. CASE tasks' = stamped
        BY <3>1, <1>3
      <3>2. CASE tasks' = Upsert(s, u)
        <4>1. u \in Task
          BY <2>1
        <4>2. /\ DOMAIN Upsert(s, u) = DOMAIN tasks \cup {s}
              /\ DOMAIN Upsert(s, u) \subseteq Schedules
              /\ Upsert(s, u) \in [DOMAIN Upsert(s, u) -> Task]
          BY <4>1, <1>1, UpsertType
        <4> QED BY <3>2, <4>2
      <3> QED BY <2>1, <3>1, <3>2
    <2>3. RefusalOutcome(v) \in Outcomes
      BY <1>5, VerdictFacts DEF RefusalOutcome, Outcomes
    <2>4. (IF v = "overlap" THEN LastSpawnedConversationId(rs, s) ELSE NoConv) \in Nat
      BY <1>1, VerdictFacts DEF NoConv
    <2> DEFINE conv == IF v = "overlap" THEN LastSpawnedConversationId(rs, s) ELSE NoConv
               row  == Row(id, s, clock, key, trigger, RefusalOutcome(v), conv)
    <2>5. row \in Run
      BY <2>3, <2>4, <1>1 DEF Row, Run
    <2>6. runs' = rs \cup {row}
      BY <1>5 DEF ClaimAndFire, Claimed, LeaveGuard
    <2>7. /\ firing' = firing \ {s}
          /\ UNCHANGED <<flights, dispatching, byOrder, fires, coming>>
      BY <1>5 DEF ClaimAndFire, Claimed, LeaveGuard, launchVars
    <2>8. runs' \subseteq Run
      BY <2>5, <2>6
    <2> QED BY <2>2, <2>7, <2>8, <1>4 DEF FireTypes, TypeOK
  <1>6. CASE v = "dispatch"
    <2>1. /\ tasks' = stamped /\ runs' = rs /\ firing' = firing \cup {s}
          /\ flights' = flights \cup {[id |-> id, s |-> s, snap |-> claimed, at |-> clock,
                                       key |-> key, trigger |-> trigger]}
          /\ ClaimSlot(claimed.conf.order)
          /\ fires' = fires \cup {[id |-> id, s |-> s, key |-> key, trigger |-> trigger,
                                   skip |-> claimed.conf.overlap = "skip",
                                   unseen |-> Unseen(s, rs)]}
          /\ coming' \in {coming, coming \cup {id}}
      BY <1>6 DEF ClaimAndFire, Claimed, LeaveGuard
    <2>2. dispatching' \in Int /\ byOrder' \in [Orders -> Int]
      BY <2>1, <1>2, ConfFacts DEF ClaimSlot, TypeOK
    <2>3. flights' \subseteq Flight
      BY <2>1, <1>1, <1>2 DEF Flight, TypeOK
    <2>4. fires' \subseteq Fire /\ coming' \subseteq Nat
      <3>1. Unseen(s, rs) \in SUBSET Nat
        BY DEF Unseen, TypeOK, Fire
      <3> DEFINE g == [id |-> id, s |-> s, key |-> key, trigger |-> trigger,
                       skip |-> claimed.conf.overlap = "skip", unseen |-> Unseen(s, rs)]
      <3>2. (claimed.conf.overlap = "skip") \in BOOLEAN
        OBVIOUS
      <3> HIDE DEF claimed
      <3>3. g \in Fire
        BY <3>1, <3>2 DEF Fire
      <3> HIDE DEF g
      <3>4. fires' = fires \cup {g} /\ fires \subseteq Fire /\ coming \subseteq Nat
        BY <2>1 DEF TypeOK, g
      <3> QED BY <2>1, <3>3, <3>4
    <2>5. firing' \subseteq Schedules
      BY <2>1 DEF TypeOK
    <2> QED BY <2>1, <2>2, <2>3, <2>4, <2>5, <1>3, <1>4 DEF FireTypes
  <1> QED BY <1>5, <1>6

-----------------------------------------------------------------------------
(* Type correctness.                                                       *)

\* The rows before the first boot are well-typed.
LEMMA InitType == Init => TypeOK
  <1> SUFFICES ASSUME Init PROVE TypeOK
    OBVIOUS
  <1>1. \A s \in DOMAIN Initial : Initial[s] \in Confs
    BY ConstantsAssumption
  <1>2. DOMAIN tasks = DOMAIN Initial /\ tasks \in [DOMAIN tasks -> Task]
    BY <1>1 DEF Init, Task, Marker
  <1>3. DOMAIN tasks \subseteq Schedules
    BY <1>2, ConstantsAssumption
  <1>4. 0 \in Minutes
    BY ConstantsAssumption DEF Minutes
  <1>5. /\ rec = [now |-> rec.now, list |-> rec.list, wait |-> rec.wait]
        /\ rec.now \in Minutes /\ rec.wait \in Nat /\ DOMAIN rec.list \subseteq Schedules
        /\ rec.list \in [DOMAIN rec.list -> Task]
    BY <1>4 DEF Init, NoWalk, NoFlight
  <1>6. used \in [Ops -> Nat] /\ byOrder \in [Orders -> Int]
    BY DEF Init
  <1>7. /\ runs = {} /\ nextId = 1 /\ clock = 0 /\ turn = "down" /\ todo = {}
        /\ booted = FALSE /\ firing = {} /\ flights = {} /\ dispatching = 0
        /\ edits = {} /\ alive = {} /\ coming = {} /\ granted = Schedules /\ optedIn = Schedules
        /\ fires = {} /\ deleted = {}
    BY DEF Init
  <1>8. /\ runs \subseteq Run /\ nextId \in Nat \ {0} /\ clock \in Minutes
        /\ turn \in {"idle", "tick", "reconcile", "down"}
        /\ todo \subseteq DOMAIN tasks /\ (turn # "tick" => todo = {})
    BY <1>4, <1>7
  <1>9. /\ firing \subseteq Schedules /\ flights \subseteq Flight /\ dispatching \in Int
        /\ edits \subseteq Edit /\ alive \subseteq Nat /\ coming \subseteq Nat
        /\ granted \subseteq Schedules /\ optedIn \subseteq Schedules
        /\ fires \subseteq Fire
        /\ deleted \subseteq Schedules
    BY <1>7
  <1>10. booted \in BOOLEAN
    BY <1>7, Zenon
  <1> QED BY <1>2, <1>3, <1>5, <1>6, <1>8, <1>9, <1>10 DEF TypeOK

\* The walk's record after one of its fields changes.
WalkType ==
    /\ rec = [now |-> rec.now, list |-> rec.list, wait |-> rec.wait]
    /\ rec.now \in Minutes /\ rec.wait \in Nat
    /\ DOMAIN rec.list \subseteq Schedules /\ rec.list \in [DOMAIN rec.list -> Task]

\* A boot walk that has ended is well-typed.
LEMMA NoWalkType == ASSUME rec' = NoWalk PROVE WalkType'
  <1>1. 0 \in Minutes
    BY ConstantsAssumption DEF Minutes
  <1> QED BY <1>1 DEF WalkType, NoWalk, NoFlight

\* Handing the thread on after a claim leaves a well-typed turn.
LEMMA YieldType ==
    ASSUME NEW claimed, NEW next \in {"idle", "reconcile"}, Yield(claimed, next),
           DOMAIN tasks' \subseteq Schedules
    PROVE  /\ turn' \in {"idle", "tick", "reconcile", "down"}
           /\ todo' \subseteq DOMAIN tasks' /\ (turn' # "tick" => todo' = {})
           /\ booted' \in BOOLEAN
  BY DEF Yield

\* One schedule of the boot walk, with its missed rows and its catch-up.
LEMMA ReconcileType ==
    ASSUME TypeOK, NEW s \in Schedules, Reconcile(s) PROVE TypeOK'
  <1> DEFINE t      == rec.list[s]
             missed == ComputeMissedFires(t, rec.now)
             rs     == runs \cup MissedRows(s, missed)
             id     == nextId + Cardinality(missed)
             rest   == [x \in DOMAIN rec.list \ {s} |-> rec.list[x]]
  <1>1. /\ t \in Task /\ rec.now \in Minutes /\ nextId \in Nat \ {0}
        /\ turn = "reconcile" /\ todo = {}
    BY DEF Reconcile, TypeOK
  <1>2. missed \in SUBSET Minutes /\ Cardinality(missed) \in Nat
    BY <1>1, MissedFacts
  <1>3. rs \in SUBSET Run
    BY <1>1, <1>2, MissedRowsType DEF TypeOK
  <1>4. id \in Nat \ {0}
    BY <1>1, <1>2
  <1>5. DOMAIN rest \subseteq Schedules /\ rest \in [DOMAIN rest -> Task]
    BY DEF TypeOK
  <1>6. UNCHANGED envVars
    BY DEF Reconcile
  <1> HIDE DEF missed, rs, id, rest
  <1>7. CASE ~ShouldCatchUp(t, missed, rec.now)
    <2>1. /\ runs' = rs /\ nextId' = id /\ rec' = [rec EXCEPT !.list = rest]
          /\ UNCHANGED <<tasks, turn, todo, booted, engineVars, launchVars>>
      BY <1>7 DEF Reconcile, missed, rs, id, rest
    <2>2. WalkType'
      BY <2>1, <1>5 DEF WalkType, TypeOK
    <2> QED BY <2>1, <2>2, <1>3, <1>4, <1>6 DEF TypeOK, WalkType, envVars, engineVars, launchVars
  <1>8. CASE ShouldCatchUp(t, missed, rec.now)
    <2>1. /\ ClaimAndFire(s, t, WallKey(rec.now), "catchup", rs, id)
          /\ rec' = [rec EXCEPT !.list = rest,
                                !.wait = IF fires' = fires THEN NoFlight ELSE id]
          /\ Yield({s}, IF fires' = fires THEN "reconcile" ELSE "idle")
      BY <1>8 DEF Reconcile, missed, rs, id, rest
    <2>2. WallKey(rec.now) \in RunKey /\ WallKey(rec.now) \in Marker
      BY <1>1, WallKeyType DEF RunKey
    <2>3. FireTypes
      BY <2>1, <2>2, <1>1, <1>3, <1>4, ClaimAndFireType DEF Triggers
    <2>4. WalkType'
      BY <2>1, <1>4, <1>5 DEF WalkType, TypeOK, NoFlight
    <2>5. /\ turn' \in {"idle", "tick", "reconcile", "down"}
          /\ todo' \subseteq DOMAIN tasks' /\ (turn' # "tick" => todo' = {})
          /\ booted' \in BOOLEAN
      BY <2>1, <2>3, YieldType DEF FireTypes
    <2> QED BY <2>3, <2>4, <2>5, <1>6 DEF FireTypes, TypeOK, WalkType, envVars
  <1> QED BY <1>7, <1>8

\* Counting an outside event keeps the counters natural.
LEMMA SpendType ==
    ASSUME NEW op \in Ops, used \in [Ops -> Nat], Spend(op)
    PROVE  used' \in [Ops -> Nat]
  BY DEF Spend

\* A settlement writes a well-formed record and row.
LEMMA SettleType ==
    ASSUME TypeOK, NEW f \in flights, NEW ok \in BOOLEAN, Settle(f, ok) PROVE TypeOK'
  <1> DEFINE row == Row(nextId, f.s, f.at, f.key, f.trigger,
                        IF ok THEN RunOutcome(f.snap.conf.action) ELSE "error",
                        IF ok /\ f.snap.conf.action = "spawn" THEN f.id ELSE NoConv)
  <1>1. /\ f \in Flight /\ f.s \in Schedules /\ f.snap \in Task /\ f.at \in Minutes
        /\ f.key \in RunKey /\ f.trigger \in Triggers /\ f.id \in Nat
    BY DEF TypeOK, Flight
  <1>2. SettleTask(f.snap, ok, f.at) \in Task
    BY <1>1, SettleTaskType
  <1>3. /\ tasks' = Upsert(f.s, SettleTask(f.snap, ok, f.at))
        /\ flights' = flights \ {f} /\ ReleaseSlot(f.snap.conf.order)
        /\ runs' = runs \cup {row}
        /\ nextId' = nextId + 1 /\ firing' = firing \ {f.s}
        /\ UNCHANGED <<todo, booted, fires, coming, clock, edits, alive, granted, optedIn, used, deleted>>
    BY DEF Settle, LeaveGuard, ResumeWalk, launchVars
  <1>4. /\ DOMAIN tasks \subseteq DOMAIN tasks'
        /\ DOMAIN tasks' \subseteq Schedules /\ tasks' \in [DOMAIN tasks' -> Task]
    <2> DEFINE t == SettleTask(f.snap, ok, f.at)
    <2>1. DOMAIN tasks \subseteq Schedules /\ tasks \in [DOMAIN tasks -> Task]
      BY DEF TypeOK
    <2>2. tasks' = Upsert(f.s, t) /\ t \in Task /\ f.s \in Schedules
      BY <1>1, <1>2, <1>3
    <2> HIDE DEF t
    <2>3. /\ DOMAIN Upsert(f.s, t) = DOMAIN tasks \cup {f.s}
          /\ DOMAIN Upsert(f.s, t) \subseteq Schedules
          /\ Upsert(f.s, t) \in [DOMAIN Upsert(f.s, t) -> Task]
      BY <2>1, <2>2, UpsertType
    <2> QED BY <2>2, <2>3
  <1>5. RunOutcome(f.snap.conf.action) \in Outcomes
    <2>1. f.snap.conf.action \in {"spawn", "board-sweep", "epic-start"}
      BY <1>1, ConfFacts DEF Conf
    <2> QED BY <2>1 DEF RunOutcome, Outcomes
  <1>6. row \in Run
    BY <1>1, <1>5 DEF Row, Run, TypeOK, Outcomes, NoConv
  <1>7. runs' \subseteq Run
    BY <1>3, <1>6 DEF TypeOK
  <1>8. dispatching' \in Int /\ byOrder' \in [Orders -> Int]
    BY <1>1, <1>3, ConfFacts DEF ReleaseSlot, TypeOK
  <1>9. WalkType' /\ turn' \in {"idle", "reconcile"} /\ todo = {}
    BY DEF Settle, LeaveGuard, ResumeWalk, Idle, TypeOK, WalkType, NoFlight
  <1> HIDE DEF row
  <1> QED BY <1>3, <1>4, <1>7, <1>8, <1>9 DEF TypeOK, WalkType

\* Every step keeps every variable well-typed.
LEMMA NextType == ASSUME TypeOK, [Next]_vars PROVE TypeOK'
  <1> USE DEF storeVars, engineVars, envVars, launchVars
  <1>1. CASE Boot
    <2>1. WalkType'
      BY <1>1 DEF Boot, TypeOK, WalkType, Enabled, NoFlight
    <2> QED BY <1>1, <2>1 DEF Boot, TypeOK, WalkType
  <1>2. CASE ReconcileDone
    <2>1. WalkType'
      BY <1>2, NoWalkType DEF ReconcileDone
    <2>2. /\ turn' \in {"idle", "tick", "reconcile", "down"}
          /\ todo' \subseteq DOMAIN tasks' /\ (turn' # "tick" => todo' = {})
          /\ booted' \in BOOLEAN
      BY <1>2, YieldType DEF ReconcileDone, TypeOK
    <2> QED BY <1>2, <2>1, <2>2 DEF ReconcileDone, TypeOK, WalkType
  <1>3. CASE Tick
    BY <1>3 DEF Tick, Enabled, TypeOK
  <1>4. CASE TickDone
    BY <1>4 DEF TickDone, TypeOK
  <1>5. CASE Advance
    BY <1>5, ConstantsAssumption DEF Advance, TypeOK, Minutes
  <1>6. CASE Crash
    <2>1. WalkType'
      BY <1>6, NoWalkType DEF Crash
    <2>3. used' \in [Ops -> Nat]
      <3>1. "crash" \in Ops
        BY DEF Ops
      <3>2. Spend("crash") /\ used \in [Ops -> Nat]
        BY <1>6 DEF Crash, TypeOK
      <3> QED BY <3>1, <3>2, SpendType
    <2>4. byOrder' \in [Orders -> Int]
      BY <1>6 DEF Crash
    <2>5. booted' \in BOOLEAN
      BY <1>6, Zenon DEF Crash
    <2> QED BY <1>6, <2>1, <2>3, <2>4, <2>5 DEF Crash, TypeOK, WalkType
  <1>7. ASSUME NEW s \in Schedules, Reconcile(s) PROVE TypeOK'
    BY <1>7, ReconcileType
  <1>8. ASSUME NEW s \in Schedules, ConsiderFiring(s) PROVE TypeOK'
    BY <1>8 DEF ConsiderFiring, TypeOK
  <1>9. ASSUME NEW s \in Schedules, ConsiderDue(s) PROVE TypeOK'
    <2>1. tasks[s] \in Task /\ clock \in Minutes /\ nextId \in Nat \ {0} /\ runs \in SUBSET Run
      BY <1>9 DEF ConsiderDue, TypeOK
    <2>2. FireKey(tasks[s], clock) \in Marker /\ FireKey(tasks[s], clock) \in RunKey
      BY <2>1, FireKeyType DEF RunKey
    <2>3. ClaimAndFire(s, tasks[s], FireKey(tasks[s], clock), "cron", runs, nextId)
      BY <1>9 DEF ConsiderDue
    <2>4. FireTypes
      BY <2>1, <2>2, <2>3, ClaimAndFireType DEF Triggers
    <2> QED BY <1>9, <2>4 DEF ConsiderDue, FireTypes, TypeOK
  <1>10. ASSUME NEW s \in Schedules, ConsiderNotDue(s) PROVE TypeOK'
    <2> DEFINE t == tasks[s]
               row == Row(nextId, s, t.conf.runAt, OnceKey(t.conf.runAt), "cron", "missed", NoConv)
    <2>1. t \in Task
      BY <1>10 DEF ConsiderNotDue, TypeOK
    <2>2. [t EXCEPT !.enabled = FALSE] \in Task
      BY <2>1 DEF Task
    <2>3. /\ DOMAIN tasks \subseteq DOMAIN tasks'
          /\ DOMAIN tasks' \subseteq Schedules /\ tasks' \in [DOMAIN tasks' -> Task]
      <3>1. tasks' = tasks \/ tasks' = Upsert(s, [t EXCEPT !.enabled = FALSE])
        BY <1>10 DEF ConsiderNotDue
      <3>2. DOMAIN tasks \subseteq Schedules /\ tasks \in [DOMAIN tasks -> Task]
        BY DEF TypeOK
      <3>3. CASE tasks' = tasks
        BY <3>2, <3>3
      <3>4. CASE tasks' = Upsert(s, [t EXCEPT !.enabled = FALSE])
        BY <3>2, <3>4, <2>2, UpsertType
      <3> QED BY <3>1, <3>3, <3>4
    <2>4. row \in Run
      <3>1. t.conf.runAt \in Minutes
        BY <2>1, ConfFacts
      <3>2. OnceKey(t.conf.runAt) \in RunKey
        BY <3>1, OnceKeyType DEF RunKey
      <3> QED BY <3>1, <3>2 DEF Row, Run, Triggers, Outcomes, NoConv, TypeOK
    <2>5. runs' \subseteq Run /\ nextId' \in Nat \ {0}
      BY <1>10, <2>4 DEF ConsiderNotDue, TypeOK
    <2> HIDE DEF t
    <2> QED BY <1>10, <2>3, <2>5 DEF ConsiderNotDue, TypeOK
  <1>11. ASSUME NEW s \in Schedules, RunNow(s) PROVE TypeOK'
    <2>1. tasks[s] \in Task /\ clock \in Minutes /\ nextId \in Nat \ {0} /\ runs \in SUBSET Run
      BY <1>11 DEF RunNow, TypeOK
    <2>2. ClaimAndFire(s, tasks[s], ManualKey(clock), "manual", runs, nextId)
      BY <1>11 DEF RunNow
    <2>3. FireTypes
      BY <2>1, <2>2, WallKeyType, ClaimAndFireType DEF Triggers
    <2>4. used' \in [Ops -> Nat]
      <3>1. "manual" \in Ops
        BY DEF Ops
      <3>2. Spend("manual") /\ used \in [Ops -> Nat]
        BY <1>11 DEF RunNow, TypeOK
      <3> QED BY <3>1, <3>2, SpendType
    <2> QED BY <1>11, <2>3, <2>4 DEF RunNow, FireTypes, TypeOK
  <1>12. ASSUME NEW s \in Schedules, Delete(s) PROVE TypeOK'
    <2>1. used' \in [Ops -> Nat]
      <3>1. "delete" \in Ops
        BY DEF Ops
      <3>2. Spend("delete") /\ used \in [Ops -> Nat]
        BY <1>12 DEF Delete, TypeOK
      <3> QED BY <3>1, <3>2, SpendType
    <2>2. todo = {}
      BY <1>12 DEF Delete, Idle, TypeOK
    <2> QED BY <1>12, <2>1, <2>2 DEF Delete, TypeOK
  <1>13. ASSUME NEW s \in Schedules, FlipGrant(s) PROVE TypeOK'
    <2>1. used' \in [Ops -> Nat]
      <3>1. "grant" \in Ops
        BY DEF Ops
      <3>2. Spend("grant") /\ used \in [Ops -> Nat]
        BY <1>13 DEF FlipGrant, TypeOK
      <3> QED BY <3>1, <3>2, SpendType
    <2> QED BY <1>13, <2>1 DEF FlipGrant, TypeOK
  <1>14. ASSUME NEW s \in Schedules, FlipScanner(s) PROVE TypeOK'
    <2>1. used' \in [Ops -> Nat]
      <3>1. "scanner" \in Ops
        BY DEF Ops
      <3>2. Spend("scanner") /\ used \in [Ops -> Nat]
        BY <1>14 DEF FlipScanner, TypeOK
      <3> QED BY <3>1, <3>2, SpendType
    <2> QED BY <1>14, <2>1 DEF FlipScanner, TypeOK
  <1>15. ASSUME NEW s \in Schedules, NEW p \in Patches, PatchRead(s, p) PROVE TypeOK'
    <2>1. used' \in [Ops -> Nat]
      <3>1. "edit" \in Ops
        BY DEF Ops
      <3>2. Spend("edit") /\ used \in [Ops -> Nat]
        BY <1>15 DEF PatchRead, TypeOK
      <3> QED BY <3>1, <3>2, SpendType
    <2>2. edits' \subseteq Edit
      BY <1>15 DEF PatchRead, TypeOK, Edit
    <2> QED BY <1>15, <2>1, <2>2 DEF PatchRead, TypeOK
  <1>16. ASSUME NEW s \in Schedules, NEW c \in Confs, Create(s, c) PROVE TypeOK'
    <2>1. used' \in [Ops -> Nat]
      <3>1. "create" \in Ops
        BY DEF Ops
      <3>2. Spend("create") /\ used \in [Ops -> Nat]
        BY <1>16 DEF Create, TypeOK
      <3> QED BY <3>1, <3>2, SpendType
    <2> DEFINE t == [enabled |-> TRUE, conf |-> c, runCount |-> 0, failures |-> 0,
                     lastRunAt |-> NoTime, marker |-> NoKey]
    <2>2. t \in Task
      BY DEF Task, Marker
    <2>3. tasks' = Upsert(s, t)
      BY <1>16 DEF Create
    <2>4. /\ DOMAIN tasks \subseteq DOMAIN tasks'
          /\ DOMAIN tasks' \subseteq Schedules /\ tasks' \in [DOMAIN tasks' -> Task]
      <3>1. DOMAIN tasks \subseteq Schedules /\ tasks \in [DOMAIN tasks -> Task]
        BY DEF TypeOK
      <3> HIDE DEF t
      <3> QED BY <3>1, <2>2, <2>3, UpsertType
    <2> QED BY <1>16, <2>1, <2>4 DEF Create, TypeOK
  <1>17. ASSUME NEW f \in flights, NEW ok \in BOOLEAN, Settle(f, ok) PROVE TypeOK'
    BY <1>17, SettleType
  <1>18. ASSUME NEW e \in edits, PatchWrite(e) PROVE TypeOK'
    <2>1. e.s \in Schedules /\ e.existing \in Task /\ e.patch \in Patches
      BY DEF TypeOK, Edit
    <2>2. PatchSchedule(e.existing, e.patch) \in Task
      BY <2>1, PatchType
    <2>3. tasks' = Upsert(e.s, PatchSchedule(e.existing, e.patch))
      BY <1>18 DEF PatchWrite
    <2>4. /\ DOMAIN tasks \subseteq DOMAIN tasks'
          /\ DOMAIN tasks' \subseteq Schedules /\ tasks' \in [DOMAIN tasks' -> Task]
      <3>1. DOMAIN tasks \subseteq Schedules /\ tasks \in [DOMAIN tasks -> Task]
        BY DEF TypeOK
      <3> DEFINE t == PatchSchedule(e.existing, e.patch)
      <3>2. tasks' = Upsert(e.s, t) /\ t \in Task /\ e.s \in Schedules
        BY <2>1, <2>2, <2>3
      <3> HIDE DEF t
      <3>3. /\ DOMAIN Upsert(e.s, t) = DOMAIN tasks \cup {e.s}
            /\ DOMAIN Upsert(e.s, t) \subseteq Schedules
            /\ Upsert(e.s, t) \in [DOMAIN Upsert(e.s, t) -> Task]
        BY <3>1, <3>2, UpsertType
      <3> QED BY <3>2, <3>3
    <2> QED BY <1>18, <2>4 DEF PatchWrite, TypeOK
  <1>19. ASSUME NEW e \in edits, PatchRefused(e) PROVE TypeOK'
    BY <1>19 DEF PatchRefused, TypeOK
  <1>20. ASSUME NEW c \in alive, ConversationEnds(c) PROVE TypeOK'
    BY <1>20 DEF ConversationEnds, TypeOK
  <1>21. ASSUME NEW c \in coming, HostBoots(c) PROVE TypeOK'
    BY <1>21 DEF HostBoots, TypeOK
  <1>22. ASSUME NEW c \in coming, NeverComes(c) PROVE TypeOK'
    BY <1>22 DEF NeverComes, TypeOK
  <1>23. CASE UNCHANGED vars
    BY <1>23 DEF vars, TypeOK
  <1> QED
    BY <1>1, <1>2, <1>3, <1>4, <1>5, <1>6, <1>7, <1>8, <1>9, <1>10, <1>11, <1>12, <1>13,
       <1>14, <1>15, <1>16, <1>17, <1>18, <1>19, <1>20, <1>21, <1>22, <1>23 DEF Next

\* Every reachable state is well-typed: the table, and every record held
\* across an await, contain whole task records only.
THEOREM TypeCorrect == Spec => []TypeOK
  <1>1. Init => TypeOK
    BY InitType
  <1>2. TypeOK /\ [Next]_vars => TypeOK'
    BY NextType
  <1> QED BY <1>1, <1>2, PTL DEF Spec

-----------------------------------------------------------------------------
(* The failure fuse.  A record written back after an await, or read by a   *)
(* PATCH long before it is written, may be stale, so the invariant has to  *)
(* hold of every record held anywhere, not only of the rows in the table.  *)

Fused(t) == t.enabled => t.failures < MaxFailures

FuseInv ==
    /\ TypeOK
    /\ \A s \in DOMAIN tasks : Fused(tasks[s])
    /\ \A f \in flights : Fused(f.snap)
    /\ \A e \in edits : Fused(e.existing)
    /\ \A s \in DOMAIN rec.list : Fused(rec.list[s])

\* A failure that reaches the threshold disarms; a success clears the count.
LEMMA SettleFused ==
    ASSUME NEW t \in Task, NEW ok \in BOOLEAN, NEW at \in Minutes, Fused(t)
    PROVE  Fused(SettleTask(t, ok, at))
  <1> DEFINE n == NextFailures(t.failures, ok)
  <1>1. n \in Nat /\ MaxFailures \in Nat \ {0} /\ (ok => n = 0)
    BY ConfFacts, ConstantsAssumption DEF NextFailures
  <1>2. /\ SettleTask(t, ok, at).failures = n
        /\ SettleTask(t, ok, at).enabled = IF ~ok /\ n >= MaxFailures THEN FALSE ELSE t.enabled
    BY DEF SettleTask, Task
  <1> HIDE DEF n
  <1>3. CASE ok
    <2>1. n = 0
      BY <1>1, <1>3
    <2>2. SettleTask(t, ok, at).failures < MaxFailures
      BY <2>1, <1>1, <1>2
    <2> QED BY <2>2 DEF Fused
  <1>4. CASE ~ok /\ n >= MaxFailures
    BY <1>2, <1>4 DEF Fused
  <1>5. CASE ~ok /\ ~(n >= MaxFailures)
    BY <1>1, <1>2, <1>5 DEF Fused
  <1> QED BY <1>3, <1>4, <1>5

\* Re-arming a disarmed record resets its count; any other patch keeps both.
LEMMA PatchFused ==
    ASSUME NEW t \in Task, NEW p \in Patches, Fused(t)
    PROVE  Fused(PatchSchedule(t, p))
  <1>1. MaxFailures \in Nat \ {0} /\ Merge(t, p) \in Task /\ Merge(t, p).failures = t.failures
    BY ConstantsAssumption DEF Merge, Patches, Task
  <1>2. CASE ~t.enabled /\ Merge(t, p).enabled
    BY <1>1, <1>2 DEF PatchSchedule, Fused, Task
  <1>3. CASE t.enabled \/ ~Merge(t, p).enabled
    BY <1>1, <1>3 DEF PatchSchedule, Fused
  <1> QED BY <1>2, <1>3

\* Upserting a fused record keeps the table fused.
LEMMA UpsertFused ==
    ASSUME NEW s, NEW t, Fused(t), \A x \in DOMAIN tasks : Fused(tasks[x]),
           tasks' = Upsert(s, t)
    PROVE  \A x \in DOMAIN tasks' : Fused(tasks'[x])
  BY DEF Upsert

\* A claim writes no armed record past its failure allowance.
LEMMA ClaimAndFireFused ==
    ASSUME FuseInv, NEW s \in Schedules, NEW t \in Task, Fused(t), NEW trigger \in Triggers,
           NEW key, trigger # "manual" => key \in Marker, NEW rs, NEW id,
           ClaimAndFire(s, t, key, trigger, rs, id)
    PROVE  /\ \A x \in DOMAIN tasks' : Fused(tasks'[x])
           /\ \A f \in flights' : Fused(f.snap)
  <1> DEFINE claimed == IF trigger = "manual" THEN t ELSE [t EXCEPT !.marker = key]
             stamped == IF trigger = "manual" THEN tasks ELSE Upsert(s, claimed)
             off     == [claimed EXCEPT !.enabled = FALSE]
             settled == SettleTask(claimed, FALSE, clock)
             v       == FireVerdict(s, claimed, rs)
  <1>1. claimed \in Task /\ Fused(claimed)
    BY DEF Task, Fused
  <1>2. Fused(off)
    BY <1>1 DEF Task, Fused
  <1>3. Fused(settled)
    BY <1>1, SettleFused DEF FuseInv, TypeOK
  <1>4. \A x \in DOMAIN tasks : Fused(tasks[x])
    BY DEF FuseInv
  <1>5. tasks' \in {stamped, Upsert(s, off), Upsert(s, settled)}
    BY DEF ClaimAndFire, Claimed, LeaveGuard
  <1>6. \/ flights' = flights
        \/ flights' = flights \cup {[id |-> id, s |-> s, snap |-> claimed, at |-> clock,
                                     key |-> key, trigger |-> trigger]}
    BY DEF ClaimAndFire, Claimed, LeaveGuard
  <1>7. \A f \in flights' : Fused(f.snap)
    BY <1>1, <1>6 DEF FuseInv
  <1> HIDE DEF claimed, off, settled
  <1>8. CASE tasks' = tasks
    BY <1>4, <1>7, <1>8
  <1>9. CASE tasks' = Upsert(s, claimed)
    BY <1>1, <1>4, <1>7, <1>9, UpsertFused
  <1>10. CASE tasks' = Upsert(s, off)
    BY <1>2, <1>4, <1>7, <1>10, UpsertFused
  <1>11. CASE tasks' = Upsert(s, settled)
    BY <1>3, <1>4, <1>7, <1>11, UpsertFused
  <1> QED BY <1>5, <1>8, <1>9, <1>10, <1>11

\* Fresh schedules have no failures.
LEMMA FuseInit == Init => FuseInv
  <1> SUFFICES ASSUME Init PROVE FuseInv
    OBVIOUS
  <1>1. TypeOK
    BY InitType
  <1>2. 0 < MaxFailures
    BY ConstantsAssumption
  <1>3. \A s \in DOMAIN tasks : tasks[s].failures = 0
    BY DEF Init
  <1>4. \A s \in DOMAIN tasks : Fused(tasks[s])
    BY <1>2, <1>3 DEF Fused
  <1>5. flights = {} /\ edits = {} /\ DOMAIN rec.list = {}
    BY DEF Init, NoWalk
  <1> QED BY <1>1, <1>4, <1>5 DEF FuseInv

\* Every step keeps every record, stored or captured, below the fuse.
LEMMA FuseNext == ASSUME FuseInv, [Next]_vars PROVE FuseInv'
  <1> USE DEF storeVars, engineVars, envVars, launchVars
  <1>0. TypeOK /\ TypeOK'
    BY NextType DEF FuseInv
  <1>1. CASE Boot
    BY <1>0, <1>1 DEF Boot, FuseInv, Enabled
  <1>2. CASE ReconcileDone
    BY <1>0, <1>2 DEF ReconcileDone, FuseInv, NoWalk
  <1>3. CASE Tick
    BY <1>0, <1>3 DEF Tick, FuseInv
  <1>4. CASE TickDone
    BY <1>0, <1>4 DEF TickDone, FuseInv
  <1>5. CASE Advance
    BY <1>0, <1>5 DEF Advance, FuseInv
  <1>6. CASE Crash
    BY <1>0, <1>6 DEF Crash, FuseInv, NoWalk
  <1>7. ASSUME NEW s \in Schedules, Reconcile(s) PROVE FuseInv'
    <2> DEFINE t      == rec.list[s]
               missed == ComputeMissedFires(t, rec.now)
               rs     == runs \cup MissedRows(s, missed)
               id     == nextId + Cardinality(missed)
               rest   == [x \in DOMAIN rec.list \ {s} |-> rec.list[x]]
    <2>1. t \in Task /\ Fused(t) /\ rec.now \in Minutes
      BY <1>0, <1>7 DEF Reconcile, TypeOK, FuseInv
    <2>2. edits' = edits
      BY <1>7 DEF Reconcile
    <2>3. \A x \in DOMAIN rec'.list : Fused(rec'.list[x])
      <3>1. rec'.list = rest
        BY <1>0, <1>7 DEF Reconcile, TypeOK
      <3> QED BY <3>1 DEF FuseInv
    <2> HIDE DEF missed, rs, id, rest
    <2>4. CASE ~ShouldCatchUp(t, missed, rec.now)
      <3>1. UNCHANGED <<tasks, flights>>
        BY <1>7, <2>4 DEF Reconcile, missed, rs, id, rest
      <3> QED BY <1>0, <2>2, <2>3, <3>1 DEF FuseInv
    <2>5. CASE ShouldCatchUp(t, missed, rec.now)
      <3>1. ClaimAndFire(s, t, WallKey(rec.now), "catchup", rs, id)
        BY <1>7, <2>5 DEF Reconcile, missed, rs, id, rest
      <3>2. WallKey(rec.now) \in Marker
        BY <2>1, WallKeyType
      <3>3. /\ \A x \in DOMAIN tasks' : Fused(tasks'[x])
            /\ \A f \in flights' : Fused(f.snap)
        BY <2>1, <3>1, <3>2, ClaimAndFireFused DEF Triggers
      <3> QED BY <1>0, <2>2, <2>3, <3>3 DEF FuseInv
    <2> QED BY <2>4, <2>5
  <1>8. ASSUME NEW s \in Schedules, ConsiderFiring(s) PROVE FuseInv'
    BY <1>0, <1>8 DEF ConsiderFiring, FuseInv
  <1>9. ASSUME NEW s \in Schedules, ConsiderDue(s) PROVE FuseInv'
    <2>1. tasks[s] \in Task /\ Fused(tasks[s]) /\ clock \in Minutes
      BY <1>0, <1>9 DEF ConsiderDue, TypeOK, FuseInv
    <2>2. FireKey(tasks[s], clock) \in Marker
      BY <2>1, FireKeyType
    <2>3. ClaimAndFire(s, tasks[s], FireKey(tasks[s], clock), "cron", runs, nextId)
      BY <1>9 DEF ConsiderDue
    <2>4. /\ \A x \in DOMAIN tasks' : Fused(tasks'[x])
          /\ \A f \in flights' : Fused(f.snap)
      BY <2>1, <2>2, <2>3, ClaimAndFireFused DEF Triggers
    <2>5. edits' = edits /\ rec' = rec
      BY <1>9 DEF ConsiderDue
    <2> QED BY <1>0, <2>4, <2>5 DEF FuseInv
  <1>10. ASSUME NEW s \in Schedules, ConsiderNotDue(s) PROVE FuseInv'
    <2> DEFINE off == [tasks[s] EXCEPT !.enabled = FALSE]
    <2>1. tasks' = tasks \/ tasks' = Upsert(s, off)
      BY <1>10 DEF ConsiderNotDue
    <2>2. Fused(off)
      BY <1>0, <1>10 DEF ConsiderNotDue, TypeOK, Task, Fused
    <2>3. UNCHANGED <<flights, edits, rec>>
      BY <1>10 DEF ConsiderNotDue
    <2>4. \A x \in DOMAIN tasks : Fused(tasks[x])
      BY DEF FuseInv
    <2> HIDE DEF off
    <2>5. \A x \in DOMAIN tasks' : Fused(tasks'[x])
      BY <2>1, <2>2, <2>4, UpsertFused
    <2> QED BY <1>0, <2>3, <2>5 DEF FuseInv
  <1>11. ASSUME NEW s \in Schedules, RunNow(s) PROVE FuseInv'
    <2>1. tasks[s] \in Task /\ Fused(tasks[s])
      BY <1>0, <1>11 DEF RunNow, TypeOK, FuseInv
    <2>2. ClaimAndFire(s, tasks[s], ManualKey(clock), "manual", runs, nextId)
      BY <1>11 DEF RunNow
    <2>3. /\ \A x \in DOMAIN tasks' : Fused(tasks'[x])
          /\ \A f \in flights' : Fused(f.snap)
      BY <2>1, <2>2, ClaimAndFireFused DEF Triggers
    <2>4. edits' = edits /\ rec' = rec
      BY <1>11 DEF RunNow
    <2> QED BY <1>0, <2>3, <2>4 DEF FuseInv
  <1>12. ASSUME NEW s \in Schedules, Delete(s) PROVE FuseInv'
    BY <1>0, <1>12 DEF Delete, FuseInv
  <1>13. ASSUME NEW s \in Schedules, FlipGrant(s) PROVE FuseInv'
    BY <1>0, <1>13 DEF FlipGrant, FuseInv
  <1>14. ASSUME NEW s \in Schedules, FlipScanner(s) PROVE FuseInv'
    BY <1>0, <1>14 DEF FlipScanner, FuseInv
  <1>15. ASSUME NEW s \in Schedules, NEW p \in Patches, PatchRead(s, p) PROVE FuseInv'
    BY <1>0, <1>15 DEF PatchRead, FuseInv
  <1>16. ASSUME NEW s \in Schedules, NEW c \in Confs, Create(s, c) PROVE FuseInv'
    <2> DEFINE t == [enabled |-> TRUE, conf |-> c, runCount |-> 0, failures |-> 0,
                     lastRunAt |-> NoTime, marker |-> NoKey]
    <2>1. tasks' = Upsert(s, t) /\ UNCHANGED <<flights, edits, rec>>
      BY <1>16 DEF Create
    <2>2. 0 < MaxFailures
      BY ConstantsAssumption
    <2>3. Fused(t)
      BY <2>2 DEF Fused
    <2>4. \A x \in DOMAIN tasks : Fused(tasks[x])
      BY DEF FuseInv
    <2> HIDE DEF t
    <2>5. \A x \in DOMAIN tasks' : Fused(tasks'[x])
      BY <2>1, <2>3, <2>4, UpsertFused
    <2> QED BY <1>0, <2>1, <2>5 DEF FuseInv
  <1>17. ASSUME NEW f \in flights, NEW ok \in BOOLEAN, Settle(f, ok) PROVE FuseInv'
    <2> DEFINE t == SettleTask(f.snap, ok, f.at)
    <2>1. f.snap \in Task /\ f.at \in Minutes /\ Fused(f.snap)
      BY <1>0 DEF TypeOK, Flight, FuseInv
    <2>2. Fused(t)
      BY <2>1, SettleFused
    <2>3. tasks' = Upsert(f.s, t) /\ flights' \subseteq flights /\ edits' = edits
      BY <1>17 DEF Settle, LeaveGuard, ResumeWalk
    <2>4. rec'.list = rec.list
      BY <1>0, <1>17 DEF Settle, LeaveGuard, ResumeWalk, TypeOK
    <2>5. \A x \in DOMAIN tasks : Fused(tasks[x])
      BY DEF FuseInv
    <2> HIDE DEF t
    <2>6. \A x \in DOMAIN tasks' : Fused(tasks'[x])
      BY <2>2, <2>3, <2>5, UpsertFused
    <2> QED BY <1>0, <2>3, <2>4, <2>6 DEF FuseInv
  <1>18. ASSUME NEW e \in edits, PatchWrite(e) PROVE FuseInv'
    <2> DEFINE t == PatchSchedule(e.existing, e.patch)
    <2>1. e.existing \in Task /\ e.patch \in Patches /\ Fused(e.existing)
      BY <1>0 DEF TypeOK, Edit, FuseInv
    <2>2. Fused(t)
      BY <2>1, PatchFused
    <2>3. tasks' = Upsert(e.s, t) /\ edits' \subseteq edits /\ UNCHANGED <<flights, rec>>
      BY <1>18 DEF PatchWrite
    <2>4. \A x \in DOMAIN tasks : Fused(tasks[x])
      BY DEF FuseInv
    <2> HIDE DEF t
    <2>5. \A x \in DOMAIN tasks' : Fused(tasks'[x])
      BY <2>2, <2>3, <2>4, UpsertFused
    <2> QED BY <1>0, <2>3, <2>5 DEF FuseInv
  <1>19. ASSUME NEW e \in edits, PatchRefused(e) PROVE FuseInv'
    BY <1>0, <1>19 DEF PatchRefused, FuseInv
  <1>20. ASSUME NEW c \in alive, ConversationEnds(c) PROVE FuseInv'
    BY <1>0, <1>20 DEF ConversationEnds, FuseInv
  <1>21. ASSUME NEW c \in coming, HostBoots(c) \/ NeverComes(c) PROVE FuseInv'
    BY <1>0, <1>21 DEF HostBoots, NeverComes, FuseInv
  <1>22. CASE UNCHANGED vars
    BY <1>0, <1>22 DEF vars, FuseInv
  <1> QED
    BY <1>1, <1>2, <1>3, <1>4, <1>5, <1>6, <1>7, <1>8, <1>9, <1>10, <1>11, <1>12, <1>13,
       <1>14, <1>15, <1>16, <1>17, <1>18, <1>19, <1>20, <1>21, <1>22 DEF Next

\* Whatever stale records are written back, and in whatever order dispatches,
\* patches, deletes and crashes fall, no armed schedule has used up its
\* failure allowance.
THEOREM FuseHolds == Spec => []FailureFuse
  <1>1. Init => FuseInv
    BY FuseInit
  <1>2. FuseInv /\ [Next]_vars => FuseInv'
    BY FuseNext
  <1>3. FuseInv => FailureFuse
    BY DEF FuseInv, FailureFuse, Fused
  <1> QED BY <1>1, <1>2, <1>3, PTL DEF Spec

-----------------------------------------------------------------------------
(* The seat pool.  Counting needs finitely many flights and fresh ids, so  *)
(* that a claim adds a flight and a release removes exactly one.           *)

SeatInv ==
    /\ TypeOK
    /\ IsFiniteSet(flights)
    /\ \A f \in flights : f.id < nextId
    /\ SeatPool

\* An order's share of the pool is a number of seats.
LEMMA SeatLimitType == ASSUME NEW o \in Orders, Reservation[o] # Unreserved
                       PROVE  SeatLimit(o) \in Nat
  BY ConstantsAssumption DEF SeatLimit

\* The flights of one order, when a flight joins or leaves.
LEMMA HeldByAdd ==
    ASSUME IsFiniteSet(flights), NEW g, g \notin flights, flights' = flights \cup {g},
           NEW o \in Orders
    PROVE  Cardinality(HeldBy(o)') = IF g.snap.conf.order = o
                                     THEN Cardinality(HeldBy(o)) + 1
                                     ELSE Cardinality(HeldBy(o))
  <1>1. IsFiniteSet(HeldBy(o)) /\ g \notin HeldBy(o)
    BY FS_Subset DEF HeldBy
  <1>2. CASE g.snap.conf.order = o
    <2>1. HeldBy(o)' = HeldBy(o) \cup {g}
      BY <1>2 DEF HeldBy
    <2> QED BY <1>1, <1>2, <2>1, FS_AddElement
  <1>3. CASE g.snap.conf.order # o
    <2>1. HeldBy(o)' = HeldBy(o)
      BY <1>3 DEF HeldBy
    <2> QED BY <1>3, <2>1
  <1> QED BY <1>2, <1>3

\* The flights of one order, when a flight leaves.
LEMMA HeldByRemove ==
    ASSUME IsFiniteSet(flights), NEW g \in flights, flights' = flights \ {g},
           NEW o \in Orders
    PROVE  Cardinality(HeldBy(o)') = IF g.snap.conf.order = o
                                     THEN Cardinality(HeldBy(o)) - 1
                                     ELSE Cardinality(HeldBy(o))
  <1>1. IsFiniteSet(HeldBy(o))
    BY FS_Subset DEF HeldBy
  <1>2. CASE g.snap.conf.order = o
    <2>1. HeldBy(o)' = HeldBy(o) \ {g} /\ g \in HeldBy(o)
      BY <1>2 DEF HeldBy
    <2> QED BY <1>1, <1>2, <2>1, FS_RemoveElement
  <1>3. CASE g.snap.conf.order # o
    <2>1. HeldBy(o)' = HeldBy(o)
      BY <1>3 DEF HeldBy
    <2> QED BY <1>3, <2>1
  <1> QED BY <1>2, <1>3

\* A claim after a positive admission keeps the accounts and the ceilings.
LEMMA ClaimKeepsSeats ==
    ASSUME SeatInv, NEW g, g \notin flights, flights' = flights \cup {g},
           g.snap.conf.order \in Orders \cup {NoOrder},
           DecideSeatAdmission(g.snap.conf.order), ClaimSlot(g.snap.conf.order)
    PROVE  SeatPool' /\ IsFiniteSet(flights')
  <1> DEFINE q == g.snap.conf.order
  <1>1. /\ IsFiniteSet(flights) /\ dispatching = Cardinality(flights)
        /\ dispatching \in Int /\ byOrder \in [Orders -> Int] /\ MaxInFlight \in Nat
        /\ dispatching < MaxInFlight /\ dispatching' = dispatching + 1
        /\ NoOrder \notin Orders
        /\ byOrder' = IF q = NoOrder THEN byOrder ELSE [byOrder EXCEPT ![q] = @ + 1]
    BY ConstantsAssumption DEF SeatInv, SeatPool, TypeOK, DecideSeatAdmission, ClaimSlot
  <1>2. IsFiniteSet(flights') /\ Cardinality(flights') = Cardinality(flights) + 1
    BY <1>1, FS_AddElement
  <1>3. dispatching' = Cardinality(flights') /\ dispatching' <= MaxInFlight
    BY <1>1, <1>2
  <1>4. ASSUME NEW o \in Orders
        PROVE  /\ byOrder'[o] = Cardinality(HeldBy(o)')
               /\ Reservation[o] # Unreserved => byOrder'[o] <= SeatLimit(o)
    <2>1. /\ byOrder[o] = Cardinality(HeldBy(o)) /\ byOrder[o] \in Int
          /\ Reservation[o] # Unreserved => byOrder[o] <= SeatLimit(o)
      BY DEF SeatInv, SeatPool, TypeOK
    <2>2. Cardinality(HeldBy(o)') = IF q = o THEN Cardinality(HeldBy(o)) + 1
                                    ELSE Cardinality(HeldBy(o))
      BY <1>1, HeldByAdd
    <2>3. byOrder'[o] = IF q = o THEN byOrder[o] + 1 ELSE byOrder[o]
      BY <1>1
    <2>4. CASE q = o /\ Reservation[o] # Unreserved
      <3>1. byOrder[o] < SeatLimit(o)
        BY <1>1, <2>4 DEF DecideSeatAdmission
      <3> QED BY <2>1, <2>2, <2>3, <2>4, <3>1, SeatLimitType
    <2>5. CASE q = o /\ Reservation[o] = Unreserved
      BY <2>1, <2>2, <2>3, <2>5
    <2>6. CASE q # o
      BY <2>1, <2>2, <2>3, <2>6
    <2> QED BY <2>4, <2>5, <2>6
  <1>5. \A o \in Orders : SeatLimit(o)' = SeatLimit(o)
    BY DEF SeatLimit
  <1> QED BY <1>2, <1>3, <1>4, <1>5 DEF SeatPool

\* A release gives back exactly the seat that was taken.
LEMMA ReleaseKeepsSeats ==
    ASSUME SeatInv, NEW g \in flights, flights' = flights \ {g},
           g.snap.conf.order \in Orders \cup {NoOrder}, ReleaseSlot(g.snap.conf.order)
    PROVE  SeatPool' /\ IsFiniteSet(flights')
  <1> DEFINE q == g.snap.conf.order
  <1>1. /\ IsFiniteSet(flights) /\ dispatching = Cardinality(flights)
        /\ dispatching \in Int /\ byOrder \in [Orders -> Int] /\ MaxInFlight \in Nat
        /\ dispatching <= MaxInFlight /\ dispatching' = dispatching - 1
        /\ NoOrder \notin Orders
        /\ byOrder' = IF q = NoOrder THEN byOrder ELSE [byOrder EXCEPT ![q] = @ - 1]
    BY ConstantsAssumption DEF SeatInv, SeatPool, TypeOK, ReleaseSlot
  <1>2. IsFiniteSet(flights') /\ Cardinality(flights') = Cardinality(flights) - 1
    BY <1>1, FS_RemoveElement
  <1>3. dispatching' = Cardinality(flights') /\ dispatching' <= MaxInFlight
    BY <1>1, <1>2
  <1>4. ASSUME NEW o \in Orders
        PROVE  /\ byOrder'[o] = Cardinality(HeldBy(o)')
               /\ Reservation[o] # Unreserved => byOrder'[o] <= SeatLimit(o)
    <2>1. /\ byOrder[o] = Cardinality(HeldBy(o)) /\ byOrder[o] \in Int
          /\ Reservation[o] # Unreserved => byOrder[o] <= SeatLimit(o)
      BY DEF SeatInv, SeatPool, TypeOK
    <2>2. Cardinality(HeldBy(o)') = IF q = o THEN Cardinality(HeldBy(o)) - 1
                                    ELSE Cardinality(HeldBy(o))
      BY <1>1, HeldByRemove
    <2>3. byOrder'[o] = IF q = o THEN byOrder[o] - 1 ELSE byOrder[o]
      BY <1>1
    <2> QED BY <2>1, <2>2, <2>3, SeatLimitType
  <1>5. \A o \in Orders : SeatLimit(o)' = SeatLimit(o)
    BY DEF SeatLimit
  <1> QED BY <1>2, <1>3, <1>4, <1>5 DEF SeatPool

\* A step that leaves the pool and the flights alone.
LEMMA SeatsUntouched ==
    ASSUME SeatInv, TypeOK', UNCHANGED <<flights, dispatching, byOrder>>, nextId' >= nextId
    PROVE  SeatInv'
  <1>1. \A o \in Orders : HeldBy(o)' = HeldBy(o)
    BY DEF HeldBy
  <1>2. SeatPool'
    BY <1>1 DEF SeatInv, SeatPool, SeatLimit
  <1>3. \A f \in flights : f.id \in Nat
    BY DEF SeatInv, TypeOK, Flight
  <1>4. \A f \in flights' : f.id < nextId'
    BY <1>3 DEF SeatInv, TypeOK
  <1> QED BY <1>2, <1>4 DEF SeatInv

\* A claim takes a seat exactly when it dispatches.
LEMMA ClaimAndFireSeats ==
    ASSUME SeatInv, TypeOK', NEW s \in Schedules, NEW t \in Task, NEW trigger \in Triggers,
           NEW key, trigger # "manual" => key \in Marker, NEW rs, NEW id \in Nat,
           id >= nextId, ClaimAndFire(s, t, key, trigger, rs, id)
    PROVE  SeatInv'
  <1> DEFINE claimed == IF trigger = "manual" THEN t ELSE [t EXCEPT !.marker = key]
             v == FireVerdict(s, claimed, rs)
             g == [id |-> id, s |-> s, snap |-> claimed, at |-> clock, key |-> key,
                   trigger |-> trigger]
  <1>1. nextId' = id + 1 /\ nextId \in Nat
    BY DEF ClaimAndFire, Claimed, LeaveGuard, SeatInv, TypeOK
  <1>2. CASE v # "dispatch"
    <2>1. UNCHANGED <<flights, dispatching, byOrder>>
      BY <1>2 DEF ClaimAndFire, Claimed, LeaveGuard
    <2> QED BY <1>1, <2>1, SeatsUntouched
  <1>3. CASE v = "dispatch"
    <2>1. flights' = flights \cup {g} /\ ClaimSlot(claimed.conf.order)
      BY <1>3 DEF ClaimAndFire, Claimed, LeaveGuard
    <2>2. DecideSeatAdmission(claimed.conf.order)
      BY <1>3, VerdictFacts
    <2>3. claimed \in Task
      BY DEF Task
    <2>4. g.snap.conf.order = claimed.conf.order /\ g.id = id
      OBVIOUS
    <2>5. g.snap.conf.order \in Orders \cup {NoOrder}
      BY <2>3, <2>4, ConfFacts
    <2>6. \A f \in flights : f.id < nextId /\ f.id \in Nat
      BY DEF SeatInv, TypeOK, Flight
    <2>7. g \notin flights
      BY <1>1, <2>4, <2>6
    <2> HIDE DEF g, claimed
    <2>8. SeatPool' /\ IsFiniteSet(flights')
      BY <2>1, <2>2, <2>4, <2>5, <2>7, ClaimKeepsSeats
    <2>9. \A f \in flights' : f.id < nextId'
      BY <1>1, <2>1, <2>4, <2>6
    <2> QED BY <2>8, <2>9 DEF SeatInv
  <1> QED BY <1>2, <1>3

\* The pool starts empty.
LEMMA SeatInit == Init => SeatInv
  <1> SUFFICES ASSUME Init PROVE SeatInv
    OBVIOUS
  <1>1. TypeOK
    BY InitType
  <1>2. flights = {} /\ dispatching = 0 /\ byOrder = [o \in Orders |-> 0]
    BY DEF Init
  <1>3. IsFiniteSet({}) /\ Cardinality({}) = 0
    BY FS_EmptySet
  <1>4. \A o \in Orders : HeldBy(o) = {}
    BY <1>2 DEF HeldBy
  <1>5. \A o \in Orders : Reservation[o] # Unreserved => 0 <= SeatLimit(o)
    BY SeatLimitType
  <1>6. SeatPool
    BY <1>2, <1>3, <1>4, <1>5, ConstantsAssumption DEF SeatPool
  <1> QED BY <1>1, <1>2, <1>3, <1>6 DEF SeatInv

\* Every step keeps the seat accounts exact and inside their ceilings.
LEMMA SeatNext == ASSUME SeatInv, [Next]_vars PROVE SeatInv'
  <1> USE DEF storeVars, engineVars, envVars, launchVars
  <1>0. TypeOK /\ TypeOK' /\ nextId \in Nat
    BY NextType DEF SeatInv, TypeOK
  <1>1. CASE Boot \/ ReconcileDone \/ Tick \/ TickDone \/ Advance
    <2>1. UNCHANGED <<flights, dispatching, byOrder, nextId>>
      BY <1>1 DEF Boot, ReconcileDone, Tick, TickDone, Advance
    <2> QED BY <1>0, <2>1, SeatsUntouched
  <1>2. CASE Crash
    <2>1. flights' = {} /\ dispatching' = 0 /\ byOrder' = [o \in Orders |-> 0]
      BY <1>2 DEF Crash
    <2>2. IsFiniteSet({}) /\ Cardinality({}) = 0
      BY FS_EmptySet
    <2>3. \A o \in Orders : HeldBy(o)' = {}
      BY <2>1 DEF HeldBy
    <2>4. \A o \in Orders : Reservation[o] # Unreserved => 0 <= SeatLimit(o)'
      BY SeatLimitType DEF SeatLimit
    <2>5. SeatPool'
      BY <2>1, <2>2, <2>3, <2>4, ConstantsAssumption DEF SeatPool
    <2> QED BY <1>0, <2>1, <2>2, <2>5 DEF SeatInv
  <1>3. ASSUME NEW s \in Schedules, Reconcile(s) PROVE SeatInv'
    <2> DEFINE t      == rec.list[s]
               missed == ComputeMissedFires(t, rec.now)
               rs     == runs \cup MissedRows(s, missed)
               id     == nextId + Cardinality(missed)
               rest   == [x \in DOMAIN rec.list \ {s} |-> rec.list[x]]
    <2>1. t \in Task /\ rec.now \in Minutes
      BY <1>0, <1>3 DEF Reconcile, TypeOK
    <2>2. Cardinality(missed) \in Nat
      BY <2>1, MissedFacts
    <2>3. id \in Nat /\ id >= nextId
      BY <1>0, <2>2
    <2> HIDE DEF missed, rs, id, rest
    <2>4. CASE ~ShouldCatchUp(t, missed, rec.now)
      <3>1. UNCHANGED <<flights, dispatching, byOrder>> /\ nextId' = id
        BY <1>3, <2>4 DEF Reconcile, missed, rs, id, rest
      <3> QED BY <1>0, <2>3, <3>1, SeatsUntouched
    <2>5. CASE ShouldCatchUp(t, missed, rec.now)
      <3>1. ClaimAndFire(s, t, WallKey(rec.now), "catchup", rs, id)
        BY <1>3, <2>5 DEF Reconcile, missed, rs, id, rest
      <3>2. WallKey(rec.now) \in Marker
        BY <2>1, WallKeyType
      <3> QED BY <1>0, <2>1, <2>3, <3>1, <3>2, ClaimAndFireSeats DEF Triggers
    <2> QED BY <2>4, <2>5
  <1>4. ASSUME NEW s \in Schedules, ConsiderDue(s) PROVE SeatInv'
    <2>1. tasks[s] \in Task /\ clock \in Minutes
      BY <1>0, <1>4 DEF ConsiderDue, TypeOK
    <2>2. FireKey(tasks[s], clock) \in Marker
      BY <2>1, FireKeyType
    <2>3. ClaimAndFire(s, tasks[s], FireKey(tasks[s], clock), "cron", runs, nextId)
      BY <1>4 DEF ConsiderDue
    <2> QED BY <1>0, <2>1, <2>2, <2>3, ClaimAndFireSeats DEF Triggers
  <1>5. ASSUME NEW s \in Schedules, RunNow(s) PROVE SeatInv'
    <2>1. tasks[s] \in Task
      BY <1>0, <1>5 DEF RunNow, TypeOK
    <2>2. ClaimAndFire(s, tasks[s], ManualKey(clock), "manual", runs, nextId)
      BY <1>5 DEF RunNow
    <2> QED BY <1>0, <2>1, <2>2, ClaimAndFireSeats DEF Triggers
  <1>6. ASSUME NEW s \in Schedules, ConsiderFiring(s) \/ ConsiderNotDue(s) PROVE SeatInv'
    <2>1. UNCHANGED <<flights, dispatching, byOrder>> /\ nextId' \in {nextId, nextId + 1}
      BY <1>6 DEF ConsiderFiring, ConsiderNotDue
    <2> QED BY <1>0, <2>1, SeatsUntouched
  <1>7. ASSUME NEW s \in Schedules, Delete(s) \/ FlipGrant(s) \/ FlipScanner(s) PROVE SeatInv'
    <2>1. UNCHANGED <<flights, dispatching, byOrder, nextId>>
      BY <1>7 DEF Delete, FlipGrant, FlipScanner
    <2> QED BY <1>0, <2>1, SeatsUntouched
  <1>8. ASSUME NEW s \in Schedules, NEW p \in Patches, PatchRead(s, p) PROVE SeatInv'
    BY <1>0, <1>8, SeatsUntouched DEF PatchRead
  <1>9. ASSUME NEW s \in Schedules, NEW c \in Confs, Create(s, c) PROVE SeatInv'
    BY <1>0, <1>9, SeatsUntouched DEF Create
  <1>10. ASSUME NEW f \in flights, NEW ok \in BOOLEAN, Settle(f, ok) PROVE SeatInv'
    <2>1. /\ flights' = flights \ {f} /\ ReleaseSlot(f.snap.conf.order)
          /\ nextId' = nextId + 1
      BY <1>10 DEF Settle, LeaveGuard, ResumeWalk
    <2>2. f.snap \in Task
      BY <1>0 DEF TypeOK, Flight
    <2>3. f.snap.conf.order \in Orders \cup {NoOrder}
      BY <2>2, ConfFacts
    <2>4. SeatPool' /\ IsFiniteSet(flights')
      BY <2>1, <2>3, ReleaseKeepsSeats
    <2>5. \A g \in flights' : g.id < nextId'
      BY <1>0, <2>1 DEF SeatInv, TypeOK, Flight
    <2> QED BY <1>0, <2>4, <2>5 DEF SeatInv
  <1>11. ASSUME NEW e \in edits, PatchWrite(e) \/ PatchRefused(e) PROVE SeatInv'
    <2>1. UNCHANGED <<flights, dispatching, byOrder, nextId>>
      BY <1>11 DEF PatchWrite, PatchRefused
    <2> QED BY <1>0, <2>1, SeatsUntouched
  <1>12. ASSUME NEW c \in alive, ConversationEnds(c) PROVE SeatInv'
    BY <1>0, <1>12, SeatsUntouched DEF ConversationEnds
  <1>13. ASSUME NEW c \in coming, HostBoots(c) \/ NeverComes(c) PROVE SeatInv'
    BY <1>0, <1>13, SeatsUntouched DEF HostBoots, NeverComes
  <1>14. CASE UNCHANGED vars
    BY <1>0, <1>14, SeatsUntouched DEF vars
  <1> QED
    BY <1>1, <1>2, <1>3, <1>4, <1>5, <1>6, <1>7, <1>8, <1>9, <1>10, <1>11, <1>12, <1>13,
       <1>14 DEF Next

\* The scheduler never holds more seats than its ceiling, no order holds more
\* than its reservation, and no path through a fire leaks or double-frees one.
THEOREM SeatsAreBounded == Spec => []SeatPool
  <1>1. Init => SeatInv
    BY SeatInit
  <1>2. SeatInv /\ [Next]_vars => SeatInv'
    BY SeatNext
  <1>3. SeatInv => SeatPool
    BY DEF SeatInv
  <1> QED BY <1>1, <1>2, <1>3, PTL DEF Spec

-----------------------------------------------------------------------------
(* Schedules nobody edits and nobody asks to catch up.  A PATCH writes     *)
(* back a record that may be older than the last stamp, and a catch-up     *)
(* ignores the guard.  Without both, a schedule has one dispatch under way *)
(* at a time, and the record it captured is as good as the row.            *)

Unedited == Limits["edit"] = 0

NoCatchUp == \A c \in Confs : c.catchUp = "skip"

Quiet ==
    /\ TypeOK
    /\ edits = {}
    /\ \A f \in flights : f.s \in firing
    /\ \A f, g \in flights : f.s = g.s => f = g

\* A refused fire: nothing is under way, and the row may have been stamped,
\* disarmed or charged with a failure.
Refused(s, c, rs, id) ==
    /\ UNCHANGED <<flights, fires, coming>> /\ firing' = firing \ {s}
    /\ \/ tasks' = tasks
       \/ \E u \in {c, [c EXCEPT !.enabled = FALSE], SettleTask(c, FALSE, clock)} :
             tasks' = Upsert(s, u)
    /\ \E r : /\ runs' = rs \cup {r} /\ r.id = id /\ r.s = s
              /\ r.outcome \in {"error", "skipped_disabled", "skipped_overlap"}

\* A dispatched fire: it is under way with the record it captured.
Dispatched(s, c, key, trigger, rs, id) ==
    /\ firing' = firing \cup {s} /\ runs' = rs
    /\ tasks' = IF trigger = "manual" THEN tasks ELSE Upsert(s, c)
    /\ flights' = flights \cup {[id |-> id, s |-> s, snap |-> c, at |-> clock, key |-> key,
                                 trigger |-> trigger]}
    /\ fires' = fires \cup {[id |-> id, s |-> s, key |-> key, trigger |-> trigger,
                              skip |-> c.conf.overlap = "skip", unseen |-> Unseen(s, rs)]}
    /\ coming' \subseteq coming \cup {id}

\* A claim ends in a refusal or in a dispatch.
LEMMA ClaimEffect ==
    ASSUME NEW s, NEW t, NEW key, NEW trigger, NEW rs, NEW id,
           ClaimAndFire(s, t, key, trigger, rs, id)
    PROVE  /\ nextId' = id + 1
           /\ \/ Refused(s, Claimed(t, key, trigger), rs, id)
              \/ /\ Dispatched(s, Claimed(t, key, trigger), key, trigger, rs, id)
                 /\ FireVerdict(s, Claimed(t, key, trigger), rs) = "dispatch"
  <1> DEFINE c == Claimed(t, key, trigger)
             v == FireVerdict(s, c, rs)
  <1>1. CASE v = "dispatch"
    BY <1>1 DEF ClaimAndFire, Dispatched
  <1>2. CASE v # "dispatch"
    <2> DEFINE r == Row(id, s, clock, key, trigger, RefusalOutcome(v),
                        IF v = "overlap" THEN LastSpawnedConversationId(rs, s) ELSE NoConv)
    <2>1. r.id = id /\ r.s = s /\ r.outcome = RefusalOutcome(v)
      BY DEF Row
    <2>2. RefusalOutcome(v) \in {"error", "skipped_disabled", "skipped_overlap"}
      BY <1>2, VerdictFacts DEF RefusalOutcome
    <2>3. runs' = rs \cup {r}
      BY <1>2 DEF ClaimAndFire
    <2>4. /\ UNCHANGED <<flights, fires, coming>> /\ firing' = firing \ {s}
          /\ \/ tasks' = tasks
             \/ \E u \in {c, [c EXCEPT !.enabled = FALSE], SettleTask(c, FALSE, clock)} :
                   tasks' = Upsert(s, u)
      BY <1>2 DEF ClaimAndFire, LeaveGuard, launchVars
    <2> HIDE DEF r, c
    <2> QED BY <2>1, <2>2, <2>3, <2>4 DEF Refused, ClaimAndFire, c
  <1> QED BY <1>1, <1>2 DEF ClaimAndFire

\* No PATCH is ever read where no edit is allowed.
LEMMA NoPatchRead ==
    ASSUME TypeOK, Unedited, NEW s, NEW p, PatchRead(s, p) PROVE FALSE
  BY DEF TypeOK, Unedited, PatchRead, Spend, Ops

\* The boot walk only records where no schedule asks to catch up.
LEMMA WalkOnlyRecords ==
    ASSUME TypeOK, NoCatchUp, NEW s \in Schedules, Reconcile(s)
    PROVE  /\ UNCHANGED <<tasks, fires, coming>> /\ UNCHANGED engineVars /\ UNCHANGED envVars
           /\ runs' = runs \cup MissedRows(s, ComputeMissedFires(rec.list[s], rec.now))
           /\ nextId' = nextId + Cardinality(ComputeMissedFires(rec.list[s], rec.now))
           /\ s \in DOMAIN rec.list /\ DOMAIN rec'.list \subseteq DOMAIN rec.list
  <1>1. rec.list[s].conf.catchUp = "skip"
    BY DEF TypeOK, Reconcile, Task, NoCatchUp
  <1>2. ~ShouldCatchUp(rec.list[s], ComputeMissedFires(rec.list[s], rec.now), rec.now)
    BY <1>1 DEF ShouldCatchUp
  <1> QED BY <1>2 DEF Reconcile, TypeOK, launchVars

\* Steps that neither fire nor settle nor write a row.
Calm == /\ UNCHANGED <<tasks, fires, firing, flights, edits, deleted>>
        /\ clock' >= clock

LEMMA CalmSteps ==
    ASSUME TypeOK, NoCatchUp,
           \/ Boot \/ ReconcileDone \/ Tick \/ TickDone \/ Advance
           \/ \E s \in Schedules : \/ Reconcile(s) \/ ConsiderFiring(s)
                                   \/ FlipGrant(s) \/ FlipScanner(s)
           \/ \E c \in alive : ConversationEnds(c)
           \/ \E c \in coming : HostBoots(c) \/ NeverComes(c)
           \/ UNCHANGED vars
    PROVE  Calm
  <1> USE DEF storeVars, engineVars, envVars, launchVars, Calm
  <1>1. clock \in Int
    BY ConstantsAssumption DEF TypeOK, Minutes
  <1>2. CASE Boot \/ ReconcileDone \/ Tick \/ TickDone
    BY <1>1, <1>2 DEF Boot, ReconcileDone, Tick, TickDone
  <1>3. CASE Advance
    BY <1>1, <1>3 DEF Advance
  <1>4. ASSUME NEW s \in Schedules, Reconcile(s) PROVE Calm
    BY <1>1, <1>4, WalkOnlyRecords
  <1>5. ASSUME NEW s \in Schedules, ConsiderFiring(s) PROVE Calm
    BY <1>1, <1>5 DEF ConsiderFiring
  <1>6. ASSUME NEW s \in Schedules, FlipGrant(s) \/ FlipScanner(s) PROVE Calm
    BY <1>1, <1>6 DEF FlipGrant, FlipScanner
  <1>7. ASSUME NEW c \in alive, ConversationEnds(c) PROVE Calm
    BY <1>1, <1>7 DEF ConversationEnds
  <1>8. ASSUME NEW c \in coming, HostBoots(c) \/ NeverComes(c) PROVE Calm
    BY <1>1, <1>8 DEF HostBoots, NeverComes
  <1>9. CASE UNCHANGED vars
    BY <1>1, <1>9 DEF vars
  <1> QED BY <1>2, <1>3, <1>4, <1>5, <1>6, <1>7, <1>8, <1>9

\* A step is calm, or one of the steps that write a row.
LEMMA QuietSteps ==
    ASSUME Quiet, Unedited, NoCatchUp, [Next]_vars
    PROVE  \/ Calm
           \/ Crash
           \/ \E s \in Schedules : \/ ConsiderDue(s) \/ ConsiderNotDue(s) \/ RunNow(s)
                                   \/ Delete(s) \/ \E c \in Confs : Create(s, c)
           \/ \E f \in flights, ok \in BOOLEAN : Settle(f, ok)
  <1>1. TypeOK /\ edits = {}
    BY DEF Quiet
  <1>2. ASSUME NEW s \in Schedules, NEW p \in Patches, PatchRead(s, p) PROVE FALSE
    BY <1>1, <1>2, NoPatchRead
  <1>3. ASSUME NEW e \in edits, PatchWrite(e) \/ PatchRefused(e) PROVE FALSE
    BY <1>1
  <1> QED BY <1>1, <1>2, <1>3, CalmSteps, Zenon DEF Next

\* A claim of a schedule that has nothing under way leaves at most one dispatch.
LEMMA ClaimKeepsQuiet ==
    ASSUME Quiet, TypeOK', edits' = edits, NEW s, s \notin firing, NEW t, NEW key,
           NEW trigger, NEW rs, NEW id, ClaimAndFire(s, t, key, trigger, rs, id)
    PROVE  Quiet'
  <1> DEFINE c == Claimed(t, key, trigger)
  <1>1. Refused(s, c, rs, id) \/ Dispatched(s, c, key, trigger, rs, id)
    BY ClaimEffect
  <1> HIDE DEF c
  <1>2. CASE Refused(s, c, rs, id)
    BY <1>2 DEF Refused, Quiet
  <1>3. CASE Dispatched(s, c, key, trigger, rs, id)
    BY <1>3 DEF Dispatched, Quiet
  <1> QED BY <1>1, <1>2, <1>3

\* A schedule never has two dispatches under way, and the guard covers the one
\* it has.
LEMMA QuietNext ==
    ASSUME Quiet, Unedited, NoCatchUp, [Next]_vars PROVE Quiet'
  <1> USE DEF storeVars, engineVars, envVars, launchVars
  <1>0. TypeOK' /\ TypeOK
    BY NextType DEF Quiet
  <1>1. CASE Calm
    BY <1>0, <1>1 DEF Calm, Quiet
  <1>2. CASE Crash
    BY <1>0, <1>2 DEF Crash, Quiet
  <1>3. ASSUME NEW s \in Schedules, ConsiderDue(s) \/ RunNow(s) PROVE Quiet'
    BY <1>0, <1>3, ClaimKeepsQuiet DEF ConsiderDue, RunNow
  <1>4. ASSUME NEW s \in Schedules, ConsiderNotDue(s) \/ Delete(s) PROVE Quiet'
    BY <1>0, <1>4 DEF ConsiderNotDue, Delete, Quiet
  <1>5. ASSUME NEW s \in Schedules, NEW c \in Confs, Create(s, c) PROVE Quiet'
    BY <1>0, <1>5 DEF Create, Quiet
  <1>6. ASSUME NEW f \in flights, NEW ok \in BOOLEAN, Settle(f, ok) PROVE Quiet'
    <2>1. /\ flights' = flights \ {f} /\ firing' = firing \ {f.s} /\ edits' = edits
      BY <1>6 DEF Settle, LeaveGuard
    <2> QED BY <1>0, <2>1 DEF Quiet
  <1> QED BY <1>1, <1>2, <1>3, <1>4, <1>5, <1>6, QuietSteps

LEMMA QuietInit == Init => Quiet
  BY InitType DEF Init, Quiet

-----------------------------------------------------------------------------
(* At most once per minute.                                                *)

\* Where a wall-clock minute repeats, the schedule has no other due minute in
\* between: the marker remembers one minute only.
RepeatsApart ==
    \A c \in Confs, m, k, n \in Minutes :
        (m < k /\ k < n /\ Wall[m] = Wall[n] /\ Wall[k] \in c.due) => Wall[k] = Wall[m]

\* The record's marker accounts for the fire: it is the fire's own, or that of a
\* later due minute.
Accounts(t, f, now) ==
    IF t.conf.kind = "once"
    THEN t.marker = OnceKey(t.conf.runAt) /\ f.key = t.marker
    ELSE \E m, k \in Minutes : /\ m <= k /\ k <= now
                               /\ f.key = WallKey(m) /\ t.marker = WallKey(k)
                               /\ Wall[k] \in t.conf.due

ClockFires == {f \in fires : f.trigger # "manual"}

MinuteInv ==
    /\ Quiet
    /\ \A f \in fires : f.s \in DOMAIN tasks \cup deleted
    /\ \A f \in ClockFires, s \in DOMAIN tasks : s = f.s => Accounts(tasks[s], f, clock)
    /\ \A f \in ClockFires, g \in flights : g.s = f.s => Accounts(g.snap, f, clock)
    /\ AtMostOncePerMinute

\* Only the definition and the marker matter, and time only adds minutes.
LEMMA AccountsKept ==
    ASSUME NEW t, NEW u, NEW f, NEW now \in Int, NEW later \in Int, now <= later,
           u.conf = t.conf, u.marker = t.marker, Accounts(t, f, now)
    PROVE  Accounts(u, f, later)
  <1>1. CASE t.conf.kind = "once"
    BY <1>1 DEF Accounts
  <1>2. CASE t.conf.kind # "once"
    <2>1. PICK m, k \in Minutes : /\ m <= k /\ k <= now
                                  /\ f.key = WallKey(m) /\ t.marker = WallKey(k)
                                  /\ Wall[k] \in t.conf.due
      BY <1>2 DEF Accounts
    <2>2. k <= later
      BY <2>1, ConstantsAssumption DEF Minutes
    <2> QED BY <1>2, <2>1, <2>2 DEF Accounts
  <1> QED BY <1>1, <1>2

\* Disarming and settling leave the definition and the marker alone.
LEMMA MarkKept ==
    ASSUME NEW t \in Task, NEW ok \in BOOLEAN, NEW at \in Minutes
    PROVE  /\ SettleTask(t, ok, at).conf = t.conf /\ SettleTask(t, ok, at).marker = t.marker
           /\ [t EXCEPT !.enabled = FALSE].conf = t.conf
           /\ [t EXCEPT !.enabled = FALSE].marker = t.marker
  BY DEF SettleTask, Task

\* Why a due minute is new: a fire with its key would lie before another due
\* minute, which RepeatsApart excludes.
LEMMA DueIsNew ==
    ASSUME RepeatsApart, NEW t \in Task, NEW now \in Minutes, DecideFire(t, now) = "fire",
           NEW f, Accounts(t, f, now)
    PROVE  f.key # FireKey(t, now)
  <1>1. CASE t.conf.kind = "once"
    BY <1>1 DEF Accounts, DecideFire, DecideOneShot
  <1>2. CASE t.conf.kind # "once"
    <2>1. PICK m, k \in Minutes : /\ m <= k /\ k <= now
                                  /\ f.key = WallKey(m) /\ t.marker = WallKey(k)
                                  /\ Wall[k] \in t.conf.due
      BY <1>2 DEF Accounts
    <2>2. t.marker # WallKey(now) /\ FireKey(t, now) = WallKey(now)
      BY <1>2 DEF DecideFire, FireKey
    <2>3. SUFFICES ASSUME Wall[m] = Wall[now] PROVE FALSE
      BY <2>1, <2>2 DEF WallKey
    <2>4. Wall[k] # Wall[now]
      BY <2>1, <2>2 DEF WallKey
    <2>5. m \in Int /\ k \in Int /\ now \in Int /\ t.conf \in Confs
      BY ConstantsAssumption DEF Minutes, Task
    <2>6. m # k /\ k # now
      BY <2>3, <2>4
    <2>7. m < k /\ k < now
      BY <2>1, <2>5, <2>6
    <2> QED BY <2>1, <2>3, <2>4, <2>5, <2>7 DEF RepeatsApart
  <1> QED BY <1>1, <1>2

\* The stamp accounts for the fire it announces and for all before it.
LEMMA StampAccounts ==
    ASSUME NEW t \in Task, NEW now \in Minutes, DecideFire(t, now) = "fire",
           NEW c, c = [t EXCEPT !.marker = FireKey(t, now)]
    PROVE  /\ \A f : f.key = FireKey(t, now) => Accounts(c, f, now)
           /\ \A f : Accounts(t, f, now) => Accounts(c, f, now)
  <1>1. c.conf = t.conf /\ c.marker = FireKey(t, now) /\ now \in Int
    BY ConstantsAssumption DEF Task, Minutes
  <1>2. CASE t.conf.kind = "once"
    BY <1>1, <1>2 DEF Accounts, FireKey, DecideFire, DecideOneShot
  <1>3. CASE t.conf.kind # "once"
    <2>1. FireKey(t, now) = WallKey(now) /\ Wall[now] \in t.conf.due
      BY <1>3 DEF DecideFire, FireKey
    <2>2. ASSUME NEW f, f.key = FireKey(t, now) PROVE Accounts(c, f, now)
      BY <1>1, <1>3, <2>1, <2>2 DEF Accounts
    <2>3. ASSUME NEW f, Accounts(t, f, now) PROVE Accounts(c, f, now)
      <3>1. PICK m, k \in Minutes : m <= k /\ k <= now /\ f.key = WallKey(m)
        BY <1>3, <2>3 DEF Accounts
      <3>2. m <= now
        BY <3>1, <1>1, ConstantsAssumption DEF Minutes
      <3> QED BY <1>1, <1>3, <2>1, <3>1, <3>2 DEF Accounts
    <2> QED BY <2>2, <2>3
  <1> QED BY <1>2, <1>3

\* A claim on the clock's behalf is of a new minute; a manual one leaves the
\* marker alone.
LEMMA ClaimMinute ==
    ASSUME MinuteInv, RepeatsApart, Quiet', UNCHANGED <<clock, deleted>>,
           NEW s \in DOMAIN tasks, s \notin firing, NEW key, NEW trigger,
           \/ trigger = "manual"
           \/ trigger = "cron" /\ key = FireKey(tasks[s], clock)
                /\ DecideFire(tasks[s], clock) = "fire",
           ClaimAndFire(s, tasks[s], key, trigger, runs, nextId)
    PROVE  MinuteInv'
  <1> DEFINE t == tasks[s]
             c == Claimed(t, key, trigger)
             g0 == [id |-> nextId, s |-> s, snap |-> c, at |-> clock, key |-> key,
                    trigger |-> trigger]
             f0 == [id |-> nextId, s |-> s, key |-> key, trigger |-> trigger,
                    skip |-> c.conf.overlap = "skip", unseen |-> Unseen(s, runs)]
  <1>1. /\ TypeOK /\ t \in Task /\ clock \in Minutes /\ clock \in Int
        /\ \A g \in flights : g.s # s
    BY ConstantsAssumption DEF MinuteInv, Quiet, TypeOK, Minutes
  <1>2. /\ \A f \in ClockFires : f.s = s => Accounts(t, f, clock)
        /\ \A f \in ClockFires, x \in DOMAIN tasks : x = f.s => Accounts(tasks[x], f, clock)
    BY DEF MinuteInv
  <1>3. \A f \in ClockFires : f.s = s => Accounts(c, f, clock)
    <2>1. CASE trigger = "manual"
      BY <1>2, <2>1 DEF Claimed
    <2>2. CASE trigger # "manual"
      BY <1>1, <1>2, <2>2, StampAccounts DEF Claimed
    <2> QED BY <2>1, <2>2
  <1>4. trigger # "manual" =>
           /\ Accounts(c, f0, clock)
           /\ \A f \in ClockFires : f.s = s => f.key # key
    <2> SUFFICES ASSUME trigger # "manual"
                 PROVE  /\ Accounts(c, f0, clock)
                        /\ \A f \in ClockFires : f.s = s => f.key # key
      OBVIOUS
    <2>1. \A f \in ClockFires : f.s = s => f.key # key
      BY <1>1, <1>2, DueIsNew
    <2>2. f0.key = FireKey(t, clock) /\ DecideFire(t, clock) = "fire"
      OBVIOUS
    <2>3. c = [t EXCEPT !.marker = FireKey(t, clock)]
      BY DEF Claimed
    <2> HIDE DEF f0, c
    <2>4. Accounts(c, f0, clock)
      BY <1>1, <2>2, <2>3, StampAccounts
    <2> QED BY <2>1, <2>4
  <1>5. c \in Task
    <2>1. trigger # "manual" => key \in Marker
      BY <1>1, FireKeyType
    <2> QED BY <1>1, <2>1 DEF Claimed, Task
  <1>6. f0.s = s /\ f0.key = key /\ f0.trigger = trigger /\ g0.s = s /\ g0.snap = c
    OBVIOUS
  <1>7. Refused(s, c, runs, nextId) \/ Dispatched(s, c, key, trigger, runs, nextId)
    BY ClaimEffect
  <1> HIDE DEF c, f0, g0
  <1>8. CASE Refused(s, c, runs, nextId)
    <2>1. flights' = flights /\ fires' = fires
      BY <1>8 DEF Refused
    <2>2. ASSUME NEW u \in {c, [c EXCEPT !.enabled = FALSE], SettleTask(c, FALSE, clock)},
                 tasks' = Upsert(s, u)
          PROVE  \A f \in ClockFires, x \in DOMAIN tasks' : x = f.s => Accounts(tasks'[x], f, clock)
      <3>1. u.conf = c.conf /\ u.marker = c.marker
        <4>1. /\ [c EXCEPT !.enabled = FALSE].conf = c.conf
              /\ [c EXCEPT !.enabled = FALSE].marker = c.marker
          BY <1>1, <1>5, MarkKept
        <4>2. /\ SettleTask(c, FALSE, clock).conf = c.conf
              /\ SettleTask(c, FALSE, clock).marker = c.marker
          BY <1>1, <1>5, MarkKept
        <4> QED BY <2>2, <4>1, <4>2
      <3>2. \A f \in ClockFires : f.s = s => Accounts(u, f, clock)
        BY <1>1, <1>3, <3>1, AccountsKept
      <3> QED BY <1>2, <2>2, <3>2 DEF Upsert
    <2>3. \A f \in ClockFires, x \in DOMAIN tasks' : x = f.s => Accounts(tasks'[x], f, clock)
      BY <1>2, <1>8, <2>2 DEF Refused
    <2>4. DOMAIN tasks \subseteq DOMAIN tasks'
      BY <1>8 DEF Refused, Upsert
    <2> QED BY <2>1, <2>3, <2>4 DEF MinuteInv, ClockFires, AtMostOncePerMinute
  <1>9. CASE Dispatched(s, c, key, trigger, runs, nextId)
    <2>1. flights' = flights \cup {g0} /\ fires' = fires \cup {f0}
      BY <1>9 DEF Dispatched, f0, g0
    <2>2. /\ DOMAIN tasks' = DOMAIN tasks
          /\ \A x \in DOMAIN tasks : tasks'[x] = IF x = s /\ trigger # "manual" THEN c ELSE tasks[x]
      BY <1>9 DEF Dispatched, Upsert
    <2>3. ClockFires' = IF trigger = "manual" THEN ClockFires ELSE ClockFires \cup {f0}
      BY <1>6, <2>1 DEF ClockFires
    <2>4. \A f \in ClockFires' : f.s = s => Accounts(c, f, clock)
      BY <1>3, <1>4, <2>3
    <2>5. ASSUME NEW f \in ClockFires', NEW x \in DOMAIN tasks', x = f.s
          PROVE  Accounts(tasks'[x], f, clock)
      <3>1. CASE x = s /\ trigger # "manual"
        BY <2>2, <2>4, <2>5, <3>1
      <3>2. CASE ~(x = s /\ trigger # "manual")
        BY <1>2, <1>6, <2>2, <2>3, <2>5, <3>2
      <3> QED BY <3>1, <3>2
    <2>6. ASSUME NEW f \in ClockFires', NEW g \in flights', g.s = f.s
          PROVE  Accounts(g.snap, f, clock)
      <3>1. CASE g = g0
        BY <1>6, <2>4, <2>6, <3>1
      <3>2. CASE g # g0
        <4>1. g \in flights /\ g.s # s
          BY <1>1, <2>1, <3>2
        <4>2. f \in ClockFires
          BY <1>6, <2>3, <2>6, <4>1
        <4> QED BY <2>6, <4>1, <4>2 DEF MinuteInv
      <3> QED BY <3>1, <3>2
    <2>7. \A f \in fires' : f.s \in DOMAIN tasks' \cup deleted'
      BY <1>6, <2>1, <2>2 DEF MinuteInv
    <2>8. ASSUME NEW f \in fires', NEW g \in fires', f.s = g.s, f.key = g.key,
                 f.trigger # "manual", g.trigger # "manual"
          PROVE  f = g
      <3>1. CASE f = f0 \/ g = f0
        BY <1>4, <1>6, <2>1, <2>8, <3>1 DEF ClockFires
      <3>2. CASE f # f0 /\ g # f0
        BY <2>1, <2>8, <3>2 DEF MinuteInv, AtMostOncePerMinute
      <3> QED BY <3>1, <3>2
    <2>9. AtMostOncePerMinute'
      BY <2>8 DEF AtMostOncePerMinute
    <2> QED BY <2>5, <2>6, <2>7, <2>9 DEF MinuteInv
  <1> QED BY <1>7, <1>8, <1>9

\* Writing a record that accounts for the schedule's fires keeps the invariant.
LEMMA WriteMinute ==
    ASSUME MinuteInv, Quiet', UNCHANGED <<fires, deleted, clock>>, flights' \subseteq flights,
           NEW s, NEW u, tasks' = Upsert(s, u),
           \A f \in ClockFires : f.s = s => Accounts(u, f, clock)
    PROVE  MinuteInv'
  <1>1. DOMAIN tasks \subseteq DOMAIN tasks'
    BY DEF Upsert
  <1>2. \A f \in ClockFires, x \in DOMAIN tasks' : x = f.s => Accounts(tasks'[x], f, clock)
    BY DEF Upsert, MinuteInv
  <1> QED BY <1>1, <1>2 DEF MinuteInv, ClockFires, AtMostOncePerMinute

LEMMA MinuteNext ==
    ASSUME MinuteInv, Unedited, NoCatchUp, RepeatsApart, [Next]_vars PROVE MinuteInv'
  <1> USE DEF storeVars, engineVars, envVars, launchVars
  <1>0. Quiet /\ Quiet' /\ TypeOK /\ clock \in Minutes /\ clock \in Int
    BY QuietNext, ConstantsAssumption DEF MinuteInv, Quiet, TypeOK, Minutes
  <1>1. CASE Calm
    <2>1. clock' \in Int /\ clock <= clock'
      BY <1>0, <1>1, ConstantsAssumption DEF Calm, Quiet, TypeOK, Minutes
    <2>2. UNCHANGED <<tasks, fires, flights, deleted>>
      BY <1>1 DEF Calm
    <2>3. \A t, f : Accounts(t, f, clock) => Accounts(t, f, clock')
      BY <1>0, <2>1, AccountsKept
    <2> QED BY <1>0, <2>2, <2>3 DEF MinuteInv, ClockFires, AtMostOncePerMinute
  <1>2. CASE Crash
    <2>1. UNCHANGED <<tasks, fires, deleted, clock>> /\ flights' = {}
      BY <1>2 DEF Crash
    <2> QED BY <1>0, <2>1 DEF MinuteInv, ClockFires, AtMostOncePerMinute
  <1>3. ASSUME NEW s \in Schedules, ConsiderDue(s) PROVE MinuteInv'
    <2>1. /\ s \in DOMAIN tasks /\ s \notin firing /\ UNCHANGED <<clock, deleted>>
          /\ DecideFire(tasks[s], clock) = "fire"
          /\ ClaimAndFire(s, tasks[s], FireKey(tasks[s], clock), "cron", runs, nextId)
      BY <1>0, <1>3 DEF ConsiderDue, TypeOK
    <2> QED BY <1>0, <2>1, ClaimMinute
  <1>4. ASSUME NEW s \in Schedules, RunNow(s) PROVE MinuteInv'
    <2>1. /\ s \in DOMAIN tasks /\ s \notin firing /\ UNCHANGED <<clock, deleted>>
          /\ ClaimAndFire(s, tasks[s], ManualKey(clock), "manual", runs, nextId)
      BY <1>4 DEF RunNow
    <2> QED BY <1>0, <2>1, ClaimMinute
  <1>5. ASSUME NEW s \in Schedules, ConsiderNotDue(s) PROVE MinuteInv'
    <2> DEFINE t == tasks[s]
               off == [t EXCEPT !.enabled = FALSE]
    <2>1. /\ s \in DOMAIN tasks /\ UNCHANGED <<fires, flights, clock, deleted>>
          /\ tasks' = tasks \/ tasks' = Upsert(s, off)
      BY <1>0, <1>5 DEF ConsiderNotDue, TypeOK
    <2>2. t \in Task /\ off.conf = t.conf /\ off.marker = t.marker
      BY <1>0, <2>1, MarkKept DEF TypeOK
    <2>3. \A f \in ClockFires : f.s = s => Accounts(t, f, clock)
      BY <2>1 DEF MinuteInv
    <2> HIDE DEF t, off
    <2>4. \A f \in ClockFires : f.s = s => Accounts(off, f, clock)
      BY <1>0, <2>2, <2>3, AccountsKept
    <2>5. CASE tasks' = tasks
      BY <1>0, <2>1, <2>5 DEF MinuteInv, ClockFires, AtMostOncePerMinute
    <2>6. CASE tasks' = Upsert(s, off)
      BY <1>0, <2>1, <2>4, <2>6, WriteMinute
    <2> QED BY <2>1, <2>5, <2>6
  <1>6. ASSUME NEW s \in Schedules, Delete(s) PROVE MinuteInv'
    <2>1. /\ DOMAIN tasks' = DOMAIN tasks \ {s} /\ deleted' = deleted \cup {s}
          /\ \A x \in DOMAIN tasks' : tasks'[x] = tasks[x]
          /\ UNCHANGED <<fires, flights, clock>>
      BY <1>6 DEF Delete
    <2> QED BY <1>0, <2>1 DEF MinuteInv, ClockFires, AtMostOncePerMinute
  <1>7. ASSUME NEW s \in Schedules, NEW c \in Confs, Create(s, c) PROVE MinuteInv'
    <2>1. PICK u : tasks' = Upsert(s, u)
      BY <1>7 DEF Create
    <2>2. s \notin DOMAIN tasks \cup deleted /\ UNCHANGED <<fires, flights, clock, deleted>>
      BY <1>7 DEF Create
    <2>3. \A f \in ClockFires : f.s # s
      BY <2>2 DEF MinuteInv, ClockFires
    <2> QED BY <1>0, <2>1, <2>2, <2>3, WriteMinute
  <1>8. ASSUME NEW f \in flights, NEW ok \in BOOLEAN, Settle(f, ok) PROVE MinuteInv'
    <2> DEFINE u == SettleTask(f.snap, ok, f.at)
    <2>1. /\ tasks' = Upsert(f.s, u) /\ flights' \subseteq flights
          /\ UNCHANGED <<fires, clock, deleted>>
      BY <1>8 DEF Settle
    <2>2. f.snap \in Task /\ f.at \in Minutes
      BY <1>0 DEF TypeOK, Flight
    <2>3. u.conf = f.snap.conf /\ u.marker = f.snap.marker
      BY <2>2, MarkKept
    <2>4. \A g \in ClockFires : g.s = f.s => Accounts(f.snap, g, clock)
      BY DEF MinuteInv
    <2> HIDE DEF u
    <2>5. \A g \in ClockFires : g.s = f.s => Accounts(u, g, clock)
      BY <1>0, <2>3, <2>4, AccountsKept
    <2> QED BY <1>0, <2>1, <2>5, WriteMinute
  <1> QED BY <1>0, <1>1, <1>2, <1>3, <1>4, <1>5, <1>6, <1>7, <1>8, QuietSteps

\* A schedule that nobody edits and that does not catch up is fired by the clock
\* at most once per wall-clock minute: through crashes, restarts, drifting
\* ticks, slow dispatches, manual runs, deletes, and repeated hours in which it
\* has no other due minute between a minute and its repetition.
THEOREM FiresOncePerMinute ==
    ASSUME Unedited, NoCatchUp, RepeatsApart
    PROVE  Spec => []AtMostOncePerMinute
  <1>1. Init => MinuteInv
    BY QuietInit DEF Init, MinuteInv, ClockFires, AtMostOncePerMinute
  <1>2. MinuteInv /\ [Next]_vars => MinuteInv'
    BY MinuteNext
  <1>3. MinuteInv => AtMostOncePerMinute
    BY DEF MinuteInv
  <1> QED BY <1>1, <1>2, <1>3, PTL DEF Spec

-----------------------------------------------------------------------------
(* The run budget.  A deletion forgets the runs while a dispatch may still *)
(* bring its row back, so nothing is deleted here either.                  *)

Undeleted == Limits["delete"] = 0

IsLaunch(r) == r.outcome \in {"spawned", "swept", "armed"}

Automatic(s) == {r \in Launched(s) : r.trigger # "manual"}

\* A flight's record counts what the row counts, and a flight of the clock was
\* admitted below the ceiling.
CountsAgree(f) ==
    /\ f.s \in DOMAIN tasks
    /\ f.snap.runCount = tasks[f.s].runCount /\ f.snap.conf = tasks[f.s].conf
    /\ (f.trigger # "manual" /\ f.snap.conf.maxRuns # NoTime)
          => f.snap.runCount < f.snap.conf.maxRuns

BudgetInv ==
    /\ Quiet
    /\ IsFiniteSet(runs)
    /\ \A r \in runs : r.id < nextId /\ r.s \in DOMAIN tasks
    /\ DOMAIN rec.list \subseteq DOMAIN tasks
    /\ \A f \in flights : CountsAgree(f)
    /\ RunBudget

\* What a record counts and what it may count are numbers.
LEMMA CountFacts ==
    ASSUME NEW t \in Task
    PROVE  /\ t.runCount \in Nat /\ t.conf.maxRuns \in Nat \cup {NoTime}
           /\ [t EXCEPT !.enabled = FALSE].conf = t.conf
           /\ [t EXCEPT !.enabled = FALSE].runCount = t.runCount
           /\ \A at : /\ SettleTask(t, FALSE, at).conf = t.conf
                      /\ SettleTask(t, FALSE, at).runCount = t.runCount
           /\ \A at : /\ SettleTask(t, TRUE, at).conf = t.conf
                      /\ SettleTask(t, TRUE, at).runCount = t.runCount + 1
  <1>1. t.conf \in Conf
    BY ConfFacts
  <1> QED BY <1>1 DEF Task, Conf, SettleTask

\* The rows of missed minutes are finitely many, have fresh ids and launch nothing.
LEMMA MissedRowsFacts ==
    ASSUME TypeOK, NEW s, NEW t \in Task, NEW now \in Minutes
    PROVE  LET missed == ComputeMissedFires(t, now)
           IN  /\ IsFiniteSet(MissedRows(s, missed))
               /\ \A r \in MissedRows(s, missed) :
                     r.id < nextId + Cardinality(missed) /\ r.s = s /\ ~IsLaunch(r)
  <1> DEFINE missed == ComputeMissedFires(t, now)
             Id(m) == nextId + Cardinality({x \in missed : x < m})
             MRow(m) == Row(Id(m), s, m, WallKey(m), "cron", "missed", NoConv)
  <1>1. IsFiniteSet(missed) /\ missed \subseteq Minutes /\ nextId \in Nat
    BY MissedFacts DEF TypeOK
  <1> HIDE DEF missed
  <1>2. ASSUME NEW m \in missed PROVE Id(m) < nextId + Cardinality(missed)
    <2> DEFINE earlier == {x \in missed : x < m}
    <2>1. m \notin earlier /\ earlier \subseteq missed \ {m}
      BY <1>1, ConstantsAssumption DEF Minutes
    <2>2. IsFiniteSet(missed \ {m}) /\ Cardinality(missed \ {m}) = Cardinality(missed) - 1
      BY <1>1, FS_RemoveElement
    <2>3. Cardinality(earlier) <= Cardinality(missed \ {m}) /\ IsFiniteSet(earlier)
      BY <2>1, <2>2, FS_Subset
    <2>4. Cardinality(earlier) \in Nat /\ Cardinality(missed) \in Nat
      BY <1>1, <2>3, FS_CardinalityType
    <2> QED BY <1>1, <2>2, <2>3, <2>4
  <1>3. MissedRows(s, missed) = {MRow(m) : m \in missed}
    BY DEF MissedRows
  <1>4. IsFiniteSet(MissedRows(s, missed))
    <2> DEFINE F == [m \in missed |-> MRow(m)]
    <2> HIDE DEF MRow
    <2>1. F \in Surjection(missed, MissedRows(s, missed))
      BY <1>3 DEF Surjection
    <2> QED BY <1>1, <2>1, FS_Surjection
  <1>5. ASSUME NEW r \in MissedRows(s, missed)
        PROVE  r.id < nextId + Cardinality(missed) /\ r.s = s /\ ~IsLaunch(r)
    <2>1. PICK m \in missed : r = MRow(m)
      BY <1>3
    <2>2. r.id = Id(m) /\ r.s = s /\ r.outcome = "missed"
      BY <2>1 DEF Row
    <2> HIDE DEF Id
    <2> QED BY <1>2, <2>2 DEF IsLaunch
  <1> QED BY <1>4, <1>5 DEF missed

\* One more row: what it adds to the launches of a schedule.
LEMMA LaunchedAdd ==
    ASSUME IsFiniteSet(runs), NEW r, r \notin runs, IsLaunch(r), runs' = runs \cup {r}, NEW s
    PROVE  /\ IsFiniteSet(Launched(s)) /\ IsFiniteSet(Automatic(s))
           /\ Cardinality(Automatic(s)) <= Cardinality(Launched(s))
           /\ Cardinality(Launched(s)') = IF r.s = s THEN Cardinality(Launched(s)) + 1
                                          ELSE Cardinality(Launched(s))
           /\ Cardinality(Automatic(s)') = IF r.s = s /\ r.trigger # "manual"
                                           THEN Cardinality(Automatic(s)) + 1
                                           ELSE Cardinality(Automatic(s))
  <1>1. IsFiniteSet(Launched(s)) /\ r \notin Launched(s)
    BY FS_Subset DEF Launched
  <1>2. IsFiniteSet(Automatic(s)) /\ Cardinality(Automatic(s)) <= Cardinality(Launched(s))
        /\ r \notin Automatic(s)
    BY <1>1, FS_Subset DEF Automatic
  <1>3. Launched(s)' = IF r.s = s THEN Launched(s) \cup {r} ELSE Launched(s)
    BY DEF Launched, IsLaunch
  <1>4. Automatic(s)' = IF r.s = s /\ r.trigger # "manual"
                        THEN Automatic(s) \cup {r} ELSE Automatic(s)
    BY <1>3 DEF Automatic
  <1> QED BY <1>1, <1>2, <1>3, <1>4, FS_AddElement

\* Bookkeeping: rows without a launch, records that count as before, fresh records
\* that count nothing.
Books(extra) ==
    /\ IsFiniteSet(extra) /\ runs' = runs \cup extra
    /\ \A r \in extra : r.id < nextId' /\ r.s \in DOMAIN tasks' /\ ~IsLaunch(r)
    /\ nextId' \in Nat /\ nextId <= nextId' /\ flights' \subseteq flights
    /\ DOMAIN tasks \subseteq DOMAIN tasks' /\ DOMAIN rec'.list \subseteq DOMAIN tasks'
    /\ \A x \in DOMAIN tasks' :
          IF x \in DOMAIN tasks
          THEN tasks'[x].conf = tasks[x].conf /\ tasks'[x].runCount = tasks[x].runCount
          ELSE tasks'[x].runCount = 0

\* Bookkeeping launches nothing and stays within every budget.
LEMMA BooksKept == ASSUME BudgetInv, Quiet', NEW extra, Books(extra) PROVE BudgetInv'
  <1>1. IsFiniteSet(runs')
    BY FS_Union DEF BudgetInv, Books
  <1>2. \A r \in runs' : r.id < nextId' /\ r.s \in DOMAIN tasks'
    BY DEF BudgetInv, Quiet, TypeOK, Run, Books
  <1>3. \A f \in flights' : CountsAgree(f)'
    BY DEF BudgetInv, CountsAgree, Books
  <1>4. \A x : Launched(x)' = Launched(x)
    BY DEF Launched, IsLaunch, Books
  <1>5. ASSUME NEW x \in DOMAIN tasks'
        PROVE  /\ tasks'[x].runCount = Cardinality(Launched(x))
               /\ tasks'[x].conf.maxRuns # NoTime =>
                     Cardinality({r \in Launched(x) : r.trigger # "manual"})
                        <= tasks'[x].conf.maxRuns
    <2>1. CASE x \in DOMAIN tasks
      BY <2>1 DEF BudgetInv, RunBudget, Books
    <2>2. CASE x \notin DOMAIN tasks
      <3>1. Launched(x) = {} /\ {r \in Launched(x) : r.trigger # "manual"} = {}
        BY <2>2 DEF BudgetInv, Launched
      <3>2. Cardinality({}) = 0
        BY FS_EmptySet
      <3>3. tasks'[x] \in Task
        BY DEF Quiet, TypeOK
      <3>4. tasks'[x].conf.maxRuns \in Nat \cup {NoTime}
        BY <3>3, CountFacts
      <3>5. tasks'[x].conf.maxRuns # NoTime => 0 <= tasks'[x].conf.maxRuns
        BY <3>4
      <3> QED BY <2>2, <3>1, <3>2, <3>5 DEF Books
    <2> QED BY <2>1, <2>2
  <1>6. RunBudget'
    BY <1>4, <1>5 DEF RunBudget
  <1> QED BY <1>1, <1>2, <1>3, <1>6 DEF BudgetInv, Books

\* A schedule with nothing under way is dispatched, by hand or because it is due.
Started(s, key, trigger) ==
    LET c == Claimed(tasks[s], key, trigger)
    IN  /\ s \in DOMAIN tasks /\ s \notin firing /\ UNCHANGED <<rec, clock>>
        /\ trigger # "manual" => DecideFire(tasks[s], clock) = "fire" /\ key \in Marker
        /\ FireVerdict(s, c, runs) = "dispatch"
        /\ nextId' = nextId + 1
        /\ Dispatched(s, c, key, trigger, runs, nextId)

\* The stamp changes neither the definition nor the count.
LEMMA ClaimedFacts ==
    ASSUME NEW t \in Task, NEW key, NEW trigger, trigger # "manual" => key \in Marker
    PROVE  /\ Claimed(t, key, trigger) \in Task
           /\ Claimed(t, key, trigger).conf = t.conf
           /\ Claimed(t, key, trigger).runCount = t.runCount
  BY DEF Claimed, Task

\* A claim is bookkeeping or starts a dispatch.
LEMMA ClaimKinds ==
    ASSUME BudgetInv, UNCHANGED <<rec, clock>>, NEW s \in DOMAIN tasks,
           s \notin firing, NEW key, NEW trigger,
           trigger # "manual" => DecideFire(tasks[s], clock) = "fire" /\ key \in Marker,
           ClaimAndFire(s, tasks[s], key, trigger, runs, nextId)
    PROVE  (\E extra : Books(extra)) \/ Started(s, key, trigger)
  <1> DEFINE t == tasks[s]
             c == Claimed(t, key, trigger)
  <1>1. TypeOK /\ t \in Task /\ nextId \in Nat /\ clock <= clock'
    BY ConstantsAssumption DEF BudgetInv, Quiet, TypeOK, Minutes
  <1>2. c \in Task /\ c.conf = t.conf /\ c.runCount = t.runCount
    BY <1>1, ClaimedFacts
  <1>3. nextId' = nextId + 1 /\ DOMAIN rec'.list \subseteq DOMAIN tasks
    BY ClaimEffect DEF BudgetInv
  <1>4. \/ Refused(s, c, runs, nextId)
        \/ /\ Dispatched(s, c, key, trigger, runs, nextId)
           /\ FireVerdict(s, c, runs) = "dispatch"
    BY ClaimEffect
  <1> HIDE DEF c
  <1>5. CASE Refused(s, c, runs, nextId)
    <2>1. /\ DOMAIN tasks' = DOMAIN tasks /\ flights' = flights
          /\ \A x \in DOMAIN tasks : /\ tasks'[x].conf = tasks[x].conf
                                     /\ tasks'[x].runCount = tasks[x].runCount
      <3>1. CASE tasks' = tasks
        BY <1>5, <3>1 DEF Refused
      <3>2. ASSUME NEW u \in {c, [c EXCEPT !.enabled = FALSE], SettleTask(c, FALSE, clock)},
                   tasks' = Upsert(s, u)
            PROVE  /\ DOMAIN tasks' = DOMAIN tasks /\ flights' = flights
                   /\ \A x \in DOMAIN tasks : /\ tasks'[x].conf = tasks[x].conf
                                              /\ tasks'[x].runCount = tasks[x].runCount
        <4>1. u.conf = c.conf /\ u.runCount = c.runCount
          <5>1. [c EXCEPT !.enabled = FALSE].conf = c.conf
                /\ [c EXCEPT !.enabled = FALSE].runCount = c.runCount
            BY <1>2, CountFacts
          <5>2. SettleTask(c, FALSE, clock).conf = c.conf
                /\ SettleTask(c, FALSE, clock).runCount = c.runCount
            BY <1>2, CountFacts
          <5> QED BY <3>2, <5>1, <5>2
        <4> QED BY <1>2, <1>5, <3>2, <4>1 DEF Refused, Upsert
      <3> QED BY <1>5, <3>1, <3>2 DEF Refused
    <2>2. PICK r : /\ runs' = runs \cup {r} /\ r.id = nextId /\ r.s = s
                   /\ r.outcome \in {"error", "skipped_disabled", "skipped_overlap"}
      BY <1>5 DEF Refused
    <2>3. IsFiniteSet({r}) /\ ~IsLaunch(r)
      BY <2>2, FS_Singleton DEF IsLaunch
    <2>4. Books({r})
      BY <1>1, <1>3, <2>1, <2>2, <2>3 DEF Books
    <2> QED BY <2>4
  <1>6. CASE Dispatched(s, c, key, trigger, runs, nextId) /\ FireVerdict(s, c, runs) = "dispatch"
    BY <1>3, <1>6 DEF Started, c
  <1> QED BY <1>4, <1>5, <1>6

\* A start counts nothing yet, and one of the clock's is below the ceiling.
LEMMA StartBudget ==
    ASSUME BudgetInv, Quiet', NEW s, NEW key, NEW trigger, Started(s, key, trigger)
    PROVE  BudgetInv'
  <1> DEFINE t == tasks[s]
             c == Claimed(t, key, trigger)
             g0 == [id |-> nextId, s |-> s, snap |-> c, at |-> clock, key |-> key,
                    trigger |-> trigger]
  <1>1. /\ TypeOK /\ t \in Task /\ nextId \in Nat /\ s \in DOMAIN tasks
        /\ nextId' = nextId + 1 /\ DOMAIN rec'.list \subseteq DOMAIN tasks
        /\ Dispatched(s, c, key, trigger, runs, nextId)
        /\ trigger # "manual" => DecideFire(t, clock) = "fire" /\ key \in Marker
    BY DEF BudgetInv, Quiet, TypeOK, Started
  <1>2. c \in Task /\ c.conf = t.conf /\ c.runCount = t.runCount
    BY <1>1, ClaimedFacts
  <1> HIDE DEF c, g0
  <1>3. /\ DOMAIN tasks' = DOMAIN tasks
        /\ \A x \in DOMAIN tasks : /\ tasks'[x].conf = tasks[x].conf
                                   /\ tasks'[x].runCount = tasks[x].runCount
    BY <1>2, <1>1 DEF Dispatched, Upsert
  <1>4. runs' = runs /\ flights' = flights \cup {g0}
    BY <1>1 DEF Dispatched, g0
  <1>5. /\ g0.s = s /\ g0.snap = c /\ g0.trigger = trigger
    BY DEF g0
  <1>6. trigger # "manual" /\ t.conf.maxRuns # NoTime => t.runCount < t.conf.maxRuns
    <2>1. t.runCount \in Nat /\ t.conf.maxRuns \in Nat \cup {NoTime}
      BY <1>1, CountFacts
    <2>2. trigger # "manual" /\ t.conf.maxRuns # NoTime => ~(t.runCount >= t.conf.maxRuns)
      BY <1>1 DEF DecideFire, RunsUsedUp
    <2>3. CASE trigger # "manual" /\ t.conf.maxRuns # NoTime
      <3>1. t.conf.maxRuns \in Nat
        BY <2>1, <2>3
      <3> QED BY <2>1, <2>2, <2>3, <3>1
    <2> QED BY <2>3
  <1>7. \A f \in flights : CountsAgree(f)
    BY DEF BudgetInv
  <1>8. ASSUME NEW f \in flights' PROVE CountsAgree(f)'
    <2>1. CASE f \in flights
      BY <1>3, <1>7, <2>1 DEF CountsAgree
    <2>2. CASE f = g0
      BY <1>1, <1>2, <1>3, <1>5, <1>6, <2>2 DEF CountsAgree
    <2> QED BY <1>4, <2>1, <2>2
  <1>9. \A f \in flights' : CountsAgree(f)'
    BY <1>8
  <1>10. RunBudget'
    BY <1>3, <1>4 DEF BudgetInv, RunBudget, Launched
  <1>11. \A r \in runs' : r.id < nextId' /\ r.s \in DOMAIN tasks'
    BY <1>1, <1>3, <1>4 DEF BudgetInv, TypeOK, Run
  <1> QED BY <1>1, <1>3, <1>4, <1>9, <1>10, <1>11 DEF BudgetInv

\* A dispatch that succeeds is counted once, in the row and in the history.
LEMMA SettleBudget ==
    ASSUME BudgetInv, Quiet', NEW f \in flights, Settle(f, TRUE) PROVE BudgetInv'
  <1> DEFINE r == Row(nextId, f.s, f.at, f.key, f.trigger, RunOutcome(f.snap.conf.action),
                      IF f.snap.conf.action = "spawn" THEN f.id ELSE NoConv)
             u == SettleTask(f.snap, TRUE, f.at)
             t == tasks[f.s]
  <1>1. /\ TypeOK /\ f \in Flight /\ f.snap \in Task /\ nextId \in Nat /\ IsFiniteSet(runs)
        /\ \A g \in flights : g.s = f.s => g = f
    BY DEF BudgetInv, Quiet, TypeOK, Flight
  <1>2. /\ f.s \in DOMAIN tasks /\ f.snap.runCount = t.runCount /\ f.snap.conf = t.conf
        /\ (f.trigger # "manual" /\ t.conf.maxRuns # NoTime) => t.runCount < t.conf.maxRuns
    BY DEF BudgetInv, CountsAgree
  <1>3. t \in Task /\ t.runCount \in Nat /\ t.conf.maxRuns \in Nat \cup {NoTime}
    BY <1>1, <1>2, CountFacts DEF TypeOK
  <1>4. u.conf = t.conf /\ u.runCount = t.runCount + 1
    <2>1. u.conf = f.snap.conf /\ u.runCount = f.snap.runCount + 1
      BY <1>1, CountFacts
    <2> QED BY <1>2, <2>1
  <1>5. RunOutcome(f.snap.conf.action) \in {"spawned", "swept", "armed"}
    <2>1. f.snap.conf.action \in {"spawn", "board-sweep", "epic-start"}
      BY <1>1, ConfFacts DEF Conf
    <2> QED BY <2>1 DEF RunOutcome
  <1>6. r.id = nextId /\ r.s = f.s /\ r.trigger = f.trigger /\ IsLaunch(r)
    BY <1>5 DEF Row, IsLaunch
  <1>7. /\ tasks' = Upsert(f.s, u) /\ runs' = runs \cup {r} /\ nextId' = nextId + 1
        /\ flights' = flights \ {f} /\ rec'.list = rec.list
    BY <1>1 DEF Settle, ResumeWalk, TypeOK
  <1>8. r \notin runs
    BY <1>1, <1>6 DEF BudgetInv, TypeOK, Run
  <1> HIDE DEF r, u
  <1>9. /\ DOMAIN tasks' = DOMAIN tasks
        /\ \A x \in DOMAIN tasks : tasks'[x] = IF x = f.s THEN u ELSE tasks[x]
    BY <1>2, <1>7 DEF Upsert
  <1>10. \A g \in flights' : CountsAgree(g)'
    BY <1>1, <1>7, <1>9 DEF BudgetInv, CountsAgree
  <1>11. IsFiniteSet(runs') /\ \A q \in runs' : q.id < nextId' /\ q.s \in DOMAIN tasks'
    <2>1. IsFiniteSet({r})
      BY FS_Singleton
    <2>2. IsFiniteSet(runs')
      BY <1>1, <1>7, <2>1, FS_Union
    <2>3. \A q \in runs : q.id < nextId /\ q.id \in Nat /\ q.s \in DOMAIN tasks
      BY <1>1 DEF BudgetInv, TypeOK, Run
    <2> QED BY <1>1, <1>2, <1>6, <1>7, <1>9, <2>2, <2>3
  <1>12. ASSUME NEW x \in DOMAIN tasks'
         PROVE  /\ tasks'[x].runCount = Cardinality(Launched(x)')
                /\ tasks'[x].conf.maxRuns # NoTime =>
                      Cardinality(Automatic(x)') <= tasks'[x].conf.maxRuns
    <2>1. /\ tasks[x].runCount = Cardinality(Launched(x)) /\ x \in DOMAIN tasks
          /\ tasks[x].conf.maxRuns # NoTime =>
                Cardinality(Automatic(x)) <= tasks[x].conf.maxRuns
      BY <1>9 DEF BudgetInv, RunBudget, Automatic
    <2>2. /\ IsFiniteSet(Launched(x)) /\ IsFiniteSet(Automatic(x))
          /\ Cardinality(Automatic(x)) <= Cardinality(Launched(x))
          /\ Cardinality(Launched(x)') = IF f.s = x THEN Cardinality(Launched(x)) + 1
                                         ELSE Cardinality(Launched(x))
          /\ Cardinality(Automatic(x)') = IF f.s = x /\ f.trigger # "manual"
                                          THEN Cardinality(Automatic(x)) + 1
                                          ELSE Cardinality(Automatic(x))
      BY <1>1, <1>6, <1>7, <1>8, LaunchedAdd
    <2>3. Cardinality(Launched(x)) \in Nat /\ Cardinality(Automatic(x)) \in Nat
      BY <2>2, FS_CardinalityType
    <2>4. CASE x # f.s
      BY <1>9, <2>1, <2>2, <2>4
    <2>5. CASE x = f.s
      <3>1. tasks'[x].runCount = Cardinality(Launched(x)')
        BY <1>4, <1>9, <2>1, <2>2, <2>5
      <3>2. CASE f.trigger = "manual"
        BY <1>4, <1>9, <2>1, <2>2, <2>5, <3>1, <3>2
      <3>3. CASE f.trigger # "manual" /\ t.conf.maxRuns # NoTime
        <4>1. t.conf.maxRuns \in Nat /\ t.runCount < t.conf.maxRuns
          BY <1>2, <1>3, <3>3
        <4>2. Cardinality(Automatic(x)') = Cardinality(Automatic(x)) + 1
          BY <2>2, <2>5, <3>3
        <4>3. Cardinality(Automatic(x)) <= t.runCount
          BY <2>1, <2>2, <2>5
        <4>4. Cardinality(Automatic(x)') <= t.conf.maxRuns
          BY <1>3, <2>3, <4>1, <4>2, <4>3
        <4> QED BY <1>4, <1>9, <2>1, <2>5, <3>1, <4>4
      <3>4. CASE f.trigger # "manual" /\ t.conf.maxRuns = NoTime
        BY <1>4, <1>9, <2>1, <2>5, <3>1, <3>4
      <3> QED BY <3>2, <3>3, <3>4
    <2> QED BY <2>4, <2>5
  <1>13. RunBudget'
    BY <1>12 DEF RunBudget, Automatic
  <1> QED BY <1>7, <1>9, <1>10, <1>11, <1>13 DEF BudgetInv

\* A calm step adds at most the rows of missed minutes.
LEMMA CalmBooks ==
    ASSUME BudgetInv, NoCatchUp,
           \/ Boot \/ ReconcileDone \/ Tick \/ TickDone \/ Advance
           \/ \E s \in Schedules : \/ Reconcile(s) \/ ConsiderFiring(s)
                                   \/ FlipGrant(s) \/ FlipScanner(s)
           \/ \E c \in alive : ConversationEnds(c)
           \/ \E c \in coming : HostBoots(c) \/ NeverComes(c)
           \/ UNCHANGED vars
    PROVE  \E extra : Books(extra)
  <1> USE DEF storeVars, engineVars, envVars, launchVars
  <1>0. /\ TypeOK /\ nextId \in Nat /\ IsFiniteSet({}) /\ DOMAIN rec.list \subseteq DOMAIN tasks
        /\ clock \in Int
    BY FS_EmptySet, ConstantsAssumption DEF BudgetInv, Quiet, TypeOK, Minutes
  <1>1. CASE /\ UNCHANGED <<tasks, runs, nextId, flights>>
             /\ DOMAIN rec'.list \subseteq DOMAIN tasks
    <2>1. Books({})
      BY <1>0, <1>1 DEF Books
    <2> QED BY <2>1
  <1>2. CASE Boot
    BY <1>0, <1>1, <1>2 DEF Boot, Enabled
  <1>3. CASE ReconcileDone
    BY <1>0, <1>1, <1>3 DEF ReconcileDone, NoWalk
  <1>4. CASE Tick \/ TickDone \/ Advance \/ UNCHANGED vars
    BY <1>0, <1>1, <1>4 DEF Tick, TickDone, Advance, vars
  <1>5. ASSUME NEW s \in Schedules, ConsiderFiring(s) \/ FlipGrant(s) \/ FlipScanner(s)
        PROVE  \E extra : Books(extra)
    BY <1>0, <1>1, <1>5 DEF ConsiderFiring, FlipGrant, FlipScanner
  <1>6. ASSUME NEW c \in alive, ConversationEnds(c) PROVE \E extra : Books(extra)
    BY <1>0, <1>1, <1>6 DEF ConversationEnds
  <1>7. ASSUME NEW s \in Schedules, Reconcile(s) PROVE \E extra : Books(extra)
    <2> DEFINE missed == ComputeMissedFires(rec.list[s], rec.now)
               extra  == MissedRows(s, missed)
    <2>1. rec.list[s] \in Task /\ rec.now \in Minutes /\ s \in DOMAIN tasks
      <3>1. s \in DOMAIN rec.list
        BY <1>0, <1>7, WalkOnlyRecords
      <3>2. rec.list[s] \in Task /\ rec.now \in Minutes
        BY <1>0, <3>1 DEF TypeOK
      <3> QED BY <1>0, <3>1, <3>2
    <2>2. /\ UNCHANGED <<tasks, flights>> /\ runs' = runs \cup extra
          /\ nextId' = nextId + Cardinality(missed) /\ DOMAIN rec'.list \subseteq DOMAIN rec.list
      BY <1>0, <1>7, WalkOnlyRecords
    <2>3. /\ IsFiniteSet(extra)
          /\ \A r \in extra : r.id < nextId + Cardinality(missed) /\ r.s = s /\ ~IsLaunch(r)
      BY <1>0, <2>1, MissedRowsFacts
    <2>4. Cardinality(missed) \in Nat
      BY <2>1, MissedFacts
    <2> HIDE DEF missed, extra
    <2>5. nextId' \in Nat /\ nextId <= nextId'
      BY <1>0, <2>2, <2>4
    <2>6. Books(extra)
      BY <1>0, <2>1, <2>2, <2>3, <2>5 DEF Books
    <2> QED BY <2>6
  <1>8. ASSUME NEW c \in coming, HostBoots(c) \/ NeverComes(c) PROVE \E extra : Books(extra)
    BY <1>0, <1>1, <1>8 DEF HostBoots, NeverComes
  <1> QED BY <1>2, <1>3, <1>4, <1>5, <1>6, <1>7, <1>8

\* A failed dispatch is bookkeeping: its record counts what the row counts.
LEMMA FailureBooks ==
    ASSUME BudgetInv, NEW f \in flights, Settle(f, FALSE)
    PROVE  \E extra : Books(extra)
  <1> DEFINE u == SettleTask(f.snap, FALSE, f.at)
             row == Row(nextId, f.s, f.at, f.key, f.trigger, "error", NoConv)
  <1>0. /\ TypeOK /\ nextId \in Nat /\ clock \in Int /\ f.snap \in Task
        /\ DOMAIN rec.list \subseteq DOMAIN tasks
    BY ConstantsAssumption DEF BudgetInv, Quiet, TypeOK, Minutes, Flight
  <1>1. /\ tasks' = Upsert(f.s, u) /\ flights' \subseteq flights /\ rec'.list = rec.list
        /\ runs' = runs \cup {row} /\ nextId' = nextId + 1
    BY <1>0 DEF Settle, ResumeWalk, TypeOK
  <1>2. /\ f.s \in DOMAIN tasks /\ f.snap.runCount = tasks[f.s].runCount
        /\ f.snap.conf = tasks[f.s].conf
    BY DEF BudgetInv, CountsAgree
  <1>3. u.conf = f.snap.conf /\ u.runCount = f.snap.runCount
    BY <1>0, CountFacts
  <1>4. row.id = nextId /\ row.s = f.s /\ ~IsLaunch(row) /\ IsFiniteSet({row})
    BY FS_Singleton DEF Row, IsLaunch
  <1> HIDE DEF u, row
  <1>5. /\ DOMAIN tasks' = DOMAIN tasks
        /\ \A x \in DOMAIN tasks : /\ tasks'[x].conf = tasks[x].conf
                                   /\ tasks'[x].runCount = tasks[x].runCount
    BY <1>1, <1>2, <1>3 DEF Upsert
  <1>6. Books({row})
    BY <1>0, <1>1, <1>2, <1>4, <1>5 DEF Books
  <1> QED BY <1>6

\* A tick that disarms a schedule or records a stale one-shot is bookkeeping.
LEMMA NotDueBooks ==
    ASSUME BudgetInv, NEW s \in Schedules, ConsiderNotDue(s)
    PROVE  \E extra : Books(extra)
  <1> USE DEF storeVars, engineVars, envVars, launchVars
  <1> DEFINE off == [tasks[s] EXCEPT !.enabled = FALSE]
             row == Row(nextId, s, tasks[s].conf.runAt, OnceKey(tasks[s].conf.runAt),
                        "cron", "missed", NoConv)
  <1>0. /\ TypeOK /\ nextId \in Nat /\ IsFiniteSet({}) /\ DOMAIN rec.list \subseteq DOMAIN tasks
        /\ clock \in Int
    BY FS_EmptySet, ConstantsAssumption DEF BudgetInv, Quiet, TypeOK, Minutes
  <1>1. /\ s \in DOMAIN tasks /\ UNCHANGED <<flights, rec>>
        /\ tasks' = tasks \/ tasks' = Upsert(s, off)
        /\ \/ UNCHANGED <<runs, nextId>>
           \/ runs' = runs \cup {row} /\ nextId' = nextId + 1
    BY <1>0 DEF ConsiderNotDue, TypeOK
  <1>2. off.conf = tasks[s].conf /\ off.runCount = tasks[s].runCount
    BY <1>0, <1>1, CountFacts DEF TypeOK
  <1>3. row.id = nextId /\ row.s = s /\ ~IsLaunch(row) /\ IsFiniteSet({row})
    BY FS_Singleton DEF Row, IsLaunch
  <1> HIDE DEF off, row
  <1>4. /\ DOMAIN tasks' = DOMAIN tasks
        /\ \A x \in DOMAIN tasks : /\ tasks'[x].conf = tasks[x].conf
                                   /\ tasks'[x].runCount = tasks[x].runCount
    BY <1>1, <1>2 DEF Upsert
  <1>5. CASE UNCHANGED <<runs, nextId>>
    <2>1. Books({})
      BY <1>0, <1>1, <1>4, <1>5 DEF Books
    <2> QED BY <2>1
  <1>6. CASE runs' = runs \cup {row} /\ nextId' = nextId + 1
    <2>1. Books({row})
      BY <1>0, <1>1, <1>3, <1>4, <1>6 DEF Books
    <2> QED BY <2>1
  <1> QED BY <1>1, <1>5, <1>6

\* A step is a crash, bookkeeping, the start of a dispatch, or its success.
LEMMA StepKinds ==
    ASSUME BudgetInv, Unedited, NoCatchUp, Undeleted, [Next]_vars
    PROVE  \/ Crash
           \/ \E extra : Books(extra)
           \/ \E s, key, trigger : Started(s, key, trigger)
           \/ \E f \in flights : Settle(f, TRUE)
  <1> USE DEF storeVars, engineVars, envVars, launchVars
  <1> DEFINE Goal == \/ Crash
                     \/ \E extra : Books(extra)
                     \/ \E s, key, trigger : Started(s, key, trigger)
                     \/ \E f \in flights : Settle(f, TRUE)
  <1>0. /\ TypeOK /\ nextId \in Nat /\ IsFiniteSet({}) /\ edits = {} /\ clock \in Minutes
        /\ clock \in Int /\ DOMAIN rec.list \subseteq DOMAIN tasks
    BY FS_EmptySet, ConstantsAssumption DEF BudgetInv, Quiet, TypeOK, Minutes
  <1>1. ASSUME NEW s \in Schedules, NEW p \in Patches, PatchRead(s, p) PROVE FALSE
    BY <1>0, <1>1, NoPatchRead
  <1>2. ASSUME NEW s \in Schedules, Delete(s) PROVE FALSE
    BY <1>0, <1>2 DEF Delete, Spend, Undeleted, TypeOK, Ops
  <1>3. ASSUME NEW s \in Schedules, ConsiderDue(s) PROVE Goal
    <2>1. /\ s \in DOMAIN tasks /\ s \notin firing /\ UNCHANGED <<rec, clock>>
          /\ DecideFire(tasks[s], clock) = "fire"
          /\ ClaimAndFire(s, tasks[s], FireKey(tasks[s], clock), "cron", runs, nextId)
      BY <1>0, <1>3 DEF ConsiderDue, TypeOK
    <2>2. FireKey(tasks[s], clock) \in Marker
      BY <1>0, <2>1, FireKeyType DEF TypeOK
    <2>3. \/ \E extra : Books(extra)
          \/ Started(s, FireKey(tasks[s], clock), "cron")
      BY <2>1, <2>2, ClaimKinds
    <2> QED BY <2>3
  <1>4. ASSUME NEW s \in Schedules, RunNow(s) PROVE Goal
    <2>1. /\ s \in DOMAIN tasks /\ s \notin firing /\ UNCHANGED <<rec, clock>>
          /\ ClaimAndFire(s, tasks[s], ManualKey(clock), "manual", runs, nextId)
      BY <1>4 DEF RunNow
    <2>2. \/ \E extra : Books(extra)
          \/ Started(s, ManualKey(clock), "manual")
      BY <2>1, ClaimKinds
    <2> QED BY <2>2
  <1>5. ASSUME NEW s \in Schedules, ConsiderNotDue(s) PROVE Goal
    BY <1>5, NotDueBooks
  <1>6. ASSUME NEW s \in Schedules, NEW c \in Confs, Create(s, c) PROVE Goal
    <2>1. /\ DOMAIN tasks' = DOMAIN tasks \cup {s} /\ s \notin DOMAIN tasks
          /\ tasks'[s].runCount = 0 /\ \A x \in DOMAIN tasks : tasks'[x] = tasks[x]
          /\ UNCHANGED <<runs, nextId, flights, rec>>
      BY <1>6 DEF Create, Upsert
    <2>2. Books({})
      BY <1>0, <2>1 DEF Books
    <2> QED BY <2>2
  <1>7. ASSUME NEW f \in flights, NEW ok \in BOOLEAN, Settle(f, ok) PROVE Goal
    BY <1>7, FailureBooks
  <1>8. ASSUME NEW e \in edits, PatchWrite(e) \/ PatchRefused(e) PROVE FALSE
    BY <1>0
  <1>9. ASSUME \/ Boot \/ ReconcileDone \/ Tick \/ TickDone \/ Advance
               \/ \E s \in Schedules : \/ Reconcile(s) \/ ConsiderFiring(s)
                                       \/ FlipGrant(s) \/ FlipScanner(s)
               \/ \E c \in alive : ConversationEnds(c)
               \/ \E c \in coming : HostBoots(c) \/ NeverComes(c)
               \/ UNCHANGED vars
        PROVE  Goal
    BY <1>9, CalmBooks
  <1>10. ASSUME Crash PROVE Goal
    BY <1>10
  <1> HIDE DEF Goal
  <1>11. Goal
    BY <1>1, <1>2, <1>3, <1>4, <1>5, <1>6, <1>7, <1>8, <1>9, <1>10, Zenon DEF Next
  <1> QED BY <1>11 DEF Goal

LEMMA BudgetNext ==
    ASSUME BudgetInv, Unedited, NoCatchUp, Undeleted, [Next]_vars PROVE BudgetInv'
  <1>0. /\ Quiet' /\ TypeOK /\ nextId \in Nat /\ IsFiniteSet({})
    BY QuietNext, FS_EmptySet DEF BudgetInv, Quiet, TypeOK
  <1>1. CASE Crash
    <2>1. Books({})
      BY <1>0, <1>1 DEF Crash, NoWalk, Books, storeVars
    <2> QED BY <1>0, <2>1, BooksKept
  <1>2. ASSUME NEW extra, Books(extra) PROVE BudgetInv'
    BY <1>0, <1>2, BooksKept
  <1>3. ASSUME NEW s, NEW key, NEW trigger, Started(s, key, trigger) PROVE BudgetInv'
    BY <1>0, <1>3, StartBudget
  <1>4. ASSUME NEW f \in flights, Settle(f, TRUE) PROVE BudgetInv'
    BY <1>0, <1>4, SettleBudget
  <1> QED BY <1>1, <1>2, <1>3, <1>4, StepKinds

LEMMA BudgetInit == Init => BudgetInv
  <1> SUFFICES ASSUME Init PROVE BudgetInv
    OBVIOUS
  <1>1. Quiet /\ runs = {} /\ flights = {} /\ DOMAIN rec.list = {}
    BY QuietInit DEF Init, NoWalk
  <1>2. IsFiniteSet({}) /\ Cardinality({}) = 0
    BY FS_EmptySet
  <1>3. ASSUME NEW s \in DOMAIN tasks
        PROVE  /\ tasks[s].runCount = 0
               /\ tasks[s].conf.maxRuns # NoTime => 0 <= tasks[s].conf.maxRuns
    <2>1. tasks[s] \in Task /\ tasks[s].runCount = 0
      BY <1>1 DEF Quiet, TypeOK, Init
    <2>2. tasks[s].conf.maxRuns \in Nat \cup {NoTime}
      BY <2>1, CountFacts
    <2> QED BY <2>1, <2>2
  <1>4. \A s : Launched(s) = {} /\ {r \in Launched(s) : r.trigger # "manual"} = {}
    BY <1>1 DEF Launched
  <1>5. RunBudget
    BY <1>2, <1>3, <1>4 DEF RunBudget
  <1> QED BY <1>1, <1>2, <1>5 DEF BudgetInv

\* Where nothing is edited, deleted or caught up, the counter of a row is the
\* number of runs in its history, and the clock never launches more than maxRuns,
\* whatever manual runs, failures, slow dispatches and crashes happen.
THEOREM RunsStayInBudget ==
    ASSUME Unedited, NoCatchUp, Undeleted
    PROVE  Spec => []RunBudget
  <1>1. Init => BudgetInv
    BY BudgetInit
  <1>2. BudgetInv /\ [Next]_vars => BudgetInv'
    BY BudgetNext
  <1>3. BudgetInv => RunBudget
    BY DEF BudgetInv
  <1> QED BY <1>1, <1>2, <1>3, PTL DEF Spec

-----------------------------------------------------------------------------
(* Runs that overlap.  The guard lets a schedule dispatch once at a time,   *)
(* so its rows tell of its launches in the order they were made, and the    *)
(* newest of them speaks for every older one that is still visible.         *)

IsSpawn(r) == r.outcome = "spawned"

\* The guard covers every dispatch under way; a schedule has one at a time.
NoDoubles ==
    /\ \A f \in flights : f.s \in firing /\ \E g \in fires : g.id = f.id /\ g.s = f.s
    /\ \A f, g \in flights : f.s = g.s => f = g

\* A row of a launch names one; later launches have later rows; a dispatch under
\* way is later than every launch its schedule has a row of.
RowsInOrder ==
    /\ \A r \in runs : r.id < nextId
    /\ \A r \in runs : IsSpawn(r) => /\ r.at <= clock
                                     /\ \E k \in fires : k.s = r.s /\ k.id = r.conv
    /\ \A r, q \in runs :
          (IsSpawn(r) /\ IsSpawn(q) /\ r.s = q.s /\ r.conv <= q.conv) => q = r \/ Newer(q, r)
    /\ \A f \in flights :
          /\ f.at <= clock
          /\ \A r \in runs : (IsSpawn(r) /\ r.s = f.s) => r.conv < f.id /\ r.at <= f.at

FreshIds ==
    /\ \A f \in fires : f.id < nextId
    /\ \A f, g \in fires : f.id = g.id => f = g

\* A run that goes on although a later one was dispatched under `skip' had slipped.
SlippedFirst ==
    \A f, g \in fires :
        (f.s = g.s /\ f.id < g.id /\ f.id \in Running(f.s) /\ Serial(f, g)) => f.id \in Slipped

OverlapInv == TypeOK /\ FreshIds /\ NoDoubles /\ RowsInOrder /\ SlippedFirst

\* Rows, ids and times are compared as numbers.
LEMMA Numbers ==
    ASSUME TypeOK
    PROVE  /\ nextId \in Nat /\ clock \in Int
           /\ \A r \in runs : r.id \in Nat /\ r.conv \in Nat /\ r.at \in Int
           /\ \A f \in flights : f \in Flight /\ f.id \in Nat /\ f.at \in Int
           /\ \A f \in fires : f.id \in Nat
  BY ConstantsAssumption DEF TypeOK, Run, Flight, Fire, Minutes

\* Numbers up to a bound have a greatest one.
LEMMA Greatest ==
    ASSUME NEW N \in Nat, NEW T \in SUBSET (0..N), T # {}
    PROVE  \E n \in T : \A m \in T : m <= n
  <1> DEFINE R == OpToRel(<, Nat)
             U == {N - n : n \in T}
  <1>1. \A n \in T : n \in Nat /\ n <= N
    OBVIOUS
  <1>2. U \subseteq Nat /\ U # {}
    <2>1. ASSUME NEW u \in U PROVE u \in Nat
      <3>1. PICK n \in T : u = N - n
        OBVIOUS
      <3>2. N \in Nat /\ n \in Nat /\ n <= N
        BY <1>1
      <3> HIDE DEF R, U
      <3> QED BY <3>1, <3>2
    <2>2. PICK n \in T : TRUE
      OBVIOUS
    <2>3. N - n \in U
      OBVIOUS
    <2> HIDE DEF R, U
    <2> QED BY <2>1, <2>3
  <1>3. \A x, y \in Nat : <<y, x>> \notin R => x <= y
    BY DEF OpToRel
  <1>4. IsWellFoundedOn(R, Nat)
    BY NatLessThanWellFounded
  <1> HIDE DEF R, U
  <1>5. \E x \in U : \A y \in U : ~ (<<y, x>> \in R)
    BY <1>2, <1>4, WFMin
  <1>6. PICK x \in U : \A y \in U : x <= y
    BY <1>2, <1>3, <1>5
  <1>7. PICK n \in T : x = N - n
    BY DEF U
  <1>8. \A m \in T : N - n <= N - m
    BY <1>6, <1>7 DEF U
  <1> QED BY <1>1, <1>7, <1>8

\* The overlap check asks about the newest launch its window tells of, which is
\* no older than any other one there.
LEMMA NewestIsAsked ==
    ASSUME TypeOK, FreshIds, RowsInOrder, NEW s,
           NEW r \in ListRuns(runs, s, HistoryWindow), IsSpawn(r)
    PROVE  \E h \in runs : /\ h.s = s /\ IsSpawn(h) /\ r.conv <= h.conv
                           /\ LastSpawnedConversationId(runs, s) = h.conv
  <1> DEFINE spawned == {q \in ListRuns(runs, s, HistoryWindow) : q.outcome = "spawned"}
             T == {q.conv : q \in spawned}
             IsLast(q) == \A p \in spawned : p = q \/ Newer(q, p)
  <1>1. \A q \in spawned : q \in runs /\ q.s = s /\ IsSpawn(q)
    BY DEF ListRuns, IsSpawn
  <1>2. r \in spawned
    BY DEF IsSpawn
  <1>3. \A q \in spawned : q.conv \in Nat /\ q.conv < nextId
    BY <1>1, Numbers DEF FreshIds, RowsInOrder
  <1>4. nextId \in Nat /\ T \in SUBSET (0..nextId) /\ r.conv \in T
    BY <1>2, <1>3, Numbers
  <1>5. PICK n \in T : \A m \in T : m <= n
    BY <1>4, Greatest
  <1>6. PICK h \in spawned : h.conv = n
    OBVIOUS
  <1> HIDE DEF spawned
  <1>7. \A q \in spawned : q.conv <= h.conv
    BY <1>5, <1>6
  <1>8. IsLast(h)
    BY <1>1, <1>6, <1>7 DEF RowsInOrder
  <1>9. ASSUME NEW q \in spawned, IsLast(q) PROVE q = h
    <2>1. (q = h \/ Newer(h, q)) /\ (q = h \/ Newer(q, h))
      BY <1>6, <1>8, <1>9
    <2>2. q.at \in Int /\ q.id \in Nat /\ h.at \in Int /\ h.id \in Nat
      BY <1>1, <1>6, <1>9, Numbers
    <2> QED BY <2>1, <2>2 DEF Newer
  <1>10. (CHOOSE q \in spawned : IsLast(q)) = h
    BY <1>6, <1>8, <1>9
  <1>11. LastSpawnedConversationId(runs, s) = h.conv
    BY <1>2, <1>10 DEF LastSpawnedConversationId, spawned
  <1> QED BY <1>1, <1>2, <1>6, <1>7, <1>11

\* A dispatch the guard and the overlap check let through.
Begins(s, c, key, trigger) ==
    /\ s \notin firing
    /\ c.conf.overlap = "skip" => ~LiveConversation(runs, s)
    /\ Dispatched(s, c, key, trigger, runs, nextId)
    /\ nextId' = nextId + 1 /\ UNCHANGED <<clock, alive>>

\* Nothing is dispatched and no launch gets a row.
Plain ==
    /\ fires' = fires /\ flights' \subseteq flights /\ \A f \in flights' : f.s \in firing'
    /\ alive' \cup coming' \subseteq alive \cup coming
    /\ nextId' \in Nat /\ nextId <= nextId' /\ clock' \in Int /\ clock <= clock'
    /\ \A r \in runs' : r \in runs \/ (r.id < nextId' /\ ~IsSpawn(r))

\* What a schedule has going only grows when it is dispatched.
LEMMA RunningShrinks ==
    ASSUME fires' = fires, flights' \subseteq flights,
           alive' \cup coming' \subseteq alive \cup coming, NEW s
    PROVE  Running(s)' \subseteq Running(s)
  BY DEF Running

LEMMA PlainKeeps == ASSUME OverlapInv, TypeOK', Plain PROVE OverlapInv'
  <1>1. FreshIds'
    BY Numbers DEF OverlapInv, FreshIds, Plain
  <1>2. NoDoubles'
    BY DEF OverlapInv, NoDoubles, Plain
  <1>3. RowsInOrder'
    <2>1. \A r \in runs' : r.id < nextId'
      BY Numbers DEF OverlapInv, RowsInOrder, Plain
    <2>2. \A r \in runs' : IsSpawn(r) => r \in runs
      BY DEF Plain
    <2>3. \A r \in runs' : IsSpawn(r) => /\ r.at <= clock'
                                         /\ \E k \in fires' : k.s = r.s /\ k.id = r.conv
      BY <2>2, Numbers DEF OverlapInv, RowsInOrder, Plain
    <2>4. \A r, q \in runs' :
             (IsSpawn(r) /\ IsSpawn(q) /\ r.s = q.s /\ r.conv <= q.conv) => q = r \/ Newer(q, r)
      BY <2>2 DEF OverlapInv, RowsInOrder
    <2>5. \A f \in flights' :
             /\ f.at <= clock'
             /\ \A r \in runs' : (IsSpawn(r) /\ r.s = f.s) => r.conv < f.id /\ r.at <= f.at
      BY <2>2, Numbers DEF OverlapInv, RowsInOrder, Plain
    <2> QED BY <2>1, <2>3, <2>4, <2>5 DEF RowsInOrder, IsSpawn
  <1>4. SlippedFirst'
    <2>1. Slipped' = Slipped /\ \A f, g : Serial(f, g)' = Serial(f, g)
      BY DEF Slipped, Serial, Plain
    <2>2. \A s : Running(s)' \subseteq Running(s)
      BY RunningShrinks DEF Plain
    <2> QED BY <2>1, <2>2 DEF OverlapInv, SlippedFirst, Plain
  <1> QED BY <1>1, <1>2, <1>3, <1>4 DEF OverlapInv

\* A launch that is answered gets the newest row of its schedule.
LEMMA SpawnSettles ==
    ASSUME OverlapInv, TypeOK', NEW f \in flights, Settle(f, TRUE),
           f.snap.conf.action = "spawn"
    PROVE  OverlapInv'
  <1> DEFINE r == Row(nextId, f.s, f.at, f.key, f.trigger, "spawned", f.id)
  <1>1. /\ runs' = runs \cup {r} /\ nextId' = nextId + 1 /\ flights' = flights \ {f}
        /\ firing' = firing \ {f.s} /\ UNCHANGED <<fires, coming, clock, alive>>
    BY DEF Settle, RunOutcome, LeaveGuard, launchVars
  <1>2. /\ r.id = nextId /\ r.s = f.s /\ r.at = f.at /\ r.conv = f.id /\ IsSpawn(r)
    BY DEF Row, IsSpawn
  <1> HIDE DEF r
  <1>3. /\ nextId \in Nat /\ clock \in Int /\ f.at \in Int /\ f.id \in Nat /\ f.at <= clock
        /\ \A q \in runs : q.id \in Nat /\ q.conv \in Nat /\ q.at \in Int /\ q.id < nextId
        /\ \A q \in runs : (IsSpawn(q) /\ q.s = f.s) => q.conv < f.id /\ q.at <= f.at
        /\ \A g \in flights : g.s = f.s => g = f
    BY Numbers DEF OverlapInv, RowsInOrder, NoDoubles
  <1>4. FreshIds'
    BY <1>1, Numbers DEF OverlapInv, FreshIds
  <1>5. NoDoubles'
    BY <1>1, <1>3 DEF OverlapInv, NoDoubles
  <1>6. RowsInOrder'
    <2>1. \A q \in runs' : q.id < nextId'
      BY <1>1, <1>2, <1>3
    <2>2. \A q \in runs' : IsSpawn(q) => /\ q.at <= clock'
                                         /\ \E k \in fires' : k.s = q.s /\ k.id = q.conv
      BY <1>1, <1>2, <1>3 DEF OverlapInv, RowsInOrder, NoDoubles
    <2>3. ASSUME NEW p \in runs', NEW q \in runs', IsSpawn(p), IsSpawn(q), p.s = q.s,
                 p.conv <= q.conv
          PROVE  q = p \/ Newer(q, p)
      <3>1. CASE p \in runs /\ q \in runs
        BY <2>3, <3>1 DEF OverlapInv, RowsInOrder
      <3>2. CASE q = r /\ p \in runs
        BY <1>2, <1>3, <2>3, <3>2 DEF Newer
      <3>3. CASE p = r /\ q \in runs
        BY <1>2, <1>3, <2>3, <3>3
      <3> QED BY <1>1, <3>1, <3>2, <3>3
    <2>4. \A g \in flights' :
             /\ g.at <= clock'
             /\ \A q \in runs' : (IsSpawn(q) /\ q.s = g.s) => q.conv < g.id /\ q.at <= g.at
      BY <1>1, <1>2, <1>3 DEF OverlapInv, RowsInOrder
    <2> QED BY <2>1, <2>2, <2>3, <2>4 DEF RowsInOrder, IsSpawn
  <1>7. SlippedFirst'
    <2>1. Slipped' = Slipped /\ \A g, h : Serial(g, h)' = Serial(g, h)
      BY <1>1 DEF Slipped, Serial
    <2>2. \A s : Running(s)' \subseteq Running(s)
      BY <1>1, RunningShrinks
    <2> QED BY <1>1, <2>1, <2>2 DEF OverlapInv, SlippedFirst
  <1> QED BY <1>4, <1>5, <1>6, <1>7 DEF OverlapInv

\* An older run beside a new dispatch under `skip' was not seen by its check, or
\* had slipped before: the newest launch the check asked about is not alive, and
\* was itself started beside the older run.
LEMMA OlderHasSlipped ==
    ASSUME OverlapInv, NEW s, s \notin firing, ~LiveConversation(runs, s),
           NEW f \in fires, f.s = s, f.id \in Running(s),
           \A h \in fires : (h.s = s /\ f.id < h.id) => h.skip
    PROVE  f.id \in Unseen(s, runs) \cup Slipped
  <1> SUFFICES ASSUME f.id \notin Unseen(s, runs) PROVE f.id \in Slipped
    OBVIOUS
  <1>1. \A g \in flights : g.id # f.id
    BY DEF OverlapInv, FreshIds, NoDoubles
  <1>2. f.id \in alive \cup coming
    BY <1>1 DEF Running, OverlapInv, FreshIds
  <1>3. PICK r \in ListRuns(runs, s, HistoryWindow) : IsSpawn(r) /\ r.conv = f.id /\ f.id \in alive
    BY <1>1, <1>2 DEF Unseen, IsSpawn
  <1>4. PICK h \in runs : /\ h.s = s /\ IsSpawn(h) /\ r.conv <= h.conv
                          /\ LastSpawnedConversationId(runs, s) = h.conv
    BY <1>3, NewestIsAsked DEF OverlapInv
  <1>5. PICK k \in fires : k.s = s /\ k.id = h.conv
    BY <1>4 DEF OverlapInv, RowsInOrder
  <1>6. f.id < k.id
    <2>1. h.conv # f.id
      BY <1>3, <1>4 DEF LiveConversation
    <2> QED BY <1>3, <1>4, <1>5, <2>1, Numbers DEF OverlapInv
  <1>7. Serial(f, k)
    BY DEF Serial
  <1> QED BY <1>5, <1>6, <1>7 DEF OverlapInv, SlippedFirst

\* A dispatch is the newest launch of its schedule.
LEMMA BeginsKeeps ==
    ASSUME OverlapInv, TypeOK', NEW s, NEW c, NEW key, NEW trigger, Begins(s, c, key, trigger)
    PROVE  OverlapInv'
  <1> DEFINE g0 == [id |-> nextId, s |-> s, snap |-> c, at |-> clock, key |-> key,
                    trigger |-> trigger]
             f0 == [id |-> nextId, s |-> s, key |-> key, trigger |-> trigger,
                    skip |-> c.conf.overlap = "skip", unseen |-> Unseen(s, runs)]
  <1>1. /\ flights' = flights \cup {g0} /\ fires' = fires \cup {f0} /\ runs' = runs
        /\ firing' = firing \cup {s} /\ coming' \subseteq coming \cup {nextId}
        /\ nextId' = nextId + 1 /\ UNCHANGED <<clock, alive>>
        /\ s \notin firing
        /\ c.conf.overlap = "skip" => ~LiveConversation(runs, s)
    BY DEF Begins, Dispatched
  <1>2. /\ g0.id = nextId /\ g0.s = s /\ g0.at = clock /\ f0.id = nextId /\ f0.s = s
        /\ f0.skip = (c.conf.overlap = "skip") /\ f0.unseen = Unseen(s, runs)
    OBVIOUS
  <1> HIDE DEF g0, f0
  <1>3. /\ nextId \in Nat /\ clock \in Int
        /\ \A f \in fires : f.id \in Nat /\ f.id < nextId
        /\ \A r \in runs : r.id \in Nat /\ r.conv \in Nat /\ r.at \in Int
        /\ \A f \in flights : f.s \in firing /\ f.id \in Nat /\ f.id < nextId
    BY Numbers DEF OverlapInv, FreshIds, NoDoubles
  <1>4. FreshIds'
    <2>1. \A f \in fires' : f.id < nextId'
      BY <1>1, <1>2, <1>3
    <2>2. \A f, g \in fires' : f.id = g.id => f = g
      BY <1>1, <1>2, <1>3 DEF OverlapInv, FreshIds
    <2> QED BY <2>1, <2>2 DEF FreshIds
  <1>5. NoDoubles'
    <2>1. \A f \in flights' : f.s \in firing' /\ \E g \in fires' : g.id = f.id /\ g.s = f.s
      BY <1>1, <1>2 DEF OverlapInv, NoDoubles
    <2>2. \A f \in flights : f.s # s
      BY <1>1, <1>3
    <2>3. \A f, g \in flights : f.s = g.s => f = g
      BY DEF OverlapInv, NoDoubles
    <2>4. \A f, g \in flights' : f.s = g.s => f = g
      BY <1>1, <1>2, <2>2, <2>3
    <2> QED BY <2>1, <2>4 DEF NoDoubles
  <1>6. RowsInOrder'
    <2>1. \A r \in runs' : r.id < nextId'
      BY <1>1, <1>3 DEF OverlapInv, RowsInOrder
    <2>2. \A r \in runs' : IsSpawn(r) => /\ r.at <= clock'
                                         /\ \E k \in fires' : k.s = r.s /\ k.id = r.conv
      BY <1>1 DEF OverlapInv, RowsInOrder
    <2>3. \A r, q \in runs' :
             (IsSpawn(r) /\ IsSpawn(q) /\ r.s = q.s /\ r.conv <= q.conv) => q = r \/ Newer(q, r)
      BY <1>1 DEF OverlapInv, RowsInOrder
    <2>4. \A r \in runs : IsSpawn(r) => r.conv < nextId /\ r.at <= clock
      BY <1>3 DEF OverlapInv, RowsInOrder
    <2>5. \A f \in flights' :
             /\ f.at <= clock'
             /\ \A r \in runs' : (IsSpawn(r) /\ r.s = f.s) => r.conv < f.id /\ r.at <= f.at
      BY <1>1, <1>2, <1>3, <2>4 DEF OverlapInv, RowsInOrder
    <2> QED BY <2>1, <2>2, <2>3, <2>5 DEF RowsInOrder, IsSpawn
  <1>7. ASSUME NEW f \in fires', NEW g \in fires', f.s = g.s, f.id < g.id,
               f.id \in Running(f.s)', Serial(f, g)'
        PROVE  f.id \in Slipped'
    <2>1. f \in fires /\ f.id < nextId /\ f.id \in Nat
      BY <1>1, <1>2, <1>3, <1>7
    <2>2. Slipped' = Slipped \cup Unseen(s, runs)
      BY <1>1, <1>2 DEF Slipped
    <2>3. f.id \in Running(f.s)
      <3>1. \/ \E h \in flights' : h.s = f.s /\ h.id = f.id
            \/ \E h \in fires' : h.s = f.s /\ h.id = f.id /\ h.id \in alive' \cup coming'
        BY <1>7 DEF Running
      <3>2. CASE \E h \in flights' : h.s = f.s /\ h.id = f.id
        BY <1>1, <1>2, <2>1, <3>2 DEF Running
      <3>3. CASE \E h \in fires' : h.s = f.s /\ h.id = f.id /\ h.id \in alive' \cup coming'
        <4>1. f.id \in alive \cup coming
          BY <1>1, <2>1, <3>3
        <4> QED BY <2>1, <4>1 DEF Running
      <3> QED BY <3>1, <3>2, <3>3
    <2>4. CASE g \in fires
      <3>1. Serial(f, g)
        BY <1>1, <1>7 DEF Serial
      <3> QED BY <1>7, <2>1, <2>2, <2>3, <2>4, <3>1 DEF OverlapInv, SlippedFirst
    <2>5. CASE g = f0
      <3>1. f.s = s /\ f0 \in fires'
        BY <1>1, <1>2, <1>7, <2>5
      <3>2. f0.skip
        BY <1>2, <1>7, <2>5, <3>1, <1>3 DEF Serial
      <3>3. ASSUME NEW h \in fires, h.s = s, f.id < h.id PROVE h.skip
        <4>1. h \in fires' /\ h.id <= g.id
          BY <1>1, <1>2, <1>3, <2>5
        <4> QED BY <1>7, <3>1, <3>3, <4>1 DEF Serial
      <3>4. c.conf.overlap = "skip"
        BY <1>2, <3>2, Zenon
      <3>5. s \notin firing /\ ~LiveConversation(runs, s)
        BY <1>1, <3>4, Zenon
      <3>6. f.id \in Running(s)
        BY <2>3, <3>1
      <3>7. f.id \in Unseen(s, runs) \cup Slipped
        BY <2>1, <3>1, <3>3, <3>5, <3>6, OlderHasSlipped
      <3> QED BY <2>2, <3>7
    <2> QED BY <1>1, <2>4, <2>5
  <1>8. SlippedFirst'
    BY <1>7 DEF SlippedFirst
  <1> QED BY <1>4, <1>5, <1>6, <1>8 DEF OverlapInv

\* A claim of a schedule outside the guard is plain, or begins a dispatch.
LEMMA ClaimBegins ==
    ASSUME OverlapInv, NEW s, s \notin firing, NEW t, NEW key, NEW trigger,
           ClaimAndFire(s, t, key, trigger, runs, nextId), UNCHANGED <<clock, alive>>
    PROVE  Plain \/ Begins(s, Claimed(t, key, trigger), key, trigger)
  <1> DEFINE c == Claimed(t, key, trigger)
  <1>1. /\ nextId' = nextId + 1 /\ nextId \in Nat /\ clock \in Int
        /\ \A f \in flights : f.s \in firing
    BY ClaimEffect, Numbers DEF OverlapInv, NoDoubles
  <1>2. \/ Refused(s, c, runs, nextId)
        \/ Dispatched(s, c, key, trigger, runs, nextId) /\ FireVerdict(s, c, runs) = "dispatch"
    BY ClaimEffect
  <1> HIDE DEF c
  <1>3. CASE Refused(s, c, runs, nextId)
    BY <1>1, <1>3 DEF Refused, Plain, IsSpawn
  <1>4. CASE Dispatched(s, c, key, trigger, runs, nextId) /\ FireVerdict(s, c, runs) = "dispatch"
    <2>1. c.conf.overlap = "skip" => ~LiveConversation(runs, s)
      BY <1>4 DEF FireVerdict
    <2> QED BY <1>1, <1>4, <2>1 DEF Begins, c
  <1> QED BY <1>2, <1>3, <1>4

\* A settlement that starts no conversation is plain.
LEMMA SettlePlain ==
    ASSUME OverlapInv, NEW f \in flights, NEW ok \in BOOLEAN, Settle(f, ok),
           ~(ok /\ f.snap.conf.action = "spawn")
    PROVE  Plain
  <1> DEFINE r == Row(nextId, f.s, f.at, f.key, f.trigger,
                      IF ok THEN RunOutcome(f.snap.conf.action) ELSE "error", NoConv)
  <1>1. /\ runs' = runs \cup {r} /\ nextId' = nextId + 1 /\ flights' = flights \ {f}
        /\ firing' = firing \ {f.s} /\ UNCHANGED <<fires, coming, clock, alive>>
    BY DEF Settle, LeaveGuard, launchVars
  <1>2. f.snap.conf.action \in {"spawn", "board-sweep", "epic-start"}
    <2>1. f.snap \in Task
      BY DEF OverlapInv, TypeOK, Flight
    <2> QED BY <2>1, ConfFacts DEF Conf
  <1>3. r.id = nextId /\ ~IsSpawn(r)
    BY <1>2 DEF Row, RunOutcome, IsSpawn
  <1> HIDE DEF r
  <1> QED BY <1>1, <1>3, Numbers DEF OverlapInv, NoDoubles, Plain

\* Every other step dispatches nothing and settles nothing.
LEMMA OverlapSteps ==
    ASSUME OverlapInv, NoCatchUp, [Next]_vars
    PROVE  \/ Plain
           \/ \E f \in flights : Settle(f, TRUE) /\ f.snap.conf.action = "spawn"
           \/ \E s, c, key, trigger : Begins(s, c, key, trigger)
  <1> USE DEF storeVars, engineVars, envVars, launchVars
  <1> DEFINE Goal == \/ Plain
                     \/ \E f \in flights : Settle(f, TRUE) /\ f.snap.conf.action = "spawn"
                     \/ \E s, c, key, trigger : Begins(s, c, key, trigger)
  <1>0. /\ TypeOK /\ nextId \in Nat /\ clock \in Int
        /\ \A f \in flights : f.s \in firing
    BY Numbers DEF OverlapInv, NoDoubles
  <1>1. ASSUME Boot \/ ReconcileDone \/ Tick \/ TickDone \/ Advance \/ Crash \/ UNCHANGED vars
        PROVE  Goal
    <2>1. /\ UNCHANGED <<fires, alive, coming, nextId, runs>>
          /\ flights' = {} \/ (flights' = flights /\ firing' = firing)
      BY <1>1 DEF Boot, ReconcileDone, Tick, TickDone, Advance, Crash, vars
    <2>2. clock' = clock \/ clock' = clock + 1
      BY <1>1 DEF Boot, ReconcileDone, Tick, TickDone, Advance, Crash, vars
    <2>3. Plain
      BY <1>0, <2>1, <2>2 DEF Plain
    <2> QED BY <2>3
  <1>2. ASSUME NEW s \in Schedules, Reconcile(s) PROVE Goal
    <2> DEFINE missed == ComputeMissedFires(rec.list[s], rec.now)
    <2>1. /\ UNCHANGED <<fires, coming, flights, firing, alive, clock>>
          /\ runs' = runs \cup MissedRows(s, missed) /\ nextId' = nextId + Cardinality(missed)
          /\ s \in DOMAIN rec.list
      BY <1>0, <1>2, WalkOnlyRecords
    <2>2. rec.list[s] \in Task /\ rec.now \in Minutes
      BY <1>0, <2>1 DEF TypeOK
    <2>3. \A r \in MissedRows(s, missed) : r.id < nextId + Cardinality(missed) /\ ~IsLaunch(r)
      BY <1>0, <2>2, MissedRowsFacts
    <2>4. Cardinality(missed) \in Nat
      BY <2>2, MissedFacts
    <2> HIDE DEF missed
    <2>5. Plain
      BY <1>0, <2>1, <2>3, <2>4 DEF Plain, IsSpawn, IsLaunch
    <2> QED BY <2>5
  <1>3. ASSUME NEW s \in Schedules, ConsiderDue(s) PROVE Goal
    <2>1. /\ s \notin firing /\ UNCHANGED <<clock, alive>>
          /\ ClaimAndFire(s, tasks[s], FireKey(tasks[s], clock), "cron", runs, nextId)
      BY <1>3 DEF ConsiderDue
    <2> QED BY <2>1, ClaimBegins
  <1>4. ASSUME NEW s \in Schedules, RunNow(s) PROVE Goal
    <2>1. /\ s \notin firing /\ UNCHANGED <<clock, alive>>
          /\ ClaimAndFire(s, tasks[s], ManualKey(clock), "manual", runs, nextId)
      BY <1>4 DEF RunNow
    <2> QED BY <2>1, ClaimBegins
  <1>5. ASSUME NEW s \in Schedules, ConsiderNotDue(s) PROVE Goal
    <2> DEFINE row == Row(nextId, s, tasks[s].conf.runAt, OnceKey(tasks[s].conf.runAt),
                          "cron", "missed", NoConv)
    <2>1. /\ UNCHANGED <<fires, coming, flights, firing, alive, clock>>
          /\ \/ UNCHANGED <<runs, nextId>>
             \/ runs' = runs \cup {row} /\ nextId' = nextId + 1
      BY <1>5 DEF ConsiderNotDue
    <2>2. row.id = nextId /\ ~IsSpawn(row)
      BY DEF Row, IsSpawn
    <2> HIDE DEF row
    <2>3. Plain
      BY <1>0, <2>1, <2>2 DEF Plain
    <2> QED BY <2>3
  <1>6. ASSUME NEW s \in Schedules,
               \/ ConsiderFiring(s) \/ Delete(s) \/ FlipGrant(s) \/ FlipScanner(s)
               \/ \E p \in Patches : PatchRead(s, p)
               \/ \E c \in Confs : Create(s, c)
        PROVE  Goal
    <2>1. /\ UNCHANGED <<fires, coming, alive, flights, firing, clock, nextId>>
          /\ runs' \subseteq runs
      BY <1>6 DEF ConsiderFiring, Delete, FlipGrant, FlipScanner, PatchRead, Create
    <2>2. Plain
      BY <1>0, <2>1 DEF Plain
    <2> QED BY <2>2
  <1>7. ASSUME NEW f \in flights, NEW ok \in BOOLEAN, Settle(f, ok) PROVE Goal
    <2>1. CASE ok /\ f.snap.conf.action = "spawn"
      <3>1. Settle(f, TRUE)
        BY <1>7, <2>1
      <3> QED BY <2>1, <3>1
    <2>2. CASE ~(ok /\ f.snap.conf.action = "spawn")
      BY <1>7, <2>2, SettlePlain
    <2> QED BY <2>1, <2>2
  <1>8. ASSUME NEW e \in edits, PatchWrite(e) \/ PatchRefused(e) PROVE Goal
    <2>1. Plain
      BY <1>0, <1>8 DEF PatchWrite, PatchRefused, Plain
    <2> QED BY <2>1
  <1>9. ASSUME \/ \E c \in alive : ConversationEnds(c)
               \/ \E c \in coming : HostBoots(c) \/ NeverComes(c)
        PROVE  Goal
    <2>1. Plain
      BY <1>0, <1>9 DEF ConversationEnds, HostBoots, NeverComes, Plain
    <2> QED BY <2>1
  <1> HIDE DEF Goal
  <1>10. ASSUME \E f \in flights, ok \in BOOLEAN : Settle(f, ok) PROVE Goal
    BY <1>7, <1>10
  <1>11. ASSUME \E e \in edits : PatchWrite(e) \/ PatchRefused(e) PROVE Goal
    BY <1>8, <1>11
  <1>12. ASSUME \E s \in Schedules : \/ Reconcile(s) \/ ConsiderFiring(s) \/ ConsiderDue(s)
                                     \/ ConsiderNotDue(s) \/ RunNow(s) \/ Delete(s)
                                     \/ FlipGrant(s) \/ FlipScanner(s)
                                     \/ \E p \in Patches : PatchRead(s, p)
                                     \/ \E c \in Confs : Create(s, c)
         PROVE  Goal
    BY <1>2, <1>3, <1>4, <1>5, <1>6, <1>12
  <1>13. Goal
    <2>1. CASE UNCHANGED vars
      BY <1>1, <2>1
    <2>2. CASE Next
      <3>1. CASE Boot \/ ReconcileDone \/ Tick \/ TickDone \/ Advance \/ Crash
        BY <1>1, <3>1
      <3>2. CASE \E c \in alive : ConversationEnds(c)
        BY <1>9, <3>2
      <3>3. CASE \E c \in coming : HostBoots(c) \/ NeverComes(c)
        BY <1>9, <3>3
      <3> QED BY <1>10, <1>11, <1>12, <2>2, <3>1, <3>2, <3>3 DEF Next
    <2> QED BY <2>1, <2>2
  <1> QED BY <1>13 DEF Goal

LEMMA OverlapInit == Init => OverlapInv
  <1> SUFFICES ASSUME Init PROVE OverlapInv
    OBVIOUS
  <1>1. fires = {} /\ flights = {} /\ runs = {}
    BY DEF Init
  <1> QED BY <1>1, InitType DEF OverlapInv, FreshIds, NoDoubles, RowsInOrder, SlippedFirst

\* Where no schedule asks to catch up (a catch-up does not consult the guard): of two
\* runs of a schedule that go on together, and that with everything between them were
\* dispatched under `skip', the older had slipped from the overlap check.  For
\* every window, and whatever edits, deletions, crashes, timeouts, late hosts,
\* manual runs and failures happen.
THEOREM RunsDoNotOverlap == NoCatchUp => (Spec => []OneLiveRun)
  <1> SUFFICES ASSUME NoCatchUp PROVE Spec => []OneLiveRun
    OBVIOUS
  <1>1. Init => OverlapInv
    BY OverlapInit
  <1>2. OverlapInv /\ [Next]_vars => OverlapInv'
    <2> SUFFICES ASSUME OverlapInv, [Next]_vars PROVE OverlapInv'
      OBVIOUS
    <2>1. TypeOK'
      BY NextType DEF OverlapInv
    <2> QED BY <2>1, OverlapSteps, PlainKeeps, SpawnSettles, BeginsKeeps
  <1>3. OverlapInv => OneLiveRun
    BY DEF OverlapInv, SlippedFirst, OneLiveRun
  <1> QED BY <1>1, <1>2, <1>3, PTL DEF Spec

-----------------------------------------------------------------------------
(* Catching up: the walk re-runs a recent miss.                            *)

\* Minutes that are left have a last one.
LEMMA LastMinute ==
    ASSUME NEW T \in SUBSET Minutes, T # {}
    PROVE  \E n \in T : \A m \in T : m <= n
  BY Greatest, ConstantsAssumption DEF Minutes

\* The list that is not cut holds every fire since the last run, so the walk
\* finds the recent one.
LEMMA RecentMissIsSeen ==
    ASSUME NEW t \in Task, NEW now \in Minutes, t.conf.catchUp = "once", RecentMiss(t, now),
           Cardinality(FiresSince(t, now)) <= MissedCap
    PROVE  ShouldCatchUp(t, ComputeMissedFires(t, now), now)
  <1> DEFINE gap == FiresSince(t, now)
  <1>1. /\ t.conf.kind = "cron" /\ t.lastRunAt # NoTime /\ Cardinality(gap) <= MissedCap
        /\ \E m \in gap : now - m <= Grace
    BY DEF RecentMiss
  <1>2. gap \in SUBSET Minutes /\ IsFiniteSet(gap)
    BY MinutesFinite, FS_Subset DEF FiresSince
  <1> HIDE DEF gap
  <1>3. ASSUME NEW m \in gap PROVE Cardinality({x \in gap : x < m}) < MissedCap
    <2>1. {x \in gap : x < m} \in SUBSET gap /\ m \notin {x \in gap : x < m}
      BY <1>2 DEF Minutes
    <2>2. /\ Cardinality({x \in gap : x < m}) <= Cardinality(gap)
          /\ Cardinality({x \in gap : x < m}) # Cardinality(gap)
          /\ Cardinality({x \in gap : x < m}) \in Nat /\ Cardinality(gap) \in Nat
      BY <1>2, <2>1, FS_Subset, FS_CardinalityType
    <2> QED BY <1>1, <2>2, ConstantsAssumption
  <1>4. ComputeMissedFires(t, now) = gap
    BY <1>1, <1>3 DEF ComputeMissedFires, gap
  <1>5. PICK m \in gap : now - m <= Grace
    BY <1>1
  <1>6. PICK last \in gap : \A x \in gap : x <= last
    BY <1>2, <1>5, LastMinute
  <1>7. m <= last /\ m \in Nat /\ last \in Nat /\ now \in Nat /\ Grace \in Nat
    BY <1>2, <1>6, ConstantsAssumption DEF Minutes
  <1>8. now - last <= Grace
    BY <1>5, <1>7
  <1> QED BY <1>4, <1>6, <1>8 DEF ShouldCatchUp

\* Whatever stops a fire that the clock claimed, the row keeps the stamp.
LEMMA ClaimStamps ==
    ASSUME TypeOK, NEW s \in Schedules, NEW t \in Task, NEW key \in Marker, NEW trigger, trigger # "manual",
           NEW rs, NEW id, ClaimAndFire(s, t, key, trigger, rs, id)
    PROVE  tasks'[s].marker = key
  <1> DEFINE claimed == [t EXCEPT !.marker = key]
             off     == [claimed EXCEPT !.enabled = FALSE]
             settled == SettleTask(claimed, FALSE, clock)
  <1>1. claimed \in Task /\ claimed.marker = key
    BY DEF Task
  <1>2. off.marker = key /\ settled.marker = key
    BY <1>1 DEF Task, SettleTask
  <1> HIDE DEF claimed, off, settled
  <1>3. tasks' \in {Upsert(s, claimed), Upsert(s, off), Upsert(s, settled)}
    BY DEF ClaimAndFire, Claimed, claimed, off, settled
  <1>4. \A u : Upsert(s, u)[s] = u
    BY DEF Upsert
  <1> QED BY <1>1, <1>2, <1>3, <1>4

\* For any definitions, outage, grace, cap, clock and outside events: a schedule
\* with catch-up `once' leaves the boot walk with its row stamped for a catch-up
\* whenever it missed a fire within the grace and no more fires than the cap.
THEOREM RecentMissHolds == Spec => RecentMissIsCaughtUp
  <1> DEFINE Step == \A s \in DOMAIN rec.list :
          (/\ WalkPasses(s) /\ RecentMiss(rec.list[s], rec.now)
           /\ Cardinality(FiresSince(rec.list[s], rec.now)) <= MissedCap)
          => tasks'[s].marker = WallKey(rec.now)
  <1>1. ASSUME TypeOK, [Next]_vars PROVE Step
    <2> SUFFICES ASSUME NEW s \in DOMAIN rec.list, turn = "reconcile", turn' # "down",
                        s \notin DOMAIN rec.list', rec.list[s].conf.catchUp = "once",
                        RecentMiss(rec.list[s], rec.now),
                        Cardinality(FiresSince(rec.list[s], rec.now)) <= MissedCap
                 PROVE  tasks'[s].marker = WallKey(rec.now)
      BY DEF WalkPasses
    <2>1. s \in Schedules /\ rec.list[s] \in Task /\ rec.now \in Minutes
      BY <1>1 DEF TypeOK
    <2>2. rec' # rec
      OBVIOUS
    <2>3. \E x \in Schedules : Reconcile(x)
      BY <1>1, <2>2 DEF Next, vars, Boot, ReconcileDone, Tick, TickDone, Advance, Crash, ConsiderFiring,
         ConsiderDue, ConsiderNotDue, RunNow, Delete, FlipGrant, FlipScanner, PatchRead, Create, Settle,
         PatchWrite, PatchRefused, ConversationEnds, HostBoots, NeverComes, Idle
    <2>4. PICK x \in Schedules : Reconcile(x)
      BY <2>3
    <2>5. x = s
      <3> DEFINE rest == [y \in DOMAIN rec.list \ {x} |-> rec.list[y]]
      <3>1. \/ rec' = [rec EXCEPT !.list = rest]
            \/ \E w : rec' = [rec EXCEPT !.list = rest, !.wait = w]
        BY <2>4 DEF Reconcile
      <3>2. rec = [now |-> rec.now, list |-> rec.list, wait |-> rec.wait]
        BY <1>1 DEF TypeOK
      <3>3. DOMAIN rest = DOMAIN rec.list \ {x}
        OBVIOUS
      <3> HIDE DEF rest
      <3>4. rec'.list = rest
        BY <3>1, <3>2
      <3> QED BY <3>3, <3>4
    <2>6. Reconcile(s)
      BY <2>4, <2>5
    <2>7. ShouldCatchUp(rec.list[s], ComputeMissedFires(rec.list[s], rec.now), rec.now)
      BY <2>1, RecentMissIsSeen
    <2>8. \E rs, id : ClaimAndFire(s, rec.list[s], WallKey(rec.now), "catchup", rs, id)
      BY <2>6, <2>7 DEF Reconcile
    <2> QED BY <1>1, <2>1, <2>8, ClaimStamps, WallKeyType
  <1>2. TypeOK /\ [Next]_vars => [Step]_vars
    BY <1>1
  <1>3. Spec => [][Step]_vars
    BY <1>2, TypeCorrect, PTL DEF Spec
  <1> QED BY <1>3 DEF RecentMissIsCaughtUp
=============================================================================
