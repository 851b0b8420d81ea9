# claudewerk in TLA+

A verification project for claudewerk, a broker that runs fleets of coding
agents: TLA+ modules of the parts that carry protocol state, TLC runs that check
them on small instances, and TLAPS proofs of the results that matter most for
every instance. Paths below are relative to the repository root.

## 1. The system

Four kinds of process talk over WebSockets and HTTP:

- the **broker** (`src/broker`), one JavaScript thread with a SQLite store. It keeps the
  conversation registry, routes messages, runs the schedulers and serves the
  control panel;
- one **sentinel** per machine (`src/sentinel`), which starts processes and owns the
  files of a project, in particular the board cards;
- one **agent host** per conversation (`src/claude-agent-host`, `src/agent-host-common`),
  a wrapper around a command-line agent that offers it MCP tools;
- the **control panel** (`web/`), a React front end.

### Inventory

| Component | State it keeps | Operations | What is hard about it | What makes it correct |
|---|---|---|---|---|
| Scheduled tasks (`src/broker/scheduled-tasks`) | task rows, run rows, double-fire guard, seat counters | minute tick, boot reconciliation, run-now, create, patch, delete, settlement | handlers interleave at every `await`, records captured before an `await` are written back after it, the broker may die between the stamp and the settlement, wall clocks repeat | at most one fire per minute, no run beside one that can be seen, run and failure budgets, exact seat counters, spent schedules disarmed |
| Seat lease of a work card (`epic-seat-claim.ts`, `epic-lease.ts`, `epic-seat-handlers.ts`) | three frontmatter keys per (card, role), calls in progress | claim, release, audit | three processes; liveness is read one round trip before the compare-and-swap; requests outlive their timeouts; calls break and are retried | generations are awarded once and in order, a live holder keeps its grip, every call ends |
| Werk-master lease and the epic beat (`epic-beat.ts`, `epic-beat-actions.ts`, `epic-sweep*.ts`) | the lease on the epic card, the baton, the lanes folded from the registry | sweep, read, acknowledge, decide, take, spawn, adopt, dispatch, verify, settle | the lease is taken for a conversation that does not exist yet; a dispatched seat is invisible until its host connects; the broker may die between any two awaits | one seat per card and role, a generation names one master, an abandoned placeholder is recovered, the run ends |
| Epic arming, queue, landing (`epic-arm.ts`, `epic-queue.ts`, `epic-landing.ts`, `routes/epic-actions.ts`) | the armed set, the run record | arm, pause, break the lease, pick, land, stand down | an operator's verb crosses a beat that has read the run already; a settle that never reached the disk | a run that is not over is armed, nothing lands twice |
| Agent-host transport (`src/shared/host-transport`) | socket, bounded queue, ring of recent transcript batches | send, open, close, reconnect, flush, replay | a dying socket swallows what is written, an old socket's bytes arrive after the new one's, batches travel twice | only what went down with a socket or overflowed the queue is missing, a socket that stays up makes the record whole |
| Transcript ingest and the panel's copy (`add-transcript-entries.ts`, `sync-protocol.ts`, `web/src/lib/transcript-apply.ts`) | numbered rows, a bounded cache; the panel's window and its floor | store, broadcast, fetch, delta, sync check, prune | HTTP and WebSocket answers race, sends are dropped, rows arrive with old timestamps, the counter restarts | no row is hidden that is still on its way, a panel that is behind catches up |
| Message queue, router and links (`channel.ts`, `message-queue.ts`, `project-links.ts`) | queue rows, links, refusals, address books, grants | send, connect, drain, approve, block, grant, sever, expire | a drain races direct delivery, operators decide while targets come and go, half the state is in memory | an accepted message is in one place, nothing waits behind a live target, a refusal holds, a first contact waits for consent |
| Nightshift (`nightshift-*.ts`, `capacity-*.ts`) | a run, its queue and slots, artifacts on the sentinel's disk, reservations, poke and retry counters | start, tick, reap, dispatch, sweep, ladder, watchdog, finalize | three loops settle the same dead worker with awaits between read and write; lost round trips; a restart forgets the run | retries are bounded, reservations are exact and fit, every card is somewhere, the run ends or one hung worker holds it |
| Conversation registry (`conversation-store.ts`) | conversations, sockets, status | connect, disconnect, end, resume, reap | reconnects race timeouts | an ended conversation is not resurrected by a late message |
| Spawn dispatch (`spawn-dispatch.ts`) | pending requests with a 15 s timer | dispatch, answer, timeout | an answer after the timeout | a conversation written off is not counted twice |
| Everything else (recaps, canvases, dialogs, permissions, voice, statistics) | documents, caches | request/response | little concurrency | - |

How they interact: the scheduler calls spawn dispatch (or the board sweep, or the
epic arm) and asks the registry whether a conversation lives; spawn dispatch and the
lease code send requests to a sentinel over one socket and wait for the answer or a
timer; a conversation's tools post HTTP calls to the broker; the epic beat spawns
seats, and a seat claims its card before it writes; nightshift admits against the
capacity ledger, spawns workers and keeps its artifacts with the sentinel; an agent
host sends transcript batches that the broker stores, numbers and broadcasts to
panels; conversations send each other messages through the broker, which asks the
project links and the registry where each one goes.

`PROJECT.json` lists every component with its status, and the hazards with the
line at which each bites.

## 2. Modules

| Module | What it is |
|---|---|
| `ScheduledTasks` | the scheduler: tick, fire path, seat pool, boot walk, write path |
| `MCScheduledTasks` | its instances: schedules, wall clocks, budgets of outside events |
| `ScheduledTasks_proofs` | its theorems |
| `LeaseRegister` | abstract: a register that awards generations |
| `SeatLease` | the seat lease protocol between seat, broker and sentinel |
| `MCSeatLease` | its symmetry |
| `SeatLease_proofs` | its theorems, with the refinement of `LeaseRegister` |
| `Nightshift`, `MCNightshift` | the night run: orchestrator, capacity ledger, guardians, watchdog; its instances |
| `Nightshift_proofs` | its inductive base, and the theorems about types and the ledger |
| `NightCards_proofs` | its theorems about retries and cards |
| `HostTransport`, `MCHostTransport` | an agent host's socket, queue and replay ring against the broker's ingest |
| `HostTransport_proofs` | its theorems |
| `PanelSync`, `MCPanelSync` | a panel's copy of one transcript |
| `PanelSync_proofs` | its theorems |
| `Mailbox` | abstract: messages that wait, are heard or dropped |
| `MessageRouter`, `MCMessageRouter` | messages between conversations, links and queues; its instance |
| `MessageRouter_proofs` | its theorems, with the refinement of `Mailbox` |
| `EpicBeat`, `MCEpicBeat` | the sweep of one armed epic, its werk-master and its seats; its instance |
| `EpicBeat_proofs` | its theorems: types, the armed set, and whom a beat seats |

A definition directly before another one with the same parameters and a name that
says what is wrong with it (`FuseBlowsLate`, `AnyoneMayRelease`, ...) is a mutant: a
plausible bug that the run named with it in `PROJECT.json` must catch.

### ScheduledTasks

*State.* `tasks` and `runs` are the two SQLite tables; they survive a `Crash`.
`firing` is the engine's guard set, `flights` the fires between `await plan.run()`
and its resumption, each with the task record it captured (`snap`); `dispatching`
and `byOrder` are the counters of `claimSlot`. `edits` holds PATCH requests that have
read their row and still await their body. `turn` says who holds the one thread:
a tick walks all its schedules without an `await`, so nothing else runs until
`TickDone`; the boot walk gives the thread up only where it awaits a catch-up.
`alive` are the conversations the registry shows as running, `coming` the launches whose host has not
connected. `fires` and `deleted` are history; a fire notes whether it was made under overlap `skip`, and which
runs of its schedule the check could not see.

*Actions.* `Boot`, `Reconcile`, `ReconcileDone` are `reconcileMissedFires` called by
`startScheduledTaskEngine`; `Yield` models that the boot tick starts at the walk's
first `await`. `Tick`, `ConsiderFiring`, `ConsiderDue`, `ConsiderNotDue`, `TickDone` are
`tick` and the three ways out of `considerOne`. `ClaimAndFire` is `claimAndFire` plus
`fireSchedule` up to the dispatch: stamp, the early returns in their order
(`FireVerdict`), the refusal row, or the seat and the flight. `Settle` is everything
after the dispatch returns. It does not say whether a conversation comes of it: a launch is `coming` from its
dispatch on, and its host connects (`HostBoots`) or does not (`NeverComes`) at any time before or after the answer, the
15 s timeout or a crash. `RunNow`, `PatchRead`, `PatchWrite`, `PatchRefused`, `Delete`,
`Create` are the routes and MCP tools. `Advance`, `ConversationEnds`, `FlipGrant`,
`FlipScanner`, `Crash` are the surroundings.

*Abstractions.* Time is counted in minutes. A cron expression is the set of
wall-clock minutes it matches, and `Wall` maps instants to wall-clock minutes, not
injectively where an hour repeats; `nextFires` resolves a repeated minute to its first
instant (`FirstPass`). `planOk` stands for everything that makes `planFire` fail. A
PATCH changes either `enabled` or the whole definition.

### SeatLease

*State.* `lease` is the card's three keys for one role, on the sentinel's disk. `net`
is the broker's socket to the sentinel, in order. `calls` are the broker's calls with
the round trip (`phase`) each waits for; `asking` is the call a seat's tool still
awaits; `seat` is what the agent was told. `live` is the registry. `grants` and `lapsed`
are history: who was awarded each generation, and the generations whose holder was at
some moment not live.

*Actions.* `ClaimSeat`, `ReleaseSeat`, `Deliver`, `HttpLost` are the `epic_seat` tool;
`RunClaim`, `Decided`, `Audited`, `RunRelease` are `epic-seat-claim.ts` between its awaits;
`Timeout` is `sendSentinelOp`'s timer, missing sentinel or failed send; `SeatGet`,
`SeatClaim`, `SeatRelease`, `LogAppend` are the sentinel's synchronous handlers;
`SentinelRestart` loses what is in transit; `Die` and `Unend` are the registry;
`Tick` is time. A request that timed out stays in `net` and is executed later; its
answer finds no listener (`Respond`).

`LeaseRegister` is what the lease promises: generations are awarded once, in order,
and only the newest award can be the holder. `Register` in `SeatLease` is the
refinement: `awarded <- grants`, `holder <- lease.conv`.

### Nightshift

*State.* `run` is one `runNightshift` call per trigger (scheduler or operator) and, once
open, its `RunState`; its `pc` names the await the call is in. `active` is the entry of
`activeRuns`. `file`, `skipped`, `runmd` are the artifact tree on the sentinel's disk and
survive a `Restart`; `reserved` is the capacity ledger, `ladder` the `inflightSettle`
guard with the step it is in, `sweep` the guardian sweep with what it read, `pokes` the
poke tracker: all of these are lost with the broker. `conv` are the worker conversations.

*Actions.* `Consider`, `RunNightshift`, `ScanBoard`, `RunStart` open a run; `Tick`,
`Snapshot`, `PatchErrored`, `LadderAwaited` are the tick with its reaping; `Starve`,
`Placeholder`, `Untag`, `SpawnWorker`, `SpawnFailed` a dispatch between its awaits;
`Finalize`, `UsageEvent`, `SleepOver`, `WindowCloses` the end of a run. `LadderRead`,
`LadderBump`, `LadderRespawn`, `LadderStamp` are `settleEndedWorker`; `SweepStart`,
`SweepRead`, `SweepStamp`, `SweepLadder` the guardian sweep; `WatchdogStamps`,
`WatchdogKills` the watchdog. `Boot`, `Report`, `WorkerEnds`, `SocketCloses` are the
workers, `Restart` the broker. `Rpc` loses a round trip. A worker whose host has connected is `starting` until its first
turn and then `live`; the watchdog looks at live ones only, marks the one it acts on (`acted`) and writes its verdict
before it sends a terminate (`killing`), once, which a host that holds a socket may never obey. Without a socket it ends
the conversation itself. A revived worker keeps the mark unless a sweep has seen it ended.

*Abstractions.* One project and one calendar day, so one run id. Headroom is read
nondeterministically at each admission; one profile and the default estimate. The
board scan is one step. A timed-out round trip was not executed (a late write is not
modelled). The poke back-off is left out, as is the `blocked` lane, which is
written and never read. Any reported outcome is `done`. Quarantine after a restart
concerns work the model does not have. A watchdog's kill that finds its worker ended already is left out: it
only re-labels the end. The mark is kept for workers that did not crash, since only those are revived.

### HostTransport

*State.* `queue`, `ring`, `ringHead`, `ringCount` are the fields of the transport; `ws`,
`connected`, `shouldReconnect`, `retry` its socket and the armed timer; `wire` is what
travels on each socket ever opened; `log`, `registered`, `promoted` are the broker's rows
and what it knows. `overflowed` and `lost` are history.

*Actions.* `sendTranscriptEntries`, `setSessionId`, `Connect`, `Opens` (initial message, queue,
ring, in the order of `onopen`), `Dies`, `OnClose`, `Close`, and per socket `Deliver` and
`LoseWire`. Between `Dies` and `OnClose` the host believes the socket is up.

*Abstractions.* A batch is its number. Heartbeats, the protocol upgrade, telemetry,
the pull of an old transcript, and handlers that throw are left out.

### PanelSync

*State.* `place` gives every stored row its place in chronological order, `counter` is the running
broker's number; `held` and `floor` are the panel's entries and
`lastAppliedTranscriptSeq`; `fetch` the HTTP requests, `wire` the socket to the panel.

*Actions.* `ingestAndBroadcast`, `Resend`, `Open`, `channelSubscribe`, `SyncCheck`, `Deliver` (live entry,
isInitial batch, answer of a sync check), `Serve`, `Apply`, `Fail`, `Disconnect`, `Restart`.

*Abstractions.* One panel, one conversation, a visible tab and a reader at the bottom.
One entry per live message. Whether a check is answered by `sync_stale` depends on other
conversations' traffic and is a bounded choice; `sync_catchup` treats transcripts as
`sync_ok` does. At most one check is outstanding and it is handled as it is sent. The
two-second debounce is left out. One `Window` stands for the 500-row and the 1000-row
reads. A restart fails the requests that were not answered.

### MessageRouter

*State.* `known`, `sock`, `jobs` are the registry as far as routing asks it; `links`,
`blocks`, `grants` the link state in memory, `stored`, `storedGrants` on disk; `book` the
address books; `queue` the rows of `message_queue` of both kinds. `mail`, `inbox`, `lost`
are history.

*Actions.* `deliverToOne` is a whole `channel_send` to one target, with its outcomes
(`DeliverNow`, `QueueOffline`, `QueuePending`, `Refuse`) and the link and address that
resolution may cache on the way; `agentHostBoot`, `meta` with its drain, `Disconnect`,
`removeConversation`, `Spawn`, `JobFails`; the operators' decisions (`approveProjectLink`,
`blockProjectLink`, `channelLinkGrant`, `unlinkConversations`, `unlinkProjects`, `AdminLink`,
`clearLinksForProject`); `CoolsOff`, `Expires`, `Restart`.

*Abstractions.* A conversation's slug is the conversation; there are no renames,
aliases or prefixes. Multicast, the reserved sinks, a bare address that equals a title,
and the fallback by name across projects are left out, as is the eviction of links unused for
90 days. Trust levels are constants. Spawn jobs are external. "Delivered" means
handed to the socket.

`Mailbox` is what the routing promises about a message, whoever it is for: numbered as it is accepted, it is
put before one conversation at once or waits; what waits is handed over together, lower numbers first,
or is dropped; nothing of this is undone. `Box` in `MessageRouter` is the refinement: `sent <- Len(mail)`,
`waiting` the numbers of the rows, `heard <- inbox`, `dropped <- lost`.

### EpicBeat

*State.* `run` is run.md (status, dry beats, whether a spend or time ceiling is reached), `armed`
the durable armed set, `lease` the werk-master's lease, `board` the cards' lanes. `log` is the baton,
kept as the three folds a beat takes of it: cards acknowledged, dispatches counted, seats for which a
dispatch holds the card. `seats` are the conversations the epic spawned, `past` what the registry
still counts of the ended ones. `beat` is the beat in progress: the lanes it folded and the steps it
has left. `slipped`, `cleared` and `crossed` are history: seats the engine lost sight of, seats whose
hold a completion of the card ended, and whether an operator or a lost settle crossed a beat.

*Actions.* `sweepEpics` folds the registry; `runEpicBeat` reads, acknowledges, decides (`decide`, with
`capBeat`, `werkMasterGate`, `guardBeat`, `workBeat`, `movedBeat` in the code's order) and writes the patch.
Then one step per await: `takeLease`, `wakeWerkMaster`, `adoptLease`, `spawnForCard`, `appendDispatch`,
`settleRun`, `standDown`; `OpLost` loses a round trip, `Restart` ends the beat. `Attach`, `LaunchLost`,
`FallsSilent`, `BackFromSilence`, `Works`, `Ends`, `ConfigExpires` are conversations and their hosts,
`HoldExpires`, `LeaseAges`, `CeilingReached` are time, `pause`, `start`, `actionBreakLease` the operator.

*Abstractions.* One epic; its run is planned, its cards are neither rough nor questions, declare no
dependencies, are not renamed, and their branches land. The promise ledger and the queue between epics
are left out (being behind the queue is the choice `shut`). The reads, the acknowledgement,
the decision and the patch of a beat are one step, and so is an operator's verb. A lost round trip
was not executed; a take that was executed and whose answer was lost leaves what a restart after the take
leaves. A verifier that ends without a verdict counts as an upset, because nothing in the code bounds the verify lane.
Conversations of a run that is over, and that no upset can start again, are not followed.

## 3. Runs

| Run | Expect | Properties | What it shows |
|---|---|---|---|
| `clock` | pass | `AtMostOncePerMinute`, `RunBudget` | two schedules in the hour that repeats, with drifting or doubled ticks, a manual run, a revoked permission, slow and failing dispatches and a crash: one fire per minute, and never a third launch by the clock of a schedule with three due minutes and two runs allowed |
| `edits` | pass | `FailureFuse`, `OneLiveRun` | PATCH in two halves, a manual run and a crash around fires of one schedule with overlap `skip`, whose launches are answered or written off and come up late, early or never |
| `seats` | pass | `SeatPool` | three schedules due together for two seats, two of them under an order that reserves one, with an edit in or out of that order while a dispatch is under way, a deletion, a refusal and a crash |
| `outage` | pass | `GuardReleased`, `BootWalkEnds`, `RecentMissIsCaughtUp`, `SpentIsDisarmed` | crash and boot under fairness, with a schedule created at any moment; the newest miss is run again when the misses fit the cap |
| `seat_protocol` | pass | `GripKept`, `TakeoverJustified`, `RegisterSpec` | the lease protocol with deaths, un-endings, broken calls, timeouts and takeovers |
| `seat_answers` | pass | `CallsEnd` | every call ends although the sentinel may be silent or restart |
| `night` | pass | `RetriesBounded`, `NoDeadCard`, `RunDrains` | one card through a night with one lost round trip or one restart: bounded retries, no running card behind a dead conversation, and an end of the run unless one worker hangs for good |
| `night_queue` | pass | `LedgerExact`, `NeverOverbooked`, `CardAccounted` | two cards and two slots, with or without admission: exact reservations, never above the headroom, no card nowhere |
| `transport` | pass | `TypeOK`, `ReplayIsRecent`, `Accounted`, `EntriesArrive`, `SessionLearned` | sockets that die and reopen with batches queued, swallowed and still arriving |
| `panel` | pass | `FilterDropsOnlyHeld`, `InSyncShowsNewest`, `CatchesUp` | a panel through reconnects, dropped sends, failed fetches, late rows and a restart: its filter drops no row it still has to show, and a panel that is told it is in sync shows the newest row |
| `router` | pass | `TypeOK`, `Conserved`, `NothingWaitsBehindLive`, `HeardInOrder`, `DenyHolds`, `PendingNeedsConsent`, `MailboxSpec` | three conversations of two projects, operators, full queues and a restart: an accepted message is in one place, what a conversation hears of one lane comes in the order it was accepted, a refusal holds, a first contact waits for consent |
| `epic` | pass | `TypeOK`, `SeatsSingle`, `LeaseNames`, `LiveRunIsArmed`, `RunEnds` | a run from arming to its end with one thing going wrong anywhere: no second seat of a role on a card unless the engine lost sight of the first, one master per generation, no live run off the sweep's list, and an end even under a werk-master that never returns |

### Bounds

- `MaxMinute` (1 to 3): a property of a schedule involves the minute that fires, the
  next one and, after an outage, one more. `Grace` and `MaxFailures` are scaled so that a run
  of that length crosses them (`outage`: `Grace = 1`; two failures everywhere); `MissedCap` and
  `HistoryWindow` keep the code's own values, which no run of this length reaches. In `clock`
  the wall clock falls back, with one due minute in the repeated hour.
  In `clock` one schedule has three due keys for `maxRuns = 2`, so that the budget refuses the third; edits are excluded
  there, because a stale PATCH restores an older counter (section 5).
- `Limits` bounds how often each outside event happens. Each budget admits the
  orders of events that the run's properties are about: a PATCH around a settlement, a DELETE or a
  permission change during a dispatch; a crash; a manual run between timed ones.
- `MaxInFlight = 2` for three schedules in `seats`, two of them in one order with one reserved seat, so that both
  the ceiling and the reservation refuse. `edits` has one schedule: its properties are about one row and its launches.
- Two conversations and three calls in `seat_protocol`: a holder, a claimant, and a
  second call of either. Three calls are needed for a release or a retry that is
  late while somebody else claims. `StaleAfter = 0` and `MaxTime = 1` give a lease both
  inside and past its window. `seat_answers` uses two calls, since liveness is checked
  there, and adds the restart. `GripKept` was checked there too, and on the instance of `seat_protocol`
  with a sentinel restart (4.3 million states), while the model was written.
- `night` has one card and two counters at their limit (one retry, one poke) so that the
  ladder, the sweep and the watchdog meet on the same dead worker; three conversations are the
  first attempt, the retry and one more that must not happen. `night_queue` has two cards for
  two slots and headroom for one. One fault each: the properties are about a single
  lost round trip or restart at any await. `night_queue` runs with capacity admission on and off, `night` with it on (off
  was checked while the model was written).
- `transport`: queue and ring of two and three batches, so both overflow or wrap; two sockets,
  one after the other. Every socket after the second repeats the second's steps.
- `panel`: three rows, one of them late and one filtered, a panel that keeps two, two fetches
  under way, one fault and one `sync_stale`. Larger instances (three and four rows, windows of two and
  three, panels that keep one and two, up to 4.8 million states) were checked while the model was written.
- `router`: three messages and a queue of two, so that a drain has an order to get wrong and the bound still drops
  a row; one event. `MaxDecisions = 1` counts the decisions that open a way (approvals, grants, links); those that close
  one (refusals, severed links and grants, "clear all") are not bounded. The third conversation is spawned
  under a name that is not its slug.
- `epic`: one card, two generations, one seat of the card, two launch attempts, and one upset of any of
  the fourteen kinds at any point, so every await is crossed by every fault and every verb of the operator.
  Three conversations of a role leave a
  name free for every launch of the instance. An instance with two seats of the
  card (683 thousand states) was checked for the safety properties.
- Conversations and calls of the seat lease are interchangeable and no property names one, so
  `seat_protocol` uses their permutations as symmetry. No liveness run uses symmetry.
- `CHECK_DEADLOCK FALSE` in every run but the scheduler's: once the bounded outside events are
  used up (calls, batches, rows, messages) the system rests. The scheduler always ticks.

### Fairness

`ScheduledTasks!FairSpec`: weak fairness of the boot, the interval timer and every step
of a walk (the event loop finishes what it started, and the service is restarted);
strong fairness of settlement, because spawn dispatch answers or times out after 15 s
(`spawn-dispatch.ts:462`), and the settlement's turn comes and goes with the thread.
Nothing is assumed of crashes, users or conversations.

`SeatLease!FairSpec`: weak fairness of the broker's own steps for each call, justified by
the 10 s timer in `sendSentinelOp`. The sentinel, the seat and the network owe nothing.

`Nightshift!FairSpec`: weak fairness of every step of a call between awaits (the round trip
is answered or times out), of the settling ladder, the sweep, the watchdog and the closing of
an ended worker's socket; strong fairness of the tick, which runs every 20 s while
the sweep that disables it for a moment runs every 45 s; weak fairness of the end of the
window, which is a time of day. Workers owe nothing, not even an end when they are told to, and the watchdog tells them
once. It is fair to every live worker because every worker that goes on passes a cap in time.

`HostTransport!FairSpec`: weak fairness of the reconnect timer, of a connection attempt having
an outcome, of the close event, and of each socket's bytes arriving or being given up.
That a socket stays up is not assumed: it is the premise of `EntriesArrive` and `SessionLearned`.

`PanelSync!FairSpec`: weak fairness of the reconnect, the subscription, the periodic sync
check, the delivery on the socket and the outcome of a fetch. Faults are bounded.

`EpicBeat!FairSpec`: weak fairness of the beat (the interval timer fires, and every await is answered or
times out), of the lease growing old, and of the seats making progress: a launched host connects or its hold
runs out, a worker's turn ends, a verifier gives a verdict. Nothing is asked of a werk-master, which may keep
its socket for ever: that is what `werkMasterGate` is for.

## 4. Proofs

All proofs are checked by TLAPS for every value of the constants that satisfies the named
assumption of the module (`ConstantsAssumption`, `SeatAssumption`, `SizesAssumption`,
`NamesAssumption`, `BeatAssumption`, `NightAssumption`). They ask only for types: finite sets, naturals, sizes
that are not 0, null values outside the sets they complete, and one thing more: that among the headrooms
admission may read there is a widest, as there is one budget per profile.

`ScheduledTasks_proofs`:

- `TypeCorrect`: `Spec => []TypeOK`. It covers the records in `flights`, `edits` and
  `rec.list`, which are written back later.
- `FuseHolds`: `Spec => []FailureFuse`. The table alone is not inductive: settlement and
  PATCH write back records that were captured earlier. `FuseInv` therefore says the
  same of every captured record too: those of flights, of PATCH requests and of the boot walk.
- `SeatsAreBounded`: `Spec => []SeatPool`. `SeatInv` adds that `flights` is finite and
  that its ids lie below `nextId`, so that a new flight is really new and adding or
  removing one changes each cardinality by exactly one. The order is the one the
  captured record names, which is why an edit of the order during the dispatch does no harm.
- `FiresOncePerMinute`, `RunsStayInBudget`: `AtMostOncePerMinute` and `RunBudget` do not hold of every configuration, and
  section 5 says where the code breaks them. Each theorem states
  exactly what it excludes, as hypotheses on the constants: `Unedited` (a PATCH writes an older record back),
  `NoCatchUp` (a catch-up ignores guard and marker), `Undeleted` (a settlement brings a deleted row back without its
  history), `RepeatsApart` (between a
  wall-clock minute and its repetition the schedule has no other due minute, as the marker remembers one). Crashes,
  drifting and doubled ticks, dispatches of any length, failures, manual runs, creations, permissions stay in. The
  instance `clock` satisfies the hypotheses of both.
  Both rest on `Quiet`: at most one dispatch of a schedule is under way, and the guard covers it, so the record it
  captured may be written back. `MinuteInv` says that the marker of the row, and of every captured
  record, is the key of a due minute not before any minute the clock fired (`Accounts`). `BudgetInv` says that captured
  record and row count alike and that a dispatch of the clock was admitted below the ceiling.
- `RunsDoNotOverlap`: `NoCatchUp => (Spec => []OneLiveRun)`. Two runs of a schedule with overlap `skip` may go on together:
  the check does not see a launch that was written off or lost with the broker, whose host has not connected, or
  whose row is out of the window. The property says that nothing else gets past it, and the theorem says so for
  any window, edits, deletions, crashes, timeouts and late hosts. The check asks about one row, the newest launch, and the older
  ones could still run; so the invariant is stronger: a run that goes on although a later one
  was dispatched under `skip` had slipped already (`SlippedFirst`), whether the later one still goes on or not. The rows of a
  schedule's launches come in the order of the launches (`RowsInOrder`), because the guard admits one
  dispatch at a time (`NoDoubles`): a new dispatch finds the newest one the check sees over, and whatever older one
  still goes on had slipped when that one started.

- `RecentMissHolds`: `Spec => RecentMissIsCaughtUp`. The property is about a step of the boot walk: when it passes a
  task that missed a minute inside the grace and whose misses fit the cap, it leaves the task stamped by the catch-up.
  The newest missed minute is the last of those the walk keeps (`LastMinute`, `RecentMissIsSeen`), and the claim stamps
  the row whatever the fire's verdict (`ClaimStamps`); without the premise on the cap it fails (section 5).

`SeatLease_proofs`:

- `SeatTypeCorrect`: `Spec => []TypeOK`.
- `ImplementsRegister`: `Spec => Register!Spec`. `RegInv` relates the two: the generation on
  the card is the length of `grants`, generation 0 has no holder, and a holder's lease carries
  a time. A grant is an `Award`,
  an effective release a `Vacate`, everything else stutters.
- `TakeoversJustified`: `Spec => TakeoverJustified`. The claim carries what the broker
  believed one round trip earlier, so the invariant follows that belief: `SnapInv` says a
  `seat_get` answer is never ahead of the card and, if no generation was awarded since, that
  the holder it names still holds the seat or nobody does, `MsgInv` that a claim
  in transit never expects a later generation than the card's, and that if it expects the
  card's own and says "the holder is not alive", that generation has lapsed; `LapseInv` says
  that a generation with no live holder is in `lapsed`. Then a
  grant over a holder either found the generation it expected, hence lapsed, or a stale lease.
- `GripsAreKept`: `Spec => []GripKept`. A seat loses the grip without a later grant to its own release only. `GripInv`
  therefore says of a seat that was told it holds the card that it does, or somebody was granted later, and
  that no release of its own is on the way (`HeldInv`); the same of a seat whose call is about to tell it so
  (`TellInv`, `PastInv`), because a broken call may have been granted before its answer travels. A release that a
  broken call left on the socket stands in front of the read of the call that follows it (`LineInv`): the
  tool awaits one call at a time and the socket keeps the order. `OpenInv` ties a call to one seat.

`HostTransport_proofs`:

- `TransportTypes`: `Spec => []TypeOK`.
- `RingReplaysTheLatest`: `Spec => []ReplayIsRecent`. `RingInv` says which batch every slot
  holds: slot `(n - 1) % RingSize` holds batch `n` for the last `ringCount` batches. The modular
  arithmetic is in lemmas of its own.

- `NoSilentLoss`: `Spec => []Accounted`. A batch that is not in the record has to be followed
  everywhere it can be: queue, wire of each socket, lost. `FreshWires` says that sockets not
  yet opened carry nothing, `Announced` that on every wire the initial message comes before any batch
  unless the broker knows the conversation, so that ingest discards none.

`MessageRouter_proofs`:

- `QueueBehindNobody`: `Spec => []NothingWaitsBehindLive`, with `LiveKnown` (whoever has a
  socket has a record). A row is queued only if no live conversation would drain it, and
  `meta` drains before the conversation counts as up.
- `RefusalHolds`: `Spec => DenyHolds`, from the invariant that a pair that cools off is
  neither linked nor stored.
- `MessagesConserved`: `Spec => []Conserved`. `EveryMove` shows that each step is one of five moves: nothing,
  rows dropped, rows handed over, a message queued, a message delivered. `PlaceInv` says that rows, inboxes and
  what is lost share no number and that together they hold every number given out; each move keeps it. The
  hand-over has to name each of its rows once: a row's place in the order is its rank among the
  rows handed over (`Ranks`).
- `RouterTyped`: `Spec => []TypeOK`, from the same invariant, `RefusedIsForgotten` for the disjointness of
  links and refusals, and the types of the rest (`SideInv`).
- `ConsentComesFirst`: `Spec => PendingNeedsConsent`. `KindInv` ties a row to its message: its kind is the way
  the message was accepted, and a pending one carries the pair of its sender and target. What is handed over is then either
  offline rows, or rows of one pair that the same step links or grants across (`Allowed`).

- `LanesAreOrdered`: `Spec => []HeardInOrder`. `AheadInv` says that what a conversation has heard of a lane is below every
  row of that lane it may still be handed. A drain keeps it because it is `Whole`: it takes everything
  there is for the conversation, or everything of a pair of projects; what is queued or sent later is above
  all of it. Inside one hand-over the ranks ascend.
- `ImplementsMailbox`: `Spec => Box!Spec`. Each of the five moves is a step of the mailbox or none; that an evicted
  or dropped row takes only its own number away is `RowsInv`.

`PanelSync_proofs`:

- `FilterIsSafe`: `Spec => []FilterDropsOnlyHeld`. A broadcast that arrives at or below the floor is dropped. What
  makes this safe is spread over the panel, the requests under way and the socket. A row is watched (`Watched`) if the
  panel would keep it and it is the newest one, or is on the socket and in a full answer. `ShowInv` says that a watched row
  which the panel's entries or its floor have reached is among the entries (`Covers`), `AnsInv` the same of every answer
  that waits to be applied, `AskInv` that no request asks only for rows past one that is on the
  socket or the newest, and `LineInv` that a broadcast has nothing newer before it on the socket.
- `SyncIsTruthful`: `Spec => []InSyncShowsNewest`, from the same invariant, of which the newest row is a case.

`EpicBeat_proofs`:

- `EpicTypes`: `Spec => []TypeOK`. `TypeInv` types what a beat has left to do: a planned take has room
  under `MaxGens` (the compare-and-swap then says the lease still has that generation), and what concerns
  a card or a conversation names one. The decision is a lemma of its own (`DecideTyped`), which also bounds the dry count.
- `RunsStayArmed`: `Spec => []LiveRunIsArmed`. A beat acts on a status it read some awaits ago, and a
  take or an adopt sets the run to `running`. `ArmInv` therefore adds that a beat that acts has somebody watching
  the run, or something crossed it, and that what stands down is a run that is over, or was crossed; for that,
  `TodoOK` says that release and forget are never behind another step.

- `GenerationNamesOneMaster`: `Spec => []LeaseNames`. Between the take and the adoption the lease names
  a placeholder, so `NameInv` speaks of the standing werk-masters instead of the holder: none is of a later
  generation than the lease's, no two are of one, and while a wake is at the head of what the beat has left
  none is of the lease's own. An adoption carries the lease's generation, because no other take happens
  inside a beat.
- `CardsHaveOneSeat`: `Spec => []SeatsSingle`. A seat the engine has not lost sight of is in the registry, or
  held by the baton, or about to be written there (`SeenInv`); until a beat has read the baton, each is held there or
  counted by the fold the beat took before (`FoldInv`); and what a beat has left sends at most one seat of a
  role to a card, to cards that have none (`FitPlan`). That the plan names a card once
  is a count: it has as many steps as cards and names them all (`StepsForOnePerCard`).

`Nightshift_proofs` and `NightCards_proofs`. All five rest on `BaseInv`: the shape of a call at each of its
awaits (`RunInv`), the types, and `WorkInv`: whatever the tick, the ladder and the sweep hold across an await
has a conversation, so that the newest one they ask the registry for exists.

- `NightTyped`: `Spec => []TypeOK`. The shape is needed: only a call past its placeholder has an id.
- `LedgerWithinBudget`: `Spec => []NeverOverbooked`. Admission compares with the headroom it read, and the
  sum of what is outstanding grows only there.
- `LedgerIsExact`: `Spec => []LedgerExact`. The books change at admission, at a refused spawn and at
  the end of a worker, the run's slots at other steps. `AloneInv` supplies what makes them agree: at most
  one call has passed its check, and what it has yet to dispatch has no conversation, so the usage event of an
  ended worker never gives back the tokens of a task that is still waiting.
- `RetriesAreBounded`: `Spec => []RetriesBounded`. The number on the card is read, checked and written
  in three steps, while the sweep, the watchdog and a report write the same files. `RetryInv` counts retries made
  and the one about to be made against the cap, against the attempts on the card while it is running, and
  against the number a ladder has read, each with one more for every lost write. It uses that a card has one
  ladder (`inflightSettle`) and that retries do not come from anywhere else. It holds for one
  run a day: a second one numbers its cards from 1 again, and the property is stated accordingly.
- `CardsAreAccounted`: `Spec => []CardAccounted`. `CardInv` says that a card is settled or owed, that
  until the run is on disk every call is still before its queue or holds all of it, and that a
  dispatch past its placeholder has a file, which is what makes a failed spawn a settled card.

The library's induction theorems cannot be cited, because they take a predicate. Where a count
needs induction (the ordinals of a scan, pigeonhole for the plan) the lemmas argue from a least element of a set
instead (`LeastNumber`, `FirstGap`), or from an injection between sets of one size.

*Only model-checked.*

- Everything under fairness (`GuardReleased`, `BootWalkEnds`, `SpentIsDisarmed`, `CallsEnd`, `NoDeadCard`,
  `RunDrains`, `EntriesArrive`, `SessionLearned`, `CatchesUp`, `RunEnds`), which is out of the prover's reach.

Every invariant and action property of a run is stated by a theorem. The type invariants of `ScheduledTasks`, `SeatLease`
and `Nightshift` say nothing beyond types: they are proved (`TypeCorrect`, `SeatTypeCorrect`, `NightTyped`) and no run
repeats them.

## 5. Observations

Met while reading and modelling; each follows from a step of a model or from the lines
named. Scheduler files are under
`src/broker/scheduled-tasks`.

Scheduler:

- Two due minutes in the repeated hour both fire again: only the last wall-clock key is
  remembered (`policy.ts:90`), while `policy.ts:9` says a schedule fires at most once per wall-clock
  minute and `docs/scheduled-tasks.md:70` that it "Fires **once**". With one due minute the
  guard holds, which `clock` shows.
- The overlap check looks at the newest 20 rows (`engine.ts:105`), and its own refusals are
  rows: after 20 of them a second run starts beside the first (`docs/scheduled-tasks.md:217`).
- The overlap check does not see a launch whose host has not connected yet, nor one whose dispatch was answered by the
  15 s timeout (`spawn-dispatch.ts:462`, `wiring.ts:70-73`): a manual run or the next minute starts a second run beside it.
- Settlement upserts the record it captured before the dispatch (`fire.ts:539`): a schedule
  deleted meanwhile is back (`docs/scheduled-tasks.md:321`), and a PATCH that disables it is undone. In
  the same way a PATCH whose body arrives late restores an older `runCount` and `lastFiredMinuteKey` (`routes.ts:60`).
- The cap on missed minutes keeps the oldest (`policy.ts:132`), so after more than 20 misses the
  recent one, which `catch-up.ts:11-12` promises to run, is not among them. (Without its premise on the cap TLC refutes
  `RecentMissIsCaughtUp` with `MissedCap = 1` and two missed minutes.)
- The broker dies after the stamp and boots in the same minute: the catch-up fires the
  minute again, because `fireCatchUp` does not look at `lastFiredMinuteKey` (`catch-up.ts:61`).
- Two boots with no run in between record the same missed minutes twice, and a boot inside a due
  minute records it as missed before the boot tick runs it (`catch-up.ts:53`, `policy.ts:132`).
- A manual run in flight makes the tick pass over the due minute (`engine.ts:161`).
- A crash between a one-shot's stamp and its settlement leaves it disarmed without a row (`engine.ts:165`).

Seat lease:

- A claimant that lost only a race of generations is told to exit although nobody holds the
  card (`src/shared/epic-lease.ts:153`; `epic-seat-claim.ts:16-17`).
- A seat that claims again beside its own broken call can lose to itself
  (`epic-seat-claim.ts:274`), which the comment at 271-273 rules out.
- A seat's lease is never renewed, so a holder that works past `LEASE_STALE_MS` may be displaced
  while it works (`epic-lease.ts:164`); `TakeoverJustified` is stated accordingly.
- A refused seat exits whether or not the baton entry was written (`epic-seat-claim.ts:167`).

Nightshift:

- A spawned worker that has not connected yet is unknown to the registry and counts as ended
  (`nightshift-orchestrator.ts:316`).
- The check for an open run (`:419`) and its registration (`:464`) are three awaits apart, so
  two triggers may open two runs of one project (`:136` "One in-flight run per project").
- A restart between placeholder and spawn leaves a card `running` with no conversation, and
  an open run is not finalized after a restart. A run of the same day later reuses the run id and its
  ordinals: an ordinal then names two cards, and the worker of the second is counted with the retries of the
  first (with `MaxOpens = 2` TLC finds more than `AttemptCap` retries under one ordinal).
- The sweep acts on what it read before its awaits: it may start a second retry beside a live one.
- The watchdog writes its verdict to a file under the summary title, beside the card's own.
- A lost snapshot makes the tick patch a finished card `errored`. The result of the ladder's
  counter write is ignored, so a lost write buys one more retry (`RetriesBounded` counts it).
- Retried workers are tracked neither by the run's slots nor by the ledger.
- The watchdog sends terminate once and marks the conversation (`nightshift-watchdog.ts:130`, `:277-292`): a worker that
  hangs behind an open socket, or before its first turn, holds the run open for good. One that is revived before the next
  sweep keeps the mark and is not watched again (`:115-117`).
- A manual run has no window; without headroom it waits for as long as the headroom is missing.

Transport:

- The queue is flushed before the ring is replayed, so batches may be numbered out of order.
- Only transcript batches are replayed: any other message that goes down with a socket is lost, and
  a promote that overflows the queue is repaired only by the next socket's initial message.
- `close()` does not cancel an armed reconnect timer (`src/shared/host-transport/index.ts:460-467`).
- More than `RingSize` batches during one outage lose those that went down with the socket.

Panel:

- After a restart the counter is seeded from the chronological tail (`conversation-store.ts:3118`), so a
  check may answer "in sync" although rows are missing; `routes/conversations.ts:103` says the answer carries
  the largest number, the code takes the tail's.
- A dropped send followed by a delivered one is never noticed (`channel-registry.ts:229` relies on the
  check): only the largest numbers are compared.
- In the same way a row stored after the cold fetch was answered and before the panel subscribed is never
  fetched once a later one arrives live (`web/src/lib/transcript-apply.ts:51`).
- A late row at the head of the window makes `gap` true without a gap; one outside the window is
  asked for every minute in vain.
- `sync_stale` clears the floor; if the fetch it starts fails, the panel compares nothing until it reconnects.
- An old full snapshot applied after a live entry removes it until the next check.
- A live row followed by more rows than the panel keeps, or than one fetch returns, may be dropped by the filter for
  good: `FilterDropsOnlyHeld` speaks of the rows a full answer would still show. (Without that TLC finds the
  counterexample with a panel of one row, a fetch of one row and four stored rows.)

Router:

- Rows of the offline queue are drained without looking at the links (`message-queue.ts:9-10`,
  `channel.ts:997`), so a link severed meanwhile does not stop them.
- An approval hands every pending row of the pair, in both directions and for any sibling, to the
  conversation named in the banner; `channelLinkGrant` does so too, although `channel.ts:1484-1489` says it is
  not a project-wide grant.
- An approval while the target is disconnected drops the rows (`channel.ts:1407-1410`). `POST /api/links` links
  without draining.
- A message to a known, linked, disconnected conversation is refused, not queued
  (`docs/inter-session.md:4`).
- Rows for a pending spawn are queued under the name as typed; the drain looks for its slug.
- Between boot and meta a direct send overtakes queued rows; hosts that never send a meta never drain.
- Links cached from trust have no direction and outlive both the trust setting and "clear all".

Epic beat:

- A forced `break_lease` of a live werk-master, or a pause followed by a start, takes the age off the
  lease, and a live werk-master without a lease age holds every beat (`epic-beat.ts:521`), while
  `docs/epic-mode.md:519` and `routes/epic-actions.ts:150` say that the next beat wakes a fresh one. `RunEnds`
  excludes the state as `Ageless`.
- A werk-master that has not connected yet is invisible to the next beat, which takes its holder for dead: a
  settle during the launch wakes a second werk-master beside it, of a later generation
  (`src/shared/epic-lease.ts:2` "there can only be one").
- A completion entry names a card and not a role, so acknowledging a worker's settle ends the hold of a verifier
  that is on its way, and a second one may be sent (`cleared` in `SeatsSingle`).
- The beat reads the last 20 entries of the baton, while `epic-pending-seats.ts:82` asks for the whole of it.
- A settle that arrives while the werk-master is alive is acknowledged before the beat decides to
  hold (`epic-executor.ts`), so no later beat wakes for it. The dry count is patched before the wake, whether or
  not the wake succeeds.
- A pause or an abort between the beat's read and its lease is undone: the lease handler sets the status
  to `running` (`src/sentinel/epic-handlers.ts:154`).
- An adoption looks at the generation only: after a pause or a broken lease between the wake and the adoption it
  takes the grip that was given up, without a new generation and without a take time (TLC finds it with a broken
  lease as the only upset), while `epic-lease.ts:53` says an adoption keeps it. The
  werk-master's lease therefore does not implement `LeaseRegister`, where a vacated grip comes back with an award only.
- `settleRun` does not look at the result of its patch and stands down all the same
  (`epic-beat-actions.ts:532`): the run stays open and nobody watches it (`crossed` in `LiveRunIsArmed`).
- The verify lane has no ceiling: a card whose verifiers give no verdict is sent another for ever.
- A failed read of the board looks like an empty board.

## 6. Not modelled

- In the scheduler: `pruneRuns` (removal of rows by age, far beyond any bound), a PATCH of
  `enabled` and the definition together, the cron parser itself, the request builders behind
  `planFire`, and schema validation (a refused body is `PatchRefused`).
- In the seat lease: other seats of the same card (other keys), refusals of malformed calls
  before any state changes, a human editing or removing the card, `force` and `adopt`, which
  only the werk-master uses.
- In the epic beat: rough cards and questions, dependencies, the promise ledger, landing of branches, renames,
  the order between epics.
- In the other modules: what their *Abstractions* paragraphs name.
- Whole components: see section 1 and `PROJECT.json`. Rendering, model calls, transcoding and
  access decisions without interleaving are left to the repository's tests.

## 7. Plan

1. Several epics behind the queue, and an abstract lease with a wake and an adoption, which `EpicBeat` would refine.
2. `SpawnDispatch`: the rendezvous with its timeout and its job, composed with `ScheduledTasks` in place of
   `HostBoots` and `NeverComes`.
3. The conversation registry in full: reaping, resume, end, and the order of their events.

