-------------------------- MODULE NightCards_proofs --------------------------
(***************************************************************************)
(* Proofs about the cards of a night run: a task is retried a bounded      *)
(* number of times, and no card of an opened run is ever nowhere.          *)
(***************************************************************************)
EXTENDS Nightshift_proofs

-----------------------------------------------------------------------------
(* The inductive invariants.                                                *)

\* The retries of a task, and the one its ladder is about to make.
Retries(i) == {k \in Convs : conv[k].id = i /\ conv[k].retry}
Respawning(i) == IF ladder[i].pc = "respawn" THEN 1 ELSE 0
\* Every retry made or about to be made is on the card, but for lost writes.
RetryInv ==
    opens <= 1 => \A i \in Ids :
           /\ Cardinality(Retries(i)) + Respawning(i) <= AttemptCap + lost
           /\ View(i).st = "running" =>
                  Cardinality(Retries(i)) + Respawning(i) <= View(i).attempts + lost
           /\ ladder[i].pc = "bump" => Cardinality(Retries(i)) <= ladder[i].attempts + lost

\* A task is settled: skipped, ended or carried.
Settled(i)  == i \in skipped \/ Terminal(View(i)) \/ HasConv(i)
\* A card of an opened run is settled or owed; a run that opens owes them all;
\* a dispatch past its placeholder has a file.
CardInv ==
    lost = 0 /\ restarts = 0 =>
        /\ runmd # None => \A i \in Ids : Settled(i) \/ \E t \in Triggers : Owes(run[t], i)
        /\ runmd = None =>
               /\ tagged = Cards
               /\ \A t \in Triggers : /\ Unopened(run[t]) \/ Opening(run[t])
                                      /\ run[t].pc = "start" => Ids \subseteq PendIds(run[t])
        /\ \A t \in Triggers : run[t].pc \in {"untag", "spawn", "failed"} => FilesOf(run[t].id) # {}

-----------------------------------------------------------------------------
(* The files of a card.                                                     *)

\* One directory of card files: those there are, the first of the listing, and
\* what a reader sees.
Files(d)   == {x \in Titles : d[x].st # "none"}
FirstIn(d) == CHOOSE x \in Files(d) : \A y \in Files(d) : ReadRank[x] <= ReadRank[y]
Seen(d)    == IF Files(d) = {} THEN NoFile ELSE d[FirstIn(d)]
FileMap    == [Titles -> FileRecord]

\* A reader of the tree sees the directory of the card.
LEMMA ViewIsSeen ==
    ASSUME NEW i \in Ids
    PROVE  /\ View(i) = Seen(file[i]) /\ FilesOf(i) = Files(file[i])
           /\ First(i) = FirstIn(file[i])
  BY DEF View, Seen, FilesOf, Files, First, FirstIn

\* The first file of a directory comes before the others.
LEMMA FirstInIs ==
    ASSUME NEW d, Files(d) # {}
    PROVE  FirstIn(d) \in Files(d) /\ \A y \in Files(d) : ReadRank[FirstIn(d)] <= ReadRank[y]
  <1> DEFINE T == {ReadRank[x] : x \in Files(d)}
  <1>1. Files(d) \subseteq Titles /\ ReadRank \in [Titles -> Nat]
    BY NightAssumption DEF Files
  <1>2. T \in SUBSET Nat /\ T # {}
    BY <1>1
  <1>3. PICK n \in T : \A m \in T : n <= m
    <2> HIDE DEF T
    <2> QED BY <1>2, LeastNumber
  <1>4. PICK x \in Files(d) : ReadRank[x] = n
    OBVIOUS
  <1>5. \A y \in Files(d) : ReadRank[x] <= ReadRank[y]
    BY <1>3, <1>4
  <1> QED BY <1>4, <1>5 DEF FirstIn

\* The first file is patched: the reader sees the patch.
LEMMA SeenPatched ==
    ASSUME NEW d \in FileMap, Files(d) # {}, NEW f \in FileRecord, f.st # "none"
    PROVE  /\ Files([d EXCEPT ![FirstIn(d)] = f]) = Files(d)
           /\ Seen([d EXCEPT ![FirstIn(d)] = f]) = f
  <1> DEFINE x == FirstIn(d)
             e == [d EXCEPT ![x] = f]
  <1>1. x \in Files(d) /\ x \in Titles
    BY FirstInIs DEF Files
  <1>2. e[x] = f /\ \A y \in Titles : y # x => e[y] = d[y]
    BY <1>1 DEF FileMap
  <1> HIDE DEF e, x
  <1>3. Files(e) = Files(d)
    BY <1>1, <1>2 DEF Files
  <1>4. FirstIn(e) = x
    BY <1>3 DEF FirstIn, x
  <1> QED BY <1>2, <1>3, <1>4 DEF Seen, e, x

\* A file is written: the reader sees it, or what it saw before.
LEMMA SeenWritten ==
    ASSUME NEW d \in FileMap, NEW x \in Titles, NEW f \in FileRecord, f.st # "none"
    PROVE  /\ Files([d EXCEPT ![x] = f]) = Files(d) \cup {x}
           /\ Seen([d EXCEPT ![x] = f]) \in {f, Seen(d)}
  <1> DEFINE e == [d EXCEPT ![x] = f]
  <1>1. e[x] = f /\ \A y \in Titles : y # x => e[y] = d[y]
    BY DEF FileMap
  <1> HIDE DEF e
  <1>2. Files(e) = Files(d) \cup {x}
    BY <1>1 DEF Files
  <1>3. /\ FirstIn(e) \in Files(e) /\ \A y \in Files(e) : ReadRank[FirstIn(e)] <= ReadRank[y]
        /\ Seen(e) = e[FirstIn(e)]
    BY <1>2, FirstInIs DEF Seen
  <1>4. CASE FirstIn(e) = x
    BY <1>1, <1>2, <1>3, <1>4 DEF e
  <1>5. CASE FirstIn(e) # x
    <2>1. FirstIn(e) \in Files(d) /\ Files(d) # {}
      BY <1>2, <1>3, <1>5
    <2>2. /\ FirstIn(d) \in Files(d) /\ ReadRank[FirstIn(d)] <= ReadRank[FirstIn(e)]
          /\ ReadRank[FirstIn(e)] <= ReadRank[FirstIn(d)]
      BY <1>2, <1>3, <2>1, FirstInIs
    <2>3. ReadRank[FirstIn(d)] = ReadRank[FirstIn(e)] /\ FirstIn(d) \in Titles /\ FirstIn(e) \in Titles
      <3>1. \A y \in Titles : ReadRank[y] \in Nat
        BY NightAssumption
      <3>2. FirstIn(d) \in Titles /\ FirstIn(e) \in Titles
        BY <2>1, <2>2 DEF Files
      <3> QED BY <2>2, <3>1, <3>2
    <2>4. FirstIn(d) = FirstIn(e)
      <3>1. \A a, b \in Titles : ReadRank[a] = ReadRank[b] => a = b
        <4>1. ReadRank \in [Titles -> Nat] /\ IsInjective(ReadRank)
          BY NightAssumption
        <4> QED BY <4>1 DEF IsInjective
      <3> QED BY <2>3, <3>1
    <2>5. Seen(e) = Seen(d)
      BY <1>1, <1>3, <1>5, <2>1, <2>3, <2>4 DEF Seen
    <2> QED BY <1>2, <2>5 DEF e
  <1> QED BY <1>4, <1>5

\* What a step did to the files of a card.
Grows(i)     == Files(file[i]) \subseteq Files(file'[i])
SeenSame(i)  == Seen(file'[i]) = Seen(file[i])
SeenEnded(i) == Terminal(Seen(file'[i]))

\* A write changes one card, to what was written or not at all.
LEMMA Written ==
    ASSUME Typed, NEW j, NEW x \in Titles, NEW st \in {"running", "done", "errored"}, Write(j, x, st)
    PROVE  \A i \in Ids : /\ Grows(i)
                          /\ i # j => SeenSame(i)
                          /\ SeenSame(i) \/ Seen(file'[i]) = [st |-> st, attempts |-> 0]
                          /\ i = j => Files(file'[i]) # {}
  <1> DEFINE f == [st |-> st, attempts |-> 0]
  <1>1. f \in FileRecord /\ f.st = st
    BY NightAssumption DEF FileRecord
  <1> HIDE DEF f
  <1>2. file \in [Ids -> FileMap]
    BY DEF Typed, FileMap
  <1>3. file' = [file EXCEPT ![j] = [file[j] EXCEPT ![x] = f]]
    BY DEF Write, f
  <1> SUFFICES ASSUME NEW i \in Ids
               PROVE  /\ Grows(i)
                      /\ i # j => SeenSame(i)
                      /\ SeenSame(i) \/ Seen(file'[i]) = f
                      /\ i = j => Files(file'[i]) # {}
    BY DEF f
  <1>4. CASE i = j
    <2>1. file'[i] = [file[i] EXCEPT ![x] = f] /\ file[i] \in FileMap
      BY <1>2, <1>3, <1>4
    <2>2. Files(file'[i]) = Files(file[i]) \cup {x} /\ Seen(file'[i]) \in {f, Seen(file[i])}
      BY <1>1, <2>1, SeenWritten
    <2> QED BY <1>4, <2>2 DEF Grows, SeenSame
  <1>5. CASE i # j
    <2>1. file'[i] = file[i]
      BY <1>2, <1>3, <1>5
    <2> QED BY <1>5, <2>1 DEF Grows, SeenSame
  <1> QED BY <1>4, <1>5

\* A patch changes one card that has a file, to what was patched.
LEMMA Patched ==
    ASSUME Typed, NEW j \in Ids, NEW st \in {"running", "errored"}, NEW n \in 0..AttemptCap, Patch(j, st, n)
    PROVE  \A i \in Ids : /\ Grows(i)
                          /\ i # j => SeenSame(i)
                          /\ Files(file[i]) = {} => SeenSame(i)
                          /\ i = j /\ Files(file[i]) # {} => Seen(file'[i]) = [st |-> st, attempts |-> n]
  <1> DEFINE f == [st |-> st, attempts |-> n]
  <1>1. f \in FileRecord /\ f.st # "none"
    BY DEF FileRecord
  <1> HIDE DEF f
  <1>2. file \in [Ids -> FileMap]
    BY DEF Typed, FileMap
  <1>3. IF Files(file[j]) = {} THEN file' = file
        ELSE file' = [file EXCEPT ![j] = [file[j] EXCEPT ![FirstIn(file[j])] = f]]
    BY ViewIsSeen DEF Patch, f
  <1> SUFFICES ASSUME NEW i \in Ids
               PROVE  /\ Grows(i)
                      /\ i # j => SeenSame(i)
                      /\ Files(file[i]) = {} => SeenSame(i)
                      /\ i = j /\ Files(file[i]) # {} => Seen(file'[i]) = f
    BY DEF f
  <1>4. CASE i = j /\ Files(file[j]) # {}
    <2>1. file'[i] = [file[i] EXCEPT ![FirstIn(file[i])] = f] /\ file[i] \in FileMap
      BY <1>2, <1>3, <1>4
    <2>2. Files(file'[i]) = Files(file[i]) /\ Seen(file'[i]) = f
      BY <1>1, <1>4, <2>1, SeenPatched
    <2> QED BY <1>4, <2>2 DEF Grows, SeenSame
  <1>5. CASE ~(i = j /\ Files(file[j]) # {})
    <2>1. file'[i] = file[i]
      BY <1>2, <1>3, <1>5
    <2> QED BY <1>5, <2>1 DEF Grows, SeenSame
  <1> QED BY <1>4, <1>5

\* No write, no change.
LEMMA FilesSame ==
    ASSUME file' = file
    PROVE  \A i \in Ids : Grows(i) /\ SeenSame(i)
  BY DEF Grows, SeenSame

\* A stamp leaves a card as it is or ends it.
LEMMA Stamped ==
    ASSUME Typed, NEW j \in Ids, NEW ok \in BOOLEAN, StampErrored(j, ok)
    PROVE  /\ \A i \in Ids : Grows(i) /\ (SeenSame(i) \/ SeenEnded(i))
           /\ ok /\ Files(file[j]) # {} => SeenEnded(j)
  <1>1. CASE ok
    <2>1. Patch(j, "errored", View(j).attempts) /\ View(j).attempts \in 0..AttemptCap
      BY <1>1, ViewIs DEF StampErrored
    <2> DEFINE n == View(j).attempts
    <2>2. n \in 0..AttemptCap /\ Patch(j, "errored", n)
      BY <2>1
    <2> HIDE DEF n
    <2>3. \A i \in Ids : /\ Grows(i)
                         /\ i # j => SeenSame(i)
                         /\ Files(file[i]) = {} => SeenSame(i)
                         /\ i = j /\ Files(file[i]) # {} => Seen(file'[i]) = [st |-> "errored", attempts |-> n]
      BY <2>2, Patched
    <2>4. Terminal([st |-> "errored", attempts |-> n])
      BY DEF Terminal
    <2> QED BY <2>3, <2>4 DEF SeenEnded
  <1>2. CASE ~ok
    BY <1>2, FilesSame DEF StampErrored
  <1> QED BY <1>1, <1>2

-----------------------------------------------------------------------------
(* Retries.                                                                 *)

\* A dispatch writes the placeholder of a task; the ladder counts an attempt.
Places(i) == /\ \E t \in Triggers : Placeholder(t) /\ run[t].id = i
             /\ Seen(file'[i]) = [st |-> "running", attempts |-> 0]
Counts(i) == LadderBump(i) /\ Seen(file'[i]) = [st |-> "running", attempts |-> ladder[i].attempts + 1]

\* Files do not vanish, and what a reader sees of a card changes in four ways only.
LEMMA FileSteps ==
    ASSUME BaseInv, [Next]_vars
    PROVE  \A i \in Ids : Grows(i) /\ (SeenSame(i) \/ SeenEnded(i) \/ Places(i) \/ Counts(i))
  <1> USE DEF BaseInv
  <1> DEFINE Goal == \A i \in Ids : Grows(i) /\ (SeenSame(i) \/ SeenEnded(i) \/ Places(i) \/ Counts(i))
  <1>1. \/ file' = file
        \/ \E t \in Triggers : PatchErrored(t) \/ Placeholder(t) \/ SpawnFailed(t)
        \/ \E i \in Ids : LadderBump(i) \/ LadderStamp(i)
        \/ SweepStamp
        \/ \E k \in Convs : Report(k) \/ WatchdogStamps(k)
    BY DEF Next, Consider, Advance, RunNightshift, ScanBoard, RunStart, Tick, Snapshot,
                    LadderAwaited, Starve, Untag, SpawnWorker, Finalize, UsageEvent, SleepOver,
                    WindowCloses, Settle, LadderRead, LadderRespawn, Sweep, SweepStart, SweepRead,
                    SweepLadder, Worker, Watchdog, Boot, WorkerEnds, SocketCloses, WatchdogKills,
                    BrokerUnchanged, vars, control, artifacts, workers, guardian, Restart
  <1>2. CASE file' = file
    BY <1>2, FilesSame
  <1>3. ASSUME NEW j \in Ids, \E ok \in BOOLEAN : StampErrored(j, ok) PROVE Goal
    BY <1>3, Stamped
  <1>4. ASSUME NEW t \in Triggers, PatchErrored(t) \/ SpawnFailed(t) PROVE Goal
    <2>1. run[t].id \in Ids
      BY <1>4 DEF RunInv, Shape, Reaping, PatchErrored, SpawnFailed
    <2>2. \E ok \in BOOLEAN : StampErrored(run[t].id, ok)
      BY <1>4 DEF PatchErrored, SpawnFailed
    <2> QED BY <1>3, <2>1, <2>2
  <1>5. ASSUME NEW t \in Triggers, Placeholder(t) PROVE Goal
    <2>1. run[t].card \in Titles
      BY DEF RunInv, RunRecord
    <2>2. file' = file \/ Write(run[t].id, run[t].card, "running")
      BY <1>5 DEF Placeholder
    <2>3. CASE Write(run[t].id, run[t].card, "running")
      <3>1. \A i \in Ids : /\ Grows(i)
                           /\ i # run[t].id => SeenSame(i)
                           /\ SeenSame(i) \/ Seen(file'[i]) = [st |-> "running", attempts |-> 0]
        BY <2>1, <2>3, Written
      <3> QED BY <1>5, <3>1 DEF Places
    <2> QED BY <2>2, <2>3, <1>2
  <1>6. ASSUME NEW j \in Ids, LadderBump(j) PROVE Goal
    <2> DEFINE n == ladder[j].attempts + 1
    <2>1. ladder[j] \in LadderRecord /\ ladder[j].attempts < AttemptCap
      BY <1>6 DEF LadderBump, Typed
    <2>2. n \in 0..AttemptCap
      BY <2>1, NightAssumption DEF LadderRecord
    <2>3. file' = file \/ Patch(j, "running", n)
      BY <1>6 DEF LadderBump
    <2>4. CASE Patch(j, "running", n)
      <3> HIDE DEF n
      <3>1. \A i \in Ids : /\ Grows(i)
                           /\ i # j => SeenSame(i)
                           /\ Files(file[i]) = {} => SeenSame(i)
                           /\ i = j /\ Files(file[i]) # {} => Seen(file'[i]) = [st |-> "running", attempts |-> n]
        BY <2>2, <2>4, Patched
      <3> QED BY <1>6, <3>1 DEF Counts, n
    <2> QED BY <2>3, <2>4, <1>2
  <1>7. ASSUME NEW j \in Ids, LadderStamp(j) PROVE Goal
    BY <1>3, <1>7 DEF LadderStamp
  <1>8. CASE SweepStamp
    <2>1. sweep.id \in Ids /\ \E ok \in BOOLEAN : StampErrored(sweep.id, ok)
      BY <1>8 DEF SweepStamp, WorkInv, SweepInv
    <2> QED BY <1>3, <2>1
  <1>9. ASSUME NEW x \in Titles, NEW j, NEW st \in {"done", "errored"}, Write(j, x, st) PROVE Goal
    <2>1. \A i \in Ids : Grows(i) /\ (SeenSame(i) \/ Seen(file'[i]) = [st |-> st, attempts |-> 0])
      BY <1>9, Written
    <2>2. Terminal([st |-> st, attempts |-> 0])
      BY DEF Terminal
    <2> QED BY <2>1, <2>2 DEF SeenEnded
  <1>10. ASSUME NEW k \in Convs, Report(k) PROVE Goal
    <2>1. conv[k].card \in Titles
      BY DEF Typed, ConvRecord
    <2> QED BY <1>9, <1>10, <2>1 DEF Report
  <1>11. ASSUME NEW k \in Convs, WatchdogStamps(k) PROVE Goal
    <2>1. Summary \in Titles
      BY DEF Titles
    <2>2. file' = file \/ Write(conv[k].id, Summary, "errored")
      BY <1>11 DEF WatchdogStamps
    <2> QED BY <1>2, <1>9, <2>1, <2>2
  <1> QED BY <1>1, <1>2, <1>4, <1>5, <1>6, <1>7, <1>8, <1>10, <1>11

\* The count of lost round trips only grows.
LEMMA LossesCount ==
    ASSUME BaseInv, [Next]_vars
    PROVE  lost \in Nat /\ lost' \in Nat /\ lost <= lost'
  <1>1. lost' = lost \/ \E ok \in BOOLEAN : Rpc(ok)
    BY ZenonT(60) DEF Next, Consider, Advance, RunNightshift, ScanBoard, RunStart, Tick, Snapshot,
                    PatchErrored, LadderAwaited, Starve, Placeholder, Untag, SpawnWorker, SpawnFailed,
                    Finalize, UsageEvent, SleepOver, WindowCloses, Settle, LadderRead, LadderBump,
                    LadderRespawn, LadderStamp, Sweep, SweepStart, SweepRead, SweepStamp, SweepLadder,
                    Worker, Watchdog, Boot, Report, WorkerEnds, SocketCloses, WatchdogStamps,
                    WatchdogKills, BrokerUnchanged, vars, control, artifacts, workers, guardian, Restart
  <1>2. lost \in Nat
    BY NightAssumption DEF BaseInv, Typed
  <1> QED BY <1>1, <1>2 DEF Rpc

\* A ladder reads, counts and respawns by its own steps only.
LEMMA LadderOwn ==
    ASSUME BaseInv, [Next]_vars, NEW i \in Ids
    PROVE  \/ ladder'[i] = ladder[i] /\ ~LadderRespawn(i)
           \/ ladder'[i].pc \notin {"bump", "respawn"} /\ ~LadderRespawn(i)
           \/ LadderRead(i) \/ LadderBump(i) \/ LadderRespawn(i)
  <1> USE DEF BaseInv
  <1> DEFINE Goal == ladder'[i] = ladder[i] \/ ladder'[i].pc \notin {"bump", "respawn"}
                     \/ LadderRead(i) \/ LadderBump(i) \/ LadderRespawn(i)
  <1>1. ladder \in [Ids -> LadderRecord]
    BY DEF Typed
  <1>2. \A j, k : [NoLadder EXCEPT !.pc = "read", !.conv = k].pc = "read" /\ NoLadder.pc = "none"
    BY DEF NoLadder
  <1>3. \/ ladder' = ladder
        \/ \E t \in Triggers : Snapshot(t)
        \/ \E j \in Ids : LadderRead(j) \/ LadderBump(j) \/ LadderRespawn(j) \/ LadderStamp(j)
        \/ SweepRead
        \/ Restart
    BY DEF Next, Consider, Advance, RunNightshift, ScanBoard, RunStart, Tick, PatchErrored,
                    LadderAwaited, Starve, Placeholder, Untag, SpawnWorker, SpawnFailed, Finalize,
                    UsageEvent, SleepOver, WindowCloses, Settle, Sweep, SweepStart, SweepStamp,
                    SweepLadder, Worker, Watchdog, Boot, Report, WorkerEnds, SocketCloses,
                    WatchdogStamps, WatchdogKills, BrokerUnchanged, vars, control, artifacts, workers,
                    guardian
  <1>4. ASSUME NEW j, NEW l, ladder' = [ladder EXCEPT ![j] = l], l.pc \notin {"bump", "respawn"}
        PROVE  Goal
    BY <1>1, <1>4
  <1>5. ASSUME NEW t \in Triggers, Snapshot(t) PROVE Goal
    <2>1. \/ ladder' = ladder
          \/ ladder' = [ladder EXCEPT ![run[t].id] = [NoLadder EXCEPT !.pc = "read", !.conv = run[t].conv]]
      BY <1>5 DEF Snapshot
    <2> QED BY <1>2, <1>4, <2>1, ZenonT(60)
  <1>6. CASE SweepRead
    <2>1. \/ ladder' = ladder
          \/ ladder' = [ladder EXCEPT ![sweep.id] = [NoLadder EXCEPT !.pc = "read", !.conv = sweep.dead[sweep.id]]]
      BY <1>6 DEF SweepRead
    <2> QED BY <1>2, <1>4, <2>1
  <1>7. CASE Restart
    <2>1. ladder' = [j \in Ids |-> NoLadder]
      BY <1>7 DEF Restart
    <2> QED BY <1>2, <2>1
  <1>8. ASSUME NEW j \in Ids, LadderRead(j) \/ LadderBump(j) \/ LadderRespawn(j) \/ LadderStamp(j)
        PROVE  Goal
    <2>1. CASE i = j
      <3>1. CASE LadderStamp(i)
        BY <1>2, <1>4, <3>1 DEF LadderStamp
      <3> QED BY <1>8, <2>1, <3>1
    <2>2. CASE i # j
      <3>1. \A l \in Ids : l # j => ladder'[l] = ladder[l]
        BY <1>1, <1>8 DEF LadderRead, LadderBump, LadderRespawn, LadderStamp, Climb
      <3> QED BY <2>2, <3>1
    <2> QED BY <2>1, <2>2
  <1> QED BY <1>3, <1>5, <1>6, <1>7, <1>8

\* What a step does to the retries of a task.
LEMMA ConvsFinite == IsFiniteSet(Convs) /\ \A s \in SUBSET Convs : IsFiniteSet(s) /\ Cardinality(s) \in Nat
  <1>1. IsFiniteSet(Convs)
    BY NightAssumption, FS_Interval DEF Convs
  <1> QED BY <1>1, FS_Subset, FS_CardinalityType

\* The ladder's respawn adds one retry of its task, or none; nothing else adds any.
LEMMA RetriesKept ==
    ASSUME BaseInv, [Next]_vars, NEW i \in Ids
    PROVE  /\ Cardinality(Retries(i)) \in Nat
           /\ ~LadderRespawn(i) => Cardinality(Retries(i)') = Cardinality(Retries(i))
           /\ LadderRespawn(i) => \/ Cardinality(Retries(i)') = Cardinality(Retries(i))
                                  \/ Cardinality(Retries(i)') = Cardinality(Retries(i)) + 1
  <1>1. Retries(i) \in SUBSET Convs /\ Retries(i)' \in SUBSET Convs
    BY DEF Retries, Convs
  <1>2. ConvKept => Retries(i)' = Retries(i)
    BY DEF ConvKept, Alike, Retries, Convs
  <1>3. ASSUME NEW j, NEW again \in BOOLEAN, ConvAdds(j, again)
        PROVE  \/ Retries(i)' = Retries(i)
               \/ i = j /\ again /\ \E n \in Convs : n \notin Retries(i) /\ Retries(i)' = Retries(i) \cup {n}
    <2>1. PICK n \in Convs : /\ conv[n].st = "none"
                             /\ conv'[n].id = j /\ conv'[n].retry = again
                             /\ \A k \in Convs : k # n => conv'[k] = conv[k]
      BY <1>3 DEF ConvAdds
    <2>2. conv[n].id = 0
      BY <2>1 DEF BaseInv, WorkInv, ConvInv, NoConv
    <2>3. n \notin Retries(i)
      BY <2>2, IdsFinite DEF Retries
    <2>4. Retries(i)' = {k \in Convs : conv'[k].id = i /\ conv'[k].retry}
      BY DEF Retries, Convs
    <2>5. CASE i = j /\ again
      <3>1. Retries(i)' = Retries(i) \cup {n}
        BY <2>1, <2>4, <2>5 DEF Retries
      <3> QED BY <2>3, <2>5, <3>1
    <2>6. CASE ~(i = j /\ again)
      <3>1. Retries(i)' = Retries(i)
        BY <2>1, <2>3, <2>4, <2>6 DEF Retries
      <3> QED BY <3>1
    <2> QED BY <2>5, <2>6
  <1>4. \A n : n \notin Retries(i) => Cardinality(Retries(i) \cup {n}) = Cardinality(Retries(i)) + 1
    BY <1>1, ConvsFinite, FS_AddElement
  <1>5. Cardinality(Retries(i)) \in Nat
    BY <1>1, ConvsFinite
  <1>6. \A t \in Triggers : SpawnWorker(t) /\ ConvAdds(run[t].id, FALSE) => Retries(i)' = Retries(i)
    BY <1>3
  <1>7. ASSUME NEW j \in Ids, LadderRespawn(j), ConvAdds(j, TRUE)
        PROVE  \/ Retries(i)' = Retries(i)
               \/ LadderRespawn(i) /\ \E n : n \notin Retries(i) /\ Retries(i)' = Retries(i) \cup {n}
    BY <1>3, <1>7
  <1>8. \/ Retries(i)' = Retries(i)
        \/ LadderRespawn(i) /\ \E n : n \notin Retries(i) /\ Retries(i)' = Retries(i) \cup {n}
    BY <1>2, <1>6, <1>7, ConvSteps DEF BaseInv
  <1> QED BY <1>4, <1>5, <1>8

\* The counter is written, or the write is lost; a task is dispatched before it
\* has a conversation.
LEMMA BumpCounts ==
    ASSUME BaseInv, NEW i \in Ids, LadderBump(i)
    PROVE  /\ ladder[i].pc = "bump" /\ ladder'[i].pc = "respawn"
           /\ \/ lost' = lost + 1 /\ file' = file
              \/ Seen(file'[i]).st # "running"
              \/ Seen(file'[i]).attempts = ladder[i].attempts + 1
  <1> DEFINE n == ladder[i].attempts + 1
  <1> USE DEF BaseInv
  <1>1. ladder[i] \in LadderRecord /\ ladder[i].attempts < AttemptCap /\ ladder \in [Ids -> LadderRecord]
    BY DEF LadderBump, Typed
  <1>2. n \in 0..AttemptCap
    BY <1>1, NightAssumption DEF LadderRecord
  <1>5. ladder[i].pc = "bump" /\ ladder'[i].pc = "respawn"
    BY <1>1 DEF LadderBump, Climb, LadderRecord
  <1>3. (lost' = lost + 1 /\ file' = file) \/ Patch(i, "running", n)
    BY DEF LadderBump, Rpc
  <1>4. CASE Patch(i, "running", n)
    <2> HIDE DEF n
    <2>1. /\ Files(file[i]) = {} => SeenSame(i)
          /\ Files(file[i]) # {} => Seen(file'[i]) = [st |-> "running", attempts |-> n]
      BY <1>2, <1>4, Patched
    <2>2. Files(file[i]) = {} => Seen(file'[i]).st = "none"
      BY <2>1 DEF SeenSame, Seen, NoFile
    <2>3. Seen(file'[i]).st # "running" \/ Seen(file'[i]).attempts = n
      BY <2>1, <2>2
    <2> USE DEF n
    <2> QED BY <1>5, <2>3
  <1> QED BY <1>3, <1>4, <1>5

\* A ladder that is to count has read a running card and its attempts.
LEMMA ReadFinds ==
    ASSUME BaseInv, NEW i \in Ids, LadderRead(i)
    PROVE  /\ ladder[i].pc = "read" /\ ladder'[i].pc # "respawn"
           /\ ladder'[i].pc = "bump" => View(i).st = "running" /\ ladder'[i].attempts = View(i).attempts
           /\ file' = file
  <1>1. ladder \in [Ids -> LadderRecord]
    BY DEF BaseInv, Typed
  <1>2. \/ ladder'[i] = NoLadder
        \/ View(i).st = "running" /\ \E retryable \in BOOLEAN :
               ladder' = [ladder EXCEPT ![i].attempts = View(i).attempts,
                   ![i].pc = IF retryable /\ View(i).attempts < AttemptCap THEN "bump" ELSE "stamp"]
    BY <1>1 DEF LadderRead
  <1>3. ASSUME NEW retryable \in BOOLEAN,
               ladder' = [ladder EXCEPT ![i].attempts = View(i).attempts,
                   ![i].pc = IF retryable /\ View(i).attempts < AttemptCap THEN "bump" ELSE "stamp"]
        PROVE  ladder'[i].attempts = View(i).attempts /\ ladder'[i].pc \in {"bump", "stamp"}
    <2> DEFINE pc == IF retryable /\ View(i).attempts < AttemptCap THEN "bump" ELSE "stamp"
               n  == View(i).attempts
    <2>1. pc \in {"bump", "stamp"}
      OBVIOUS
    <2> HIDE DEF pc, n
    <2>2. ladder' = [ladder EXCEPT ![i].attempts = n, ![i].pc = pc]
      BY <1>3 DEF pc, n
    <2>3. ladder'[i].attempts = n /\ ladder'[i].pc = pc
      BY <1>1, <2>2 DEF LadderRecord
    <2> QED BY <2>1, <2>3 DEF n
  <1>4. ladder[i].pc = "read" /\ file' = file
    BY DEF LadderRead, artifacts
  <1> QED BY <1>2, <1>3, <1>4 DEF NoLadder

\* A task that is being dispatched has had no retry and no ladder.
LEMMA PlacesAreFresh ==
    ASSUME BaseInv, AloneInv, opens <= 1, NEW i \in Ids, Places(i)
    PROVE  Retries(i) = {} /\ ladder[i].pc = "none" /\ ladder' = ladder
  <1>1. PICK t \in Triggers : Placeholder(t) /\ run[t].id = i
    BY DEF Places
  <1>2. i \in SentId(run[t])
    BY <1>1 DEF Placeholder, SentId, Sending
  <1>3. ~Carried(conv, i)
    BY <1>2 DEF AloneInv, AllFresh, Fresh
  <1> QED BY <1>1, <1>3 DEF Retries, Carried, BaseInv, WorkInv, LadderInv, HasConv, Placeholder, guardian

\* The count on the card covers the retries, step by step.
LEMMA RetriesStay ==
    ASSUME BaseInv, AloneInv, RetryInv, [Next]_vars
    PROVE  RetryInv'
  <1> SUFFICES ASSUME opens' <= 1, NEW i \in Ids
               PROVE  /\ Cardinality(Retries(i)') + Respawning(i)' <= AttemptCap + lost'
                      /\ View(i)'.st = "running" =>
                             Cardinality(Retries(i)') + Respawning(i)' <= View(i)'.attempts + lost'
                      /\ ladder'[i].pc = "bump" => Cardinality(Retries(i)') <= ladder'[i].attempts + lost'
    BY DEF RetryInv, Retries, Respawning
  <1> DEFINE R == Cardinality(Retries(i))    Q == Cardinality(Retries(i)')
             B == Respawning(i)              C == Respawning(i)'
             V == Seen(file[i])              W == Seen(file'[i])
             l == ladder[i]                  m == ladder'[i]
             was == lost                     now == lost'
             Goal == /\ Q + C <= AttemptCap + now
                     /\ W.st = "running" => Q + C <= W.attempts + now
                     /\ m.pc = "bump" => Q <= m.attempts + now
  <1>1. opens <= 1
    BY OpeningsCounted
  <1>2. View(i) = V /\ View(i)' = W
    <2>1. View(i)' = Seen(file'[i])
      BY ViewIsSeen DEF View, Seen, FilesOf, Files, First, FirstIn, Titles, Cards
    <2> QED BY <2>1, ViewIsSeen
  <1>3. /\ B = IF l.pc = "respawn" THEN 1 ELSE 0
        /\ C = IF m.pc = "respawn" THEN 1 ELSE 0
    BY DEF Respawning
  <1>4. /\ R + B <= AttemptCap + was
        /\ V.st = "running" => R + B <= V.attempts + was
        /\ l.pc = "bump" => R <= l.attempts + was
    BY <1>1, <1>2 DEF RetryInv
  <1>5. /\ R \in Nat /\ was \in Nat /\ now \in Nat /\ was <= now /\ AttemptCap \in Nat
        /\ V.attempts \in Nat /\ l.attempts \in Nat
    <2>1. V.attempts \in Nat
      BY <1>2, ViewIs DEF BaseInv
    <2>2. l.attempts \in Nat
      BY NightAssumption DEF BaseInv, Typed, LadderRecord
    <2> QED BY <2>1, <2>2, RetriesKept, LossesCount, NightAssumption
  <1>6. /\ ~LadderRespawn(i) => Q = R
        /\ LadderRespawn(i) => Q = R \/ Q = R + 1
    BY RetriesKept
  <1>7. \/ SeenSame(i) \/ SeenEnded(i) \/ Places(i) \/ Counts(i)
    BY FileSteps
  <1>8. \/ m = l /\ ~LadderRespawn(i)
        \/ m.pc \notin {"bump", "respawn"} /\ ~LadderRespawn(i)
        \/ LadderRead(i) \/ LadderBump(i) \/ LadderRespawn(i)
    BY LadderOwn
  <1>9. W.st = "running" => W = V \/ Places(i) \/ LadderBump(i)
    BY <1>7 DEF SeenSame, SeenEnded, Terminal, Counts
  <1>10. ASSUME LadderBump(i) PROVE Goal
    <2>1. /\ l.pc = "bump" /\ m.pc = "respawn" /\ l.attempts < AttemptCap
          /\ \/ now = was + 1 /\ W = V
             \/ W.st # "running"
             \/ W.attempts = l.attempts + 1
      BY <1>10, BumpCounts DEF BaseInv, Typed
    <2>2. ~LadderRespawn(i)
      BY <2>1 DEF LadderRespawn
    <2>3. Q = R /\ B = 0 /\ C = 1
      BY <1>3, <1>6, <2>1, <2>2
    <2> HIDE DEF Q, R, B, C, V, W, l, m, was, now
    <2>4. Q + C <= AttemptCap + now
      BY <1>4, <1>5, <2>1, <2>3
    <2>5. W.st = "running" => Q + C <= W.attempts + now
      BY <1>4, <1>5, <2>1, <2>3
    <2>6. m.pc # "bump"
      BY <2>1
    <2> QED BY <2>4, <2>5, <2>6
  <1>11. ASSUME ~LadderBump(i) /\ Places(i) PROVE Goal
    <2>1. Retries(i) = {} /\ l.pc = "none" /\ m = l
      BY <1>1, <1>11, PlacesAreFresh
    <2>2. ~LadderRespawn(i) /\ R = 0
      BY <2>1, FS_EmptySet DEF LadderRespawn
    <2>3. Q = 0 /\ C = 0
      BY <1>3, <1>6, <2>1, <2>2
    <2>4. W.attempts = 0
      BY <1>11 DEF Places
    <2> HIDE DEF Q, R, B, C, V, W, l, m, was, now
    <2>6. m.pc # "bump"
      BY <2>1
    <2>7. Q + C <= W.attempts + now
      BY <1>5, <2>3, <2>4
    <2>8. Q + C <= AttemptCap + now
      BY <1>5, <2>3
    <2>5. Q + C <= AttemptCap + now /\ Q + C <= W.attempts + now /\ m.pc # "bump"
      BY <2>6, <2>7, <2>8
    <2> QED BY <2>5
  <1>12. ASSUME ~LadderBump(i) /\ ~Places(i) PROVE Goal
    <2>1. W.st = "running" => W = V
      BY <1>9, <1>12
    <2>2. Q + C <= R + B
      <3>1. CASE LadderRespawn(i)
        <4>1. l.pc = "respawn" /\ m.pc # "respawn"
          <5>1. ladder[i].pc = "respawn" /\ ladder'[i] \in {NoLadder, [ladder[i] EXCEPT !.pc = "stamp"]}
            BY <3>1 DEF LadderRespawn, BaseInv, Typed
          <5>2. ladder[i] \in LadderRecord
            BY DEF BaseInv, Typed
          <5> QED BY <5>1, <5>2, NoLadderIs DEF LadderRecord
        <4>2. B = 1 /\ C = 0 /\ (Q = R \/ Q = R + 1)
          BY <1>3, <1>6, <3>1, <4>1
        <4> HIDE DEF Q, R, B, C, was, now
        <4> QED BY <1>5, <4>2
      <3>2. CASE ~LadderRespawn(i)
        <4>1. Q = R
          BY <1>6, <3>2
        <4>2. C <= B
          <5>1. m.pc = "respawn" => m = l
            BY <1>8, <1>12, <3>2, ReadFinds
          <5> HIDE DEF l, m, was, now
          <5> QED BY <1>3, <5>1
        <4>3. B \in Nat /\ C \in Nat
          BY <1>3
        <4> HIDE DEF Q, R, B, C, was, now
        <4> QED BY <1>5, <4>1, <4>2, <4>3
      <3> QED BY <3>1, <3>2
    <2>3. m.pc = "bump" => Q <= m.attempts + now
      <3> SUFFICES ASSUME m.pc = "bump" PROVE Q <= m.attempts + now
        OBVIOUS
      <3>1. CASE LadderRespawn(i)
        <4>1. ladder'[i] \in {NoLadder, [ladder[i] EXCEPT !.pc = "stamp"]} /\ ladder[i] \in LadderRecord
          BY <3>1 DEF LadderRespawn, BaseInv, Typed
        <4> QED BY <4>1, NoLadderIs DEF LadderRecord
      <3>2. CASE LadderRead(i)
        <4>1. V.st = "running" /\ m.attempts = V.attempts /\ l.pc = "read"
          BY <1>2, <3>2, ReadFinds
        <4>2. ~LadderRespawn(i)
          BY <4>1 DEF LadderRespawn
        <4>3. Q = R /\ B = 0
          BY <1>3, <1>6, <4>1, <4>2
        <4> HIDE DEF Q, R, B, C, V, W, l, m, was, now
        <4> QED BY <1>4, <1>5, <4>1, <4>3
      <3>3. CASE ~LadderRespawn(i) /\ ~LadderRead(i)
        <4>1. m = l /\ Q = R
          BY <1>6, <1>8, <1>12, <3>3
        <4> HIDE DEF Q, R, B, C, V, W, l, m, was, now
        <4> QED BY <1>4, <1>5, <4>1
      <3> QED BY <3>1, <3>2, <3>3
    <2>4. Q \in Nat /\ C \in Nat /\ B \in Nat
      <3>1. Q = R \/ Q = R + 1
        BY <1>6
      <3> HIDE DEF Q, R, was, now
      <3> QED BY <1>3, <1>5, <3>1
    <2> HIDE DEF Q, R, B, C, V, W, l, m, was, now
    <2>5. Q + C <= AttemptCap + now
      BY <1>4, <1>5, <2>2, <2>4
    <2>6. W.st = "running" => Q + C <= W.attempts + now
      BY <1>4, <1>5, <2>1, <2>2, <2>4
    <2> QED BY <2>3, <2>5, <2>6
  <1> QED BY <1>2, <1>10, <1>11, <1>12

\* A task is respawned at most AttemptCap times per night, and once more for each
\* lost write of its counter, however the tick, the sweep, the watchdog, late
\* reports and restarts interleave.
THEOREM RetriesAreBounded == Spec => []RetriesBounded
  <1>1. Init => RetryInv
    <2> SUFFICES ASSUME Init PROVE RetryInv
      OBVIOUS
    <2>1. \A i \in Ids : Retries(i) = {} /\ Respawning(i) = 0 /\ ladder[i].pc # "bump"
      BY DEF Init, Retries, Respawning, NoConv, NoLadder
    <2>2. \A i \in Ids : View(i).st = "none"
      BY DEF Init, View, FilesOf, NoFile
    <2>3. lost = 0 /\ AttemptCap \in Nat
      BY NightAssumption DEF Init
    <2> QED BY <2>1, <2>2, <2>3, FS_EmptySet DEF RetryInv
  <1>2. BaseInv /\ AloneInv /\ RetryInv /\ [Next]_vars => RetryInv'
    BY RetriesStay
  <1>3. BaseInv /\ RetryInv => RetriesBounded
    <2> SUFFICES ASSUME BaseInv, RetryInv, opens <= 1, NEW i \in Ids
                 PROVE  Cardinality(Retries(i)) <= AttemptCap + lost
      BY DEF RetriesBounded, Retries
    <2>1. Cardinality(Retries(i)) + Respawning(i) <= AttemptCap + lost
      BY DEF RetryInv
    <2>2. Respawning(i) \in {0, 1} /\ lost \in Nat /\ AttemptCap \in Nat
      BY NightAssumption DEF Respawning, BaseInv, Typed
    <2>3. Cardinality(Retries(i)) \in Nat
      BY ConvsFinite DEF Retries
    <2> QED BY <2>1, <2>2, <2>3
  <1> QED BY <1>1, <1>2, <1>3, AloneAlways, PTL DEF Spec

-----------------------------------------------------------------------------
(* Every card is somewhere.                                                 *)

\* What a moved run owed it still owes, or the task is settled; a dispatch past
\* its placeholder has a file; a queue starts whole.
Answered == lost = 0 /\ lost' = 0
SettledNext(i) == i \in skipped' \/ Terminal(Seen(file'[i])) \/ Carried(conv', i)
Handed(r, s) == \A i \in Ids : Owes(r, i) => Owes(s, i) \/ SettledNext(i)
Filed(s)     == s.pc \in {"untag", "spawn", "failed"} => Files(file'[s.id]) # {}
Early(r)     == Unopened(r) \/ Opening(r)
Whole(r, s)  == /\ s.pc = "start" => \/ PendIds(s) = PendIds(r) /\ r.pc = "start"
                                     \/ r.pc = "scan" /\ s.pending = Numbered
                /\ Early(r) => Early(s) \/ (r.pc = "start" /\ runmd' # None)
HandsOn(t)   == \E s \in RunRecord : Put(t, s) /\ Handed(run[t], s) /\ Filed(s) /\ Whole(run[t], s)

\* A dispatch that goes on has its file still.
LEMMA StillFiled ==
    ASSUME BaseInv, CardInv, Answered, restarts = 0, [Next]_vars, NEW t \in Triggers,
           run[t].pc \in {"untag", "spawn", "failed"}
    PROVE  Files(file'[run[t].id]) # {} /\ Files(file[run[t].id]) # {} /\ run[t].id \in Ids
  <1>1. run[t].id \in Ids
    BY DEF BaseInv, RunInv, Shape, Sending
  <1>2. Files(file[run[t].id]) # {}
    BY <1>1, ViewIsSeen DEF CardInv, Answered
  <1> QED BY <1>1, <1>2, FileSteps DEF Grows

\* A run that is not dispatching was advanced.
LEMMA AdvanceHands ==
    ASSUME BaseInv, [Next]_vars, NEW t \in Triggers, Advanced(t, run[t], reserved),
           run[t].pc \in {"start", "idle", "snapshot", "patch", "ladder"},
           run[t].pc = "start" => runmd' # None
    PROVE  HandsOn(t)
  <1> DEFINE r == run[t]
  <1>1. PICK s : Put(t, s) /\ (Filled(r, s, reserved, reserved') \/ Reaped(r, s, reserved, reserved'))
    BY DEF Advanced
  <1>2. s \in RunRecord /\ s.pc \in {"placeholder", "idle", "finalize", "starve", "snapshot"}
    BY <1>1 DEF Filled, Reaped
  <1>3. \A i \in PendIds(r) : Owes(s, i)
    <2>1. Reaped(r, s, reserved, reserved') => PendIds(s) = PendIds(r)
      BY DEF Reaped, PendIds
    <2> QED BY <1>1, <2>1 DEF Filled, Owes
  <1>4. ASSUME NEW i \in Ids, r.id = i PROVE SettledNext(i)
    <2>1. i # 0
      BY IdsFinite
    <2>2. Reaping(r)
      BY <1>4, <2>1 DEF BaseInv, RunInv, Shape, Opening, Reaping
    <2>3. HasConv(i)
      BY <1>4, <2>2 DEF BaseInv, WorkInv, CarryInv
    <2> QED BY <2>3, CarriersStay DEF BaseInv, SettledNext
  <1>5. Handed(r, s)
    BY <1>3, <1>4 DEF Handed, Owes
  <1>6. Filed(s) /\ Whole(r, s)
    BY <1>2 DEF Filed, Whole, Early, Unopened, Opening
  <1> QED BY <1>1, <1>2, <1>5, <1>6 DEF HandsOn

\* A run went on with the same tasks.
LEMMA SameHands ==
    ASSUME NEW t \in Triggers, NEW s \in RunRecord, Put(t, s), Same(run[t], s),
           run[t].pc = "starve" => s.pc = "starve" /\ s.todo = run[t].todo,
           Filed(s), s.pc = "start" => run[t].pc = "start", Early(run[t]) => Early(s)
    PROVE  HandsOn(t)
  <1>1. PendIds(s) = PendIds(run[t]) /\ s.id = run[t].id
    BY DEF Same, Kept, PendIds
  <1>2. Handed(run[t], s)
    BY <1>1 DEF Handed, Owes
  <1>3. Whole(run[t], s)
    <2>1. s.pc = "start" => PendIds(s) = PendIds(run[t]) /\ run[t].pc = "start"
      BY <1>1
    <2> QED BY <2>1 DEF Whole
  <1> QED BY <1>2, <1>3 DEF HandsOn

\* A run that owes nothing ends or reads its board.
LEMMA NothingOwed ==
    ASSUME BaseInv, NEW t \in Triggers, run[t].pc \in {"scan", "finalize"}
    PROVE  \A i \in Ids : ~Owes(run[t], i)
  <1>1. run[t].id = 0 /\ run[t].pending = <<>>
    BY DEF BaseInv, RunInv, Shape, Opening
  <1>2. PendIds(run[t]) = {}
    BY <1>1 DEF PendIds
  <1> QED BY <1>1, <1>2, IdsFinite DEF Owes

\* Every step of a run hands its tasks on.
LEMMA RunsHandOn ==
    ASSUME BaseInv, CardInv, Answered, restarts = 0, [Next]_vars, NEW t \in Triggers,
           Advance(t) \/ UsageEvent(t) \/ SleepOver(t) \/ WindowCloses(t)
    PROVE  HandsOn(t)
  <1> USE DEF BaseInv
  <1>1. CASE RunNightshift(t)
    <2>1. PICK s : /\ Put(t, s) /\ s \in RunRecord /\ Same(run[t], s)
                   /\ run[t].pc \in {"consider", "off"} /\ s.pc \in {"scan", "off"}
      BY <1>1, OnwardOpen
    <2>2. Filed(s) /\ Early(s) /\ s.pc # "start" /\ run[t].pc # "starve"
      BY <2>1 DEF Filed, Early, Unopened, Opening
    <2> QED BY <2>1, <2>2, SameHands
  <1>2. CASE ScanBoard(t)
    <2>1. PICK s : /\ Put(t, s) /\ s \in RunRecord /\ run[t].pc = "scan" /\ s.pc \in {"off", "start"}
                   /\ s.pc = "start" => s.pending = Numbered
      BY <1>2, BoardScanned
    <2>2. Filed(s) /\ Early(s)
      BY <2>1 DEF Filed, Early, Unopened, Opening
    <2>3. Handed(run[t], s)
      BY <2>1, NothingOwed DEF Handed
    <2>4. Whole(run[t], s)
      BY <2>1, <2>2 DEF Whole
    <2> QED BY <2>1, <2>2, <2>3, <2>4 DEF HandsOn
  <1>3. CASE RunStart(t)
    <2>1. run[t].pc = "start" /\ Advanced(t, run[t], reserved) /\ runmd' = IF runmd = None THEN "running" ELSE runmd
      BY <1>3, StartAdvances DEF Answered
    <2>2. runmd' # None
      BY <2>1 DEF None
    <2> QED BY <2>1, <2>2, AdvanceHands
  <1>4. CASE Tick(t)
    BY <1>4, TickAdvances, AdvanceHands
  <1>5. CASE Snapshot(t)
    <2>1. run[t].pc = "snapshot"
      BY <1>5 DEF Snapshot
    <2>2. CASE \E s : /\ Put(t, s) /\ s \in RunRecord /\ Same(run[t], s) /\ s.pc \in {"patch", "ladder"}
      <3>1. PICK s : /\ Put(t, s) /\ s \in RunRecord /\ Same(run[t], s) /\ s.pc \in {"patch", "ladder"}
        BY <2>2
      <3>2. Filed(s) /\ ~Early(run[t]) /\ s.pc # "start"
        BY <2>1, <3>1 DEF Filed, Early, Unopened, Opening
      <3> QED BY <2>1, <3>1, <3>2, SameHands
    <2>3. CASE Advanced(t, run[t], reserved)
      BY <2>1, <2>3, AdvanceHands
    <2> QED BY <1>5, <2>2, <2>3, SnapshotMoves
  <1>6. CASE PatchErrored(t)
    BY <1>6, PatchAdvances, AdvanceHands
  <1>7. CASE LadderAwaited(t)
    BY <1>7, AwaitedAdvances, AdvanceHands
  <1>8. CASE Starve(t)
    <2>1. PICK s : /\ Put(t, s) /\ s \in RunRecord /\ Same(run[t], s)
                   /\ run[t].pc = "starve" /\ s.pc \in {"starve", "idle", "finalize"}
                   /\ s.pc = "starve" => s.todo = run[t].todo \ {Min(run[t].todo)}
                   /\ s.pc # "starve" => run[t].todo \subseteq {Min(run[t].todo)}
      BY <1>8, OnwardStarve
    <2>2. skipped' = skipped \cup {Min(run[t].todo)}
      BY <1>8 DEF Starve, Rpc, Answered
    <2>3. PendIds(s) = PendIds(run[t]) /\ s.id = run[t].id
      BY <2>1 DEF Same, Kept, PendIds
    <2>4. Handed(run[t], s)
      BY <2>1, <2>2, <2>3 DEF Handed, Owes, SettledNext
    <2>5. Filed(s) /\ Whole(run[t], s)
      BY <2>1 DEF Filed, Whole, Early, Unopened, Opening
    <2> QED BY <2>1, <2>4, <2>5 DEF HandsOn
  <1>9. CASE Placeholder(t)
    <2>1. PICK s : /\ Put(t, s) /\ s \in RunRecord /\ Same(run[t], s)
                   /\ run[t].pc = "placeholder" /\ s.pc = "untag"
      BY <1>9, OnwardPlaceholder
    <2>2. run[t].id \in Ids /\ run[t].card \in Titles
      BY <2>1 DEF RunInv, RunRecord, Shape, Sending
    <2>3. Write(run[t].id, run[t].card, "running")
      BY <1>9 DEF Placeholder, Rpc, Answered
    <2>4. Files(file'[run[t].id]) # {}
      BY <2>2, <2>3, Written
    <2>5. Filed(s) /\ ~Early(run[t])
      BY <2>1, <2>4 DEF Filed, Same, Kept, Early, Unopened, Opening
    <2> QED BY <2>1, <2>5, SameHands
  <1>10. CASE Untag(t)
    <2>1. PICK s : /\ Put(t, s) /\ s \in RunRecord /\ Same(run[t], s)
                   /\ run[t].pc = "untag" /\ s.pc = "spawn"
      BY <1>10, OnwardUntag
    <2>2. Filed(s) /\ ~Early(run[t])
      BY <2>1, StillFiled DEF Filed, Same, Kept, Early, Unopened, Opening
    <2> QED BY <2>1, <2>2, SameHands
  <1>11. CASE SpawnWorker(t)
    <2>1. run[t].pc = "spawn" /\ run[t].id \in Ids /\ run[t] \in RunRecord /\ Shape(run[t])
      BY <1>11, SpawnMoves DEF RunInv
    <2>2. ~Early(run[t])
      BY <2>1 DEF Early, Unopened, Opening
    <2>3. CASE \E s : /\ Put(t, s) /\ Filled(Launched(run[t], Min(Unused)), s, reserved, reserved')
                      /\ Min(Unused) \in Convs /\ conv'[Min(Unused)].id = run[t].id
      <3> DEFINE k == Min(Unused)
      <3>1. PICK s : /\ Put(t, s) /\ Filled(Launched(run[t], k), s, reserved, reserved')
                     /\ k \in Convs /\ conv'[k].id = run[t].id
        BY <2>3
      <3> HIDE DEF k
      <3>2. run[t].id \notin PendIds(run[t]) \cup InflightOf(run[t])
        BY <2>1 DEF Shape, Sending
      <3>3. PendIds(Launched(run[t], k)) = PendIds(run[t])
        BY <2>1, <3>1, <3>2, LaunchedIs
      <3>4. Carried(conv', run[t].id)
        BY <3>1 DEF Carried
      <3>5. Handed(run[t], s)
        BY <2>1, <3>1, <3>3, <3>4 DEF Handed, Owes, Filled, SettledNext
      <3>6. s \in RunRecord /\ Filed(s) /\ Whole(run[t], s)
        BY <2>2, <3>1 DEF Filled, Filed, Whole
      <3> QED BY <3>1, <3>5, <3>6 DEF HandsOn
    <2>4. CASE \E s : /\ Put(t, s) /\ s \in RunRecord /\ Kept(run[t], s) /\ s.pc = "failed"
      <3>1. PICK s : /\ Put(t, s) /\ s \in RunRecord /\ Kept(run[t], s) /\ s.pc = "failed"
        BY <2>4
      <3>2. PendIds(s) = PendIds(run[t]) /\ s.id = run[t].id
        BY <3>1 DEF Kept, PendIds
      <3>3. Handed(run[t], s)
        BY <2>1, <3>2 DEF Handed, Owes
      <3>4. Filed(s) /\ Whole(run[t], s)
        BY <2>1, <2>2, <3>1, <3>2, StillFiled DEF Filed, Whole
      <3> QED BY <3>1, <3>3, <3>4 DEF HandsOn
    <2> QED BY <1>11, <2>3, <2>4, SpawnMoves
  <1>12. CASE SpawnFailed(t)
    <2>1. PICK s : Put(t, s) /\ Filled(run[t], s, reserved, reserved') /\ run[t].pc = "failed" /\ run[t].id \in Ids
      BY <1>12, FailedMoves
    <2>2. StampErrored(run[t].id, TRUE)
      <3>1. PICK ok \in BOOLEAN : Rpc(ok) /\ StampErrored(run[t].id, ok)
        BY <1>12 DEF SpawnFailed
      <3>2. ok = TRUE
        BY <3>1 DEF Rpc, Answered
      <3> QED BY <3>1, <3>2
    <2>3. Terminal(Seen(file'[run[t].id]))
      BY <2>1, <2>2, StillFiled, Stamped DEF SeenEnded
    <2>4. Handed(run[t], s)
      BY <2>1, <2>3 DEF Handed, Owes, Filled, SettledNext
    <2>5. s \in RunRecord /\ Filed(s) /\ Whole(run[t], s)
      BY <2>1 DEF Filled, Filed, Whole, Early, Unopened, Opening
    <2> QED BY <2>1, <2>4, <2>5 DEF HandsOn
  <1>13. CASE Finalize(t)
    <2>1. run[t].pc = "finalize" /\ Put(t, NoRun)
      BY <1>13 DEF Finalize
    <2>2. Handed(run[t], NoRun)
      BY <2>1, NothingOwed DEF Handed
    <2> QED BY <2>1, <2>2, NoRunIs DEF HandsOn, Filed, Whole, Early, Unopened, Opening
  <1>14. ASSUME NEW s \in RunRecord, Put(t, s), Same(run[t], s), s.pc = run[t].pc, s.todo = run[t].todo
         PROVE  HandsOn(t)
    <2>1. Filed(s)
      BY <1>14, StillFiled DEF Filed, Same, Kept
    <2>2. Early(run[t]) => Early(s)
      BY <1>14 DEF Early, Unopened, Opening
    <2> QED BY <1>14, <2>1, <2>2, SameHands
  <1>15. CASE UsageEvent(t)
    <2>1. CASE run[t].pc = "idle" /\ Advanced(t, run[t], reserved)
      BY <2>1, AdvanceHands
    <2> QED BY <1>14, <1>15, <2>1, UsageMoves
  <1>16. CASE SleepOver(t)
    BY <1>14, <1>16, OnwardSleep
  <1>17. CASE WindowCloses(t)
    BY <1>14, <1>17, OnwardWindow
  <1> QED BY <1>1, <1>2, <1>3, <1>4, <1>5, <1>6, <1>7, <1>8, <1>9, <1>10, <1>11, <1>12, <1>13, <1>15, <1>16,
             <1>17 DEF Advance

\* A settled task stays so; but a new placeholder puts it back into a dispatch.
LEMMA SettledStays ==
    ASSUME BaseInv, [Next]_vars, NEW i \in Ids, Settled(i)
    PROVE  SettledNext(i) \/ \E t \in Triggers : Placeholder(t) /\ run[t].id = i
  <1>1. skipped \subseteq skipped'
    <2>1. skipped' = skipped \/ \E t \in Triggers : Starve(t)
      BY DEF Next, Consider, Advance, RunNightshift, ScanBoard, RunStart, Tick, Snapshot,
                    PatchErrored, LadderAwaited, Placeholder, Untag, SpawnWorker, SpawnFailed, Finalize,
                    UsageEvent, SleepOver, WindowCloses, Settle, LadderRead, LadderBump, LadderRespawn,
                    LadderStamp, Sweep, SweepStart, SweepRead, SweepStamp, SweepLadder, Worker,
                    Watchdog, Boot, Report, WorkerEnds, SocketCloses, WatchdogStamps, WatchdogKills,
                    BrokerUnchanged, vars, control, artifacts, workers, guardian, Restart
    <2> QED BY <2>1 DEF Starve
  <1>2. HasConv(i) => Carried(conv', i)
    BY CarriersStay DEF BaseInv
  <1>3. Terminal(View(i)) => SettledNext(i) \/ Places(i)
    <2>1. View(i) = Seen(file[i])
      BY ViewIsSeen
    <2>2. Counts(i) => HasConv(i)
      BY DEF Counts, LadderBump, BaseInv, WorkInv, LadderInv
    <2> QED BY <1>2, <2>1, <2>2, FileSteps DEF SeenSame, SeenEnded, SettledNext
  <1> QED BY <1>1, <1>2, <1>3 DEF Settled, SettledNext, Places

\* No step leaves a card nowhere.
LEMMA CardsStay ==
    ASSUME BaseInv, CardInv, [Next]_vars
    PROVE  CardInv'
  <1>1. lost \in Nat /\ lost' \in Nat /\ lost <= lost' /\ restarts \in Nat
    BY LossesCount, NightAssumption DEF BaseInv, Typed
  <1>2. restarts' = 0 => restarts = 0 /\ ~Restart
    <2>1. Restart => restarts' = restarts + 1
      BY DEF Restart
    <2>2. Restart => restarts' # 0
      BY <1>1, <2>1
    <2> QED BY <2>2, AdmissionFixed
  <1> SUFFICES ASSUME Answered, restarts = 0, restarts' = 0, ~Restart PROVE CardInv'
    BY <1>1, <1>2 DEF CardInv, Answered
  <1>3. \A i \in Ids : (SettledNext(i) <=> Settled(i)') /\ Files(file'[i]) = FilesOf(i)'
    <2> TAKE i \in Ids
    <2>1. View(i)' = Seen(file'[i]) /\ FilesOf(i)' = Files(file'[i])
      BY DEF View, Seen, FilesOf, Files, First, FirstIn, Titles, Cards
    <2> QED BY <2>1 DEF Settled, SettledNext, HasConv, Terminal
  <1>4. /\ run \in [Triggers -> RunRecord] /\ \A t \in Triggers : Shape(run[t])
        /\ run' \in [Triggers -> RunRecord] /\ \A t \in Triggers : Shape(run'[t])
    BY BaseStays DEF BaseInv, RunInv
  \* No run but one moves, and that one hands on.
  <1>5. \A t \in Triggers : run'[t] = run[t] \/ HandsOn(t)
    <2>1. \/ run' = run
          \/ Consider
          \/ \E u \in Triggers : Advance(u) \/ UsageEvent(u) \/ SleepOver(u) \/ WindowCloses(u)
      BY DEF Next, RunNightshift, ScanBoard, RunStart, Tick, Snapshot, PatchErrored,
                    LadderAwaited, Starve, Placeholder, Untag, SpawnWorker, SpawnFailed, Finalize,
                    Settle, LadderRead, LadderBump, LadderRespawn, LadderStamp, Sweep, SweepStart,
                    SweepRead, SweepStamp, SweepLadder, Worker, Watchdog, Boot, Report, WorkerEnds,
                    SocketCloses, WatchdogStamps, WatchdogKills, BrokerUnchanged, vars, control,
                    artifacts, workers, guardian
    <2>2. ASSUME NEW u \in Triggers, HandsOn(u) PROVE \A t \in Triggers : run'[t] = run[t] \/ HandsOn(t)
      BY <1>4, <2>2 DEF HandsOn, Put
    <2>3. CASE Consider
      <3>1. PICK s : /\ "scheduler" \in Triggers /\ Put("scheduler", s) /\ s \in RunRecord
                     /\ Same(run["scheduler"], s)
                     /\ run["scheduler"].pc = "off" /\ s.pc = "consider"
        BY <2>3, OnwardConsider DEF BaseInv
      <3>2. Filed(s) /\ Early(s)
        BY <3>1 DEF Filed, Early, Unopened
      <3>3. HandsOn("scheduler")
        BY <3>1, <3>2, SameHands
      <3> QED BY <2>2, <3>1, <3>3
    <2> QED BY <2>1, <2>2, <2>3, RunsHandOn
  <1>6. ASSUME NEW t \in Triggers, HandsOn(t)
        PROVE  Handed(run[t], run'[t]) /\ Filed(run'[t]) /\ Whole(run[t], run'[t])
    <2>1. \A s : Put(t, s) => run'[t] = s
      BY <1>4 DEF Put
    <2> QED BY <1>6, <2>1 DEF HandsOn
  <1>7. \A t \in Triggers : Handed(run[t], run'[t])
    BY <1>5, <1>6 DEF Handed
  <1>8. \A t \in Triggers : run'[t].pc \in {"untag", "spawn", "failed"} => (FilesOf(run[t].id))' # {}
    <2>1. ASSUME NEW t \in Triggers, run'[t].pc \in {"untag", "spawn", "failed"}
          PROVE  Files(file'[run'[t].id]) # {} /\ run'[t].id \in Ids
      <3>1. run'[t].id \in Ids
        BY <1>4, <2>1 DEF Shape, Sending
      <3>2. CASE run'[t] = run[t]
        BY <2>1, <3>1, <3>2, StillFiled
      <3>3. CASE HandsOn(t)
        BY <1>6, <2>1, <3>1, <3>3 DEF Filed
      <3> QED BY <1>5, <3>2, <3>3
    <2> QED BY <2>1 DEF FilesOf, Files, Titles, Cards
  <1>9. \/ runmd' = runmd
        \/ \E t \in Triggers : RunStart(t) \/ Finalize(t)
    BY DEF Next, Consider, Advance, RunNightshift, ScanBoard, Tick, Snapshot, PatchErrored,
                    LadderAwaited, Starve, Placeholder, Untag, SpawnWorker, SpawnFailed, UsageEvent,
                    SleepOver, WindowCloses, Settle, LadderRead, LadderBump, LadderRespawn, LadderStamp,
                    Sweep, SweepStart, SweepRead, SweepStamp, SweepLadder, Worker, Watchdog, Boot,
                    Report, WorkerEnds, SocketCloses, WatchdogStamps, WatchdogKills, BrokerUnchanged,
                    vars, control, artifacts, workers, guardian
  <1>10. tagged' = tagged \/ \E t \in Triggers : Untag(t)
    BY DEF Next, Consider, Advance, RunNightshift, ScanBoard, RunStart, Tick, Snapshot,
                    PatchErrored, LadderAwaited, Starve, Placeholder, SpawnWorker, SpawnFailed,
                    Finalize, UsageEvent, SleepOver, WindowCloses, Settle, LadderRead, LadderBump,
                    LadderRespawn, LadderStamp, Sweep, SweepStart, SweepRead, SweepStamp, SweepLadder,
                    Worker, Watchdog, Boot, Report, WorkerEnds, SocketCloses, WatchdogStamps,
                    WatchdogKills, BrokerUnchanged, vars, control, artifacts, workers, guardian
  <1>11. CASE runmd = None
    <2>1. /\ tagged = Cards
          /\ \A t \in Triggers : Early(run[t]) /\ (run[t].pc = "start" => Ids \subseteq PendIds(run[t]))
      BY <1>11 DEF CardInv, Answered, Early
    <2>2. tagged' = Cards
      BY <1>10, <2>1 DEF Untag, Early, Unopened, Opening
    <2>3. CASE runmd' = None
      <3>1. ASSUME NEW t \in Triggers, HandsOn(t)
            PROVE  Early(run'[t]) /\ (run'[t].pc = "start" => Ids \subseteq PendIds(run'[t]))
        <4>1. DOMAIN Numbered = Ids /\ \A a \in Ids : Numbered[a].id = a
          BY <2>1, QueueBuilt
        <4>2. run'[t].pending = Numbered => Ids \subseteq PendIds(run'[t])
          BY <4>1 DEF PendIds
        <4> QED BY <1>6, <2>1, <2>3, <3>1, <4>2 DEF Whole
      <3>2. \A t \in Triggers : Early(run'[t]) /\ (run'[t].pc = "start" => Ids \subseteq PendIds(run'[t]))
        BY <1>5, <2>1, <3>1
      <3> QED BY <1>8, <2>2, <2>3, <3>2 DEF CardInv, Early, Unopened, Opening, PendIds
    <2>4. CASE runmd' # None
      <3>1. PICK t \in Triggers : RunStart(t) \/ Finalize(t)
        BY <1>9, <1>11, <2>4
      <3>2. run[t].pc = "start"
        BY <2>1, <3>1 DEF RunStart, Finalize, Early, Unopened, Opening
      <3>3. \A i \in Ids : Owes(run[t], i)
        BY <2>1, <3>2 DEF Owes
      <3>4. \A i \in Ids : SettledNext(i) \/ Owes(run'[t], i)
        BY <1>7, <3>3 DEF Handed
      <3>5. \A i \in Ids : (Settled(i) \/ \E u \in Triggers : Owes(run[u], i))'
        BY <1>3, <3>1, <3>4 DEF Owes, PendIds
      <3> QED BY <1>8, <2>4, <3>5 DEF CardInv
    <2> QED BY <2>3, <2>4
  <1>12. CASE runmd # None
    <2>1. runmd' # None
      <3>1. \A t \in Triggers : RunStart(t) \/ Finalize(t) => runmd' # None
        BY <1>12 DEF RunStart, Finalize, Answered, Rpc, None
      <3> QED BY <1>9, <1>12, <3>1
    <2>2. \A i \in Ids : Settled(i) \/ \E t \in Triggers : Owes(run[t], i)
      BY <1>12 DEF CardInv, Answered
    <2>3. ASSUME NEW i \in Ids PROVE SettledNext(i) \/ \E t \in Triggers : Owes(run'[t], i)
      <3>1. ASSUME NEW t \in Triggers, Owes(run[t], i) PROVE SettledNext(i) \/ Owes(run'[t], i)
        BY <1>7, <3>1 DEF Handed
      <3>2. ASSUME NEW t \in Triggers, Placeholder(t), run[t].id = i
            PROVE  SettledNext(i) \/ \E u \in Triggers : Owes(run'[u], i)
        BY <3>1, <3>2 DEF Owes
      <3> QED BY <2>2, <3>1, <3>2, SettledStays
    <2>4. \A i \in Ids : (Settled(i) \/ \E u \in Triggers : Owes(run[u], i))'
      BY <1>3, <2>3 DEF Owes, PendIds
    <2> QED BY <1>8, <2>1, <2>4 DEF CardInv
  <1> QED BY <1>11, <1>12

\* While every round trip is answered and the broker stays up, no card of an
\* opened run is ever nowhere.
THEOREM CardsAreAccounted == Spec => []CardAccounted
  <1>1. Init => CardInv
    <2> SUFFICES ASSUME Init PROVE CardInv
      OBVIOUS
    <2>1. \A t \in Triggers : run[t].pc = "off"
      BY NoRunIs DEF Init
    <2> QED BY <2>1 DEF Init, CardInv, Unopened
  <1>2. BaseInv /\ CardInv /\ [Next]_vars => CardInv'
    BY CardsStay
  <1>3. BaseInv /\ CardInv => CardAccounted
    <2> SUFFICES ASSUME BaseInv, CardInv, lost = 0 /\ restarts = 0 /\ runmd # None, NEW i \in Ids
                 PROVE  \/ i \in skipped \/ Terminal(View(i))
                        \/ \E k \in Convs : conv[k].id = i
                        \/ \E t \in Triggers :
                             \/ run[t].id = i \/ (run[t].pc = "starve" /\ i \in run[t].todo)
                             \/ \E task \in Range(run[t].pending) : task.id = i
      BY DEF CardAccounted
    <2>1. Settled(i) \/ \E t \in Triggers : Owes(run[t], i)
      BY DEF CardInv
    <2>2. \A t \in Triggers : i \in PendIds(run[t]) => \E task \in Range(run[t].pending) : task.id = i
      BY DEF PendIds, Range
    <2> QED BY <2>1, <2>2 DEF Settled, Owes, HasConv, Carried
  <1> QED BY <1>1, <1>2, <1>3, BaseAlways, PTL DEF Spec
=============================================================================
