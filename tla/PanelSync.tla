----------------------------- MODULE PanelSync -----------------------------
(***************************************************************************)
(* How the control panel keeps the transcript of the conversation it shows *)
(* in step with the broker's: live broadcasts on the panel's WebSocket,    *)
(* full fetches over HTTP on every (re)connect, and a sync check that      *)
(* compares seqs and fetches a delta when the panel is behind.             *)
(*                                                                         *)
(* An entry is its seq, the store's arrival number; `place` says where it  *)
(* stands in the chronological order, (timestamp, seq), in which store,    *)
(* cache and panel all keep entries.  A row of Late has an older timestamp *)
(* than rows that were stored before it; a row of Noise is dropped by      *)
(* `filter=display`.                                                       *)
(*                                                                         *)
(* One panel, one conversation, the tab visible and the reader at the      *)
(* bottom.  The general broadcast ring (syncSeq, epoch) only decides       *)
(* whether a sync check is answered by sync_stale: that answer is a        *)
(* bounded choice here.  WebSocket and HTTP answers race freely.           *)
(***************************************************************************)
EXTENDS Integers, FiniteSets, Sequences

CONSTANTS
  FetchLimit,    \* INITIAL_TRANSCRIPT_LIMIT: rows of a full fetch
  LiveCap,       \* TRANSCRIPT_LIVE_CAP: entries the panel keeps
  Window,        \* rows the broker looks at for an answer
  Late, Noise,   \* seqs of late rows and of rows the display filter drops
  MaxEntries,    \* bound: rows stored
  MaxFetches,    \* bound: fetches outstanding
  MaxFaults,     \* bound: disconnects, restarts, dropped sends, failed fetches
  MaxStale,      \* bound: sync checks answered by sync_stale
  MaxResends     \* bound: isInitial batches from the host

ASSUME SizesAssumption == /\ {FetchLimit, LiveCap, Window} \subseteq Nat \ {0}
                          /\ {MaxEntries, MaxFetches, MaxFaults, MaxStale,
                              MaxResends} \subseteq Nat
                          /\ Late \cup Noise \subseteq Nat

VARIABLES
  place, counter,     \* place[n]: where row n stands chronologically (durable);
                      \* the seq counter of the running broker, which sync
                      \* checks are told
  up, subscribed,     \* the panel's socket; the broker has its subscription
  wire,               \* broker to panel, in order
  held, floor,        \* what the panel shows; lastAppliedTranscriptSeq
  fetch,              \* the panel's outstanding HTTP requests
  faults, stales, resends      \* how much of each bound is used

broker == <<place, counter>>
panel  == <<held, floor>>
bounds == <<faults, stales, resends>>
vars   == <<broker, up, subscribed, wire, panel, fetch, bounds>>

Seqs    == 1 .. MaxEntries
Fetches == 1 .. MaxFetches

Live(n)       == [type |-> "live", entries |-> {n}, seq |-> 0]
Initial(S)    == [type |-> "initial", entries |-> S, seq |-> 0]
Answer(t, q)  == [type |-> t, entries |-> {}, seq |-> q]

Free        == [state |-> "free", full |-> FALSE, since |-> 0, entries |-> {},
                last |-> 0, gap |-> FALSE]
FullFetch   == [Free EXCEPT !.state = "asked", !.full = TRUE]
Delta(q)    == [Free EXCEPT !.state = "asked", !.since = q]

Larger(a, b) == IF a > b THEN a ELSE b

Stored == 1 .. Len(place)

\* The rows of S that stand after n, the last k rows of S, its first and its
\* last one (0 if there is none).
After(S, n)  == {m \in S : place[m] > place[n]}
LastOf(S, k) == {n \in S : Cardinality(After(S, n)) < k}
Newest(S) == IF S = {} THEN 0 ELSE CHOOSE n \in S : After(S, n) = {}
Oldest(S) == IF S = {} THEN 0 ELSE CHOOSE n \in S : \A m \in S : place[n] <= place[m]

\* What the broker looks at to answer a request: the end of the record.
Visible == LastOf(Stored, Window)

\* The first free slot takes the request.
Slot(fs) == CHOOSE k \in Fetches :
              fs[k].state = "free" /\ \A j \in 1 .. k - 1 : fs[j].state # "free"
Ask(fs, request) == [fs EXCEPT ![Slot(fs)] = request]
fetchConversationData(fs) == Ask(fs, FullFetch)
CanAsk(k) == k <= Cardinality({j \in Fetches : fetch[j].state = "free"})

(***************************************************************************)
(* What the panel does with entries.                                       *)
(***************************************************************************)
\* The prune of the live tail.
pruneLiveTranscript(S) == LastOf(S, LiveCap)

\* The union by uuid; an incremental batch first loses what is not above
\* the floor.
applyTranscriptBatch(incoming, initial) ==
  held \cup (IF initial THEN incoming ELSE {n \in incoming : n > floor})

handleTranscriptEntries(incoming, initial) ==
  LET applied == applyTranscriptBatch(incoming, initial)
      result  == IF initial THEN applied ELSE pruneLiveTranscript(applied)
  IN  \/ /\ ~initial /\ applied = held
         /\ UNCHANGED panel
      \/ /\ initial \/ applied # held
         /\ held' = result
         /\ floor' = IF initial THEN Newest(result) ELSE Larger(floor, Newest(result))

\* A mutant: the floor is the broker's counter, not the rows' own.
FloorFromCounter(S) ==
  /\ held' = S
  /\ floor' = counter

\* Replace, unless what is shown is longer and begins with the same entry.
setTranscript(S) ==
  \/ /\ Cardinality(held) > Cardinality(S) /\ Oldest(held) = Oldest(S)
     /\ UNCHANGED panel
  \/ /\ ~(Cardinality(held) > Cardinality(S) /\ Oldest(held) = Oldest(S))
     /\ held' = S
     /\ floor' = Newest(S)

applyRefetchedDelta(S, last) ==
  LET applied == applyTranscriptBatch(S, FALSE)
  IN  /\ held' = IF applied = held THEN held ELSE pruneLiveTranscript(applied)
      /\ floor' = Larger(floor, last)

(***************************************************************************)
(* The broker stores a row and tells the subscriber.                       *)
(***************************************************************************)
\* Durable, numbered, in chronological position.
addTranscriptEntries ==
  LET n == Len(place) + 1 IN
  /\ n \in Seqs
  /\ \E p \in IF n \in Late THEN Stored ELSE {n} :
       place' = [m \in 1 .. n |-> IF m = n THEN p
                                 ELSE IF place[m] < p THEN place[m] ELSE place[m] + 1]

\* The append and the broadcast, which backpressure may drop while the socket
\* stays.
ingestAndBroadcast ==
  /\ addTranscriptEntries
  /\ counter' = Len(place')
  /\ \/ /\ subscribed
        /\ wire' = Append(wire, Live(Len(place')))
        /\ UNCHANGED faults
     \/ /\ subscribed
        /\ faults < MaxFaults /\ faults' = faults + 1
        /\ UNCHANGED wire
     \/ /\ ~subscribed
        /\ UNCHANGED <<wire, faults>>
  /\ UNCHANGED <<up, subscribed, panel, fetch, stales, resends>>

\* The host sends what its file holds again (isInitial), perhaps with a row
\* that never came before: the whole batch goes to the subscriber.
Resend ==
  /\ subscribed
  /\ resends < MaxResends /\ resends' = resends + 1
  /\ UNCHANGED place \/ addTranscriptEntries
  /\ \E S \in (SUBSET (1 .. Len(place'))) \ {{}} :
       /\ 1 .. Len(place') \ Stored \subseteq S
       /\ wire' = Append(wire, Initial(S))
       /\ counter' = Larger(counter, CHOOSE n \in S : \A m \in S : m <= n)
  /\ UNCHANGED <<up, subscribed, panel, fetch, faults, stales>>

(***************************************************************************)
(* The socket.                                                             *)
(***************************************************************************)
\* The handshake: connectSeq + 1, which fetches what is selected, and the
\* subscriptions, which the broker handles later.
Open ==
  /\ ~up /\ CanAsk(1)
  /\ up' = TRUE
  /\ fetch' = fetchConversationData(fetch)
  /\ UNCHANGED <<broker, subscribed, wire, panel, bounds>>

channelSubscribe ==
  /\ up /\ ~subscribed
  /\ subscribed' = TRUE
  /\ UNCHANGED <<broker, up, wire, panel, fetch, bounds>>

Disconnect ==
  /\ up
  /\ faults < MaxFaults /\ faults' = faults + 1
  /\ up' = FALSE /\ subscribed' = FALSE /\ wire' = <<>>
  /\ UNCHANGED <<broker, panel, fetch, stales, resends>>

\* Requests that were not answered yet fail.
Restart ==
  /\ faults < MaxFaults /\ faults' = faults + 1
  /\ up' = FALSE /\ subscribed' = FALSE /\ wire' = <<>>
  /\ counter' = 0
  /\ fetch' = [k \in Fetches |-> IF fetch[k].state = "asked" THEN Free ELSE fetch[k]]
  /\ UNCHANGED <<place, panel, stales, resends>>

(***************************************************************************)
(* The sync check: after a reconnect, every minute, on tab restore.        *)
(***************************************************************************)
\* Nothing to compare, nothing sent.
buildSyncCheck == floor > 0

\* The broker answers from its counter.
handleSyncCheck(type) ==
  Append(wire, Answer(type, IF counter > floor THEN counter ELSE 0))

\* Bound: one check at a time.
SyncCheck ==
  /\ subscribed /\ buildSyncCheck
  /\ \A i \in 1 .. Len(wire) : wire[i].type \in {"live", "initial"}
  /\ \/ /\ wire' = handleSyncCheck("sync_ok")
        /\ UNCHANGED stales
     \/ /\ stales < MaxStale /\ stales' = stales + 1
        /\ wire' = handleSyncCheck("sync_stale")
  /\ UNCHANGED <<broker, up, subscribed, panel, fetch, faults, resends>>

\* A mutant: the floor is raised when the delta is asked for.
RaisesFloorFirst(m) ==
  /\ m.seq > floor => CanAsk(1)
  /\ fetch' = IF m.seq > floor THEN Ask(fetch, Delta(floor)) ELSE fetch
  /\ floor' = Larger(floor, m.seq)
  /\ UNCHANGED held

\* refetchStaleTranscripts first, then the handler of the answer: sync_stale
\* forgets the floor and fetches what is selected.
HandleAnswer(m) ==
  LET behind == m.seq > floor
      fs     == IF behind THEN Ask(fetch, Delta(floor)) ELSE fetch
  IN  \/ /\ m.type = "sync_ok"
         /\ behind => CanAsk(1)
         /\ fetch' = fs
         /\ UNCHANGED panel
      \/ /\ m.type = "sync_stale"
         /\ CanAsk(IF behind THEN 2 ELSE 1)
         /\ fetch' = fetchConversationData(fs)
         /\ floor' = 0
         /\ UNCHANGED held

Deliver ==
  /\ wire # <<>>
  /\ wire' = Tail(wire)
  /\ LET m == Head(wire) IN
     \/ /\ m.type \in {"live", "initial"}
        /\ handleTranscriptEntries(m.entries, m.type = "initial")
        /\ UNCHANGED fetch
     \/ /\ m.type \in {"sync_ok", "sync_stale"}
        /\ HandleAnswer(m)
  /\ UNCHANGED <<broker, up, subscribed, bounds>>

(***************************************************************************)
(* The fetches.                                                            *)
(***************************************************************************)
\* The answer to a fetch: the rows, the seq of the (chronologically) last
\* row, and whether rows the panel asked for are out of the window.
FullAnswer == [FullFetch EXCEPT !.state = "served",
                                !.entries = LastOf(Visible \ Noise, FetchLimit)]
DeltaAnswer(since) ==
  [Delta(since) EXCEPT !.state = "served",
                       !.entries = {n \in Visible : n > since},
                       !.last = Newest(Visible),
                       !.gap = since > 0 /\ Oldest(Visible) > since + 1]

\* Reading the store also seeds the counter of a restarted broker.
loadTranscriptFromStore == Larger(counter, Newest(Stored))

\* There is no answer for a conversation without rows.
Serve(k) ==
  /\ fetch[k].state = "asked"
  /\ fetch' = [fetch EXCEPT ![k] = IF place = <<>> THEN Free
                                   ELSE IF fetch[k].full THEN FullAnswer
                                   ELSE DeltaAnswer(fetch[k].since)]
  /\ counter' = loadTranscriptFromStore
  /\ UNCHANGED <<place, up, subscribed, wire, panel, bounds>>

Apply(k) ==
  /\ fetch[k].state = "served"
  /\ LET f == fetch[k] IN
     \/ /\ f.full \/ f.gap
        /\ setTranscript(f.entries)
     \/ /\ ~f.full /\ ~f.gap
        /\ applyRefetchedDelta(f.entries, f.last)
  /\ fetch' = [fetch EXCEPT ![k] = Free]
  /\ UNCHANGED <<broker, up, subscribed, wire, bounds>>

\* fetchTranscript answers null: nothing is applied and nothing retried.
Fail(k) ==
  /\ fetch[k].state # "free"
  /\ faults < MaxFaults /\ faults' = faults + 1
  /\ fetch' = [fetch EXCEPT ![k] = Free]
  /\ UNCHANGED <<broker, up, subscribed, wire, panel, stales, resends>>

(***************************************************************************)
(* The specification.                                                      *)
(***************************************************************************)
Init ==
  /\ place = <<>> /\ counter = 0
  /\ up = FALSE /\ subscribed = FALSE /\ wire = <<>>
  /\ held = {} /\ floor = 0
  /\ fetch = [k \in Fetches |-> Free]
  /\ faults = 0 /\ stales = 0 /\ resends = 0

Next ==
  \/ ingestAndBroadcast
  \/ Resend
  \/ Open
  \/ channelSubscribe
  \/ Disconnect
  \/ Restart
  \/ SyncCheck
  \/ Deliver
  \/ \E k \in Fetches : Serve(k) \/ Apply(k) \/ Fail(k)

Spec == Init /\ [][Next]_vars

\* The panel reconnects after two seconds and checks once a minute; what is
\* sent is handled and a request is answered, unless a fault takes it.
Fairness ==
  /\ WF_vars(Open) /\ WF_vars(channelSubscribe)
  /\ WF_vars(SyncCheck) /\ WF_vars(Deliver)
  /\ \A k \in Fetches : WF_vars(Serve(k)) /\ WF_vars(Apply(k))

FairSpec == Spec /\ Fairness

(***************************************************************************)
(* Properties.                                                             *)
(***************************************************************************)
\* Rows the panel should show and does not: not noise, and not older than
\* the first entry it shows (older ones come with scrollback).
IsAfter(n, m) == m = 0 \/ place[n] > place[m]
Missing == {n \in Stored \ (held \cup Noise) : IsAfter(n, Oldest(held))}

\* The seq filter guards the race between a fetch and a broadcast: a
\* broadcast on its way is one the filter lets through, or one the panel
\* shows already, as long as its row is among those a full fetch returns and
\* the panel keeps (rows that so many others have followed can be lost to it).
FilterDropsOnlyHeld ==
  \A i \in 1 .. Len(wire) : wire[i].type = "live" =>
    \A n \in wire[i].entries \cap FullAnswer.entries \cap pruneLiveTranscript(Stored) :
       n > floor \/ n \in held

\* "In sync" is true of the newest row: a floor that no check would find
\* behind (handleSyncCheck) was reached with that row, not past it, whatever
\* order fetches and broadcasts were applied in; unless the row is so late
\* that the panel would not keep it.
InSyncShowsNewest ==
  LET newest == Len(place)
  IN newest \in pruneLiveTranscript(Stored) /\ floor >= newest => newest \in held

\* However broadcasts, fetches, disconnects, restarts and dropped sends fall,
\* a panel that tracks the conversation ends up with the newest row, once the
\* broker's counter names it (a restart sets the counter back) and a delta
\* can see it: what the check detects, the delta repairs.
CatchesUp ==
  <>[](floor > 0 /\ counter = Len(place) /\ counter \in Visible
         => counter \notin Missing)
=============================================================================
