--------------------------- MODULE HostTransport ---------------------------
(***************************************************************************)
(* The transport every agent host shares (src/src/shared/host-transport):  *)
(* one WebSocket to the broker with unlimited reconnects, a bounded        *)
(* outbound queue for what is sent while no socket is up, and a ring of    *)
(* the last transcript batches that is replayed on every open.  The other  *)
(* end is the broker's transcript ingest: one row per uuid, numbered in    *)
(* the order of arrival.                                                   *)
(*                                                                         *)
(* One conversation.  A transcript batch is its number in the order the    *)
(* host sent them.  A socket that dies does so before its close event is   *)
(* handled: what is written in between goes nowhere, and what was already  *)
(* on the way may still arrive, even after the next socket has opened.     *)
(***************************************************************************)
EXTENDS Integers, Sequences

CONSTANTS
  QueueSize,     \* outbound messages kept while disconnected
  RingSize,      \* transcript batches kept for replay
  MaxSent,       \* bound: transcript batches the host produces
  MaxConns       \* bound: sockets the host opens

ASSUME SizesAssumption == /\ QueueSize \in Nat \ {0}
                          /\ RingSize \in Nat \ {0}
                          /\ MaxSent \in Nat
                          /\ MaxConns \in Nat \ {0}

VARIABLES
  sent,             \* transcript batches handed to sendTranscriptEntries
  lastSessionId,    \* the backend's session id is known to the host
  queue, overflowed,            \* the queue, and whether it ever dropped one
  ring, ringHead, ringCount,    \* the replay ring
  ws, connected, shouldReconnect, retry,   \* the socket; a reconnect is due
  conn, initialMessage,         \* sockets created so far; the newest one's
                                \* first message, built when it was created
  wire,             \* what is on its way, per socket
  log,              \* the broker's rows in arrival order (durable)
  registered, promoted,   \* the broker knows the conversation, its session id
  lost              \* history: batches that went down with a socket

host   == <<sent, lastSessionId, queue, overflowed, ring, ringHead, ringCount>>
socket == <<ws, connected, shouldReconnect, retry, conn, initialMessage>>
broker == <<log, registered, promoted>>
vars   == <<host, socket, broker, wire, lost>>

Conns == 1 .. MaxConns
Slots == 0 .. RingSize - 1

Batch(n) == [type |-> "transcript_entries", n |-> n]
Promote  == [type |-> "conversation_promote", n |-> 0]
Boot     == [type |-> "agent_host_boot", n |-> 0]
Meta     == [type |-> "meta", n |-> 0]
Messages == [type : {"transcript_entries"}, n : 1 .. MaxSent]
              \cup {Promote, Boot, Meta}

Rows(s) == {s[i] : i \in 1 .. Len(s)}

\* The batches that went down with what `s` still held.
BatchesIn(s) == {m.n : m \in {x \in Rows(s) : x.type = "transcript_entries"}}

buildInitialMessage == IF lastSessionId THEN Meta ELSE Boot

(***************************************************************************)
(* The queue and the ring.                                                 *)
(***************************************************************************)
\* A slip: the queue grows without a limit.
Unbounded(msg) == /\ queue' = Append(queue, msg)
                  /\ UNCHANGED overflowed

\* Push, at the price of the oldest message when full.
enqueue(msg) ==
  /\ queue' = Append(IF Len(queue) >= QueueSize THEN Tail(queue) ELSE queue, msg)
  /\ overflowed' = (overflowed \/ Len(queue) >= QueueSize)

pushRing(n) ==
  /\ ring' = [ring EXCEPT ![ringHead] = n]
  /\ ringHead' = (ringHead + 1) % RingSize
  /\ ringCount' = IF ringCount < RingSize THEN ringCount + 1 ELSE ringCount

\* A slip: the ring is read from one slot too far.
RingSlotOff(i) == (ringHead - ringCount + RingSize + i) % RingSize

\* The slot of the i-th oldest batch of the ring.
RingSlot(i) == (ringHead - ringCount + RingSize + i - 1) % RingSize

\* What flushRing writes: the ring from its oldest batch on.
Replay == [i \in 1 .. ringCount |-> Batch(ring[RingSlot(i)])]

\* rawSend, and the queue when it refuses.  A socket that is up takes the
\* message; one that is gone but whose close event is still to come swallows
\* it or throws.
send(msg) ==
  \/ /\ connected /\ ws = "open"
     /\ wire' = [wire EXCEPT ![conn] = Append(@, msg)]
     /\ UNCHANGED <<queue, overflowed, lost>>
  \/ /\ connected /\ ws = "closing"
     /\ lost' = lost \cup BatchesIn(<<msg>>)
     /\ UNCHANGED <<queue, overflowed, wire>>
  \/ /\ ~connected \/ ws = "closing"
     /\ enqueue(msg)
     /\ UNCHANGED <<wire, lost>>

sendTranscriptEntries ==
  /\ sent < MaxSent
  /\ sent' = sent + 1
  /\ pushRing(sent + 1)
  /\ send(Batch(sent + 1))
  /\ UNCHANGED <<lastSessionId, socket, broker>>

\* The first id only: the same id again changes nothing.
setSessionId ==
  /\ ~lastSessionId
  /\ lastSessionId' = TRUE
  /\ send(Promote)
  /\ UNCHANGED <<sent, ring, ringHead, ringCount, socket, broker>>

(***************************************************************************)
(* The socket.                                                             *)
(***************************************************************************)
\* A slip: the first message is built once and sent again on every socket.
ReusesInitial ==
  /\ retry /\ conn < MaxConns
  /\ retry' = FALSE
  /\ conn' = conn + 1
  /\ ws' = "connecting"
  /\ UNCHANGED <<host, connected, shouldReconnect, initialMessage, broker, wire,
                 lost>>

\* connect(), from the reconnect timer.
Connect ==
  /\ retry /\ conn < MaxConns
  /\ retry' = FALSE
  /\ conn' = conn + 1
  /\ initialMessage' = buildInitialMessage
  /\ ws' = "connecting"
  /\ UNCHANGED <<host, connected, shouldReconnect, broker, wire, lost>>

\* A slip: the backlog is flushed before the conversation is announced.
FlushesFirst ==
  /\ ws = "connecting"
  /\ ws' = "open"
  /\ connected' = TRUE
  /\ wire' = [wire EXCEPT ![conn] = queue \o Replay \o <<initialMessage>>]
  /\ queue' = <<>>
  /\ UNCHANGED <<sent, lastSessionId, overflowed, ring, ringHead, ringCount,
                 shouldReconnect, retry, conn, initialMessage, broker, lost>>

\* A slip: the queue is flushed and the ring is not replayed.
ReplaysNothing ==
  /\ ws = "connecting"
  /\ ws' = "open"
  /\ connected' = TRUE
  /\ wire' = [wire EXCEPT ![conn] = <<initialMessage>> \o queue]
  /\ queue' = <<>>
  /\ UNCHANGED <<sent, lastSessionId, overflowed, ring, ringHead, ringCount,
                 shouldReconnect, retry, conn, initialMessage, broker, lost>>

\* onopen: the initial message, then flush(), then flushRing().
Opens ==
  /\ ws = "connecting"
  /\ ws' = "open"
  /\ connected' = TRUE
  /\ wire' = [wire EXCEPT ![conn] = <<initialMessage>> \o queue \o Replay]
  /\ queue' = <<>>
  /\ UNCHANGED <<sent, lastSessionId, overflowed, ring, ringHead, ringCount,
                 shouldReconnect, retry, conn, initialMessage, broker, lost>>

\* The peer, the network or a refused connection: the socket is gone and the
\* close event is on its way.
Dies ==
  /\ ws \in {"connecting", "open"}
  /\ ws' = "closing"
  /\ UNCHANGED <<host, connected, shouldReconnect, retry, conn, initialMessage,
                 broker, wire, lost>>

\* onclose.
OnClose ==
  /\ ws = "closing"
  /\ ws' = "closed"
  /\ connected' = FALSE
  /\ retry' = shouldReconnect
  /\ UNCHANGED <<host, shouldReconnect, conn, initialMessage, broker, wire, lost>>

\* close(): no further reconnect, and the socket is told to close.  A timer
\* that is already armed stays armed.
Close ==
  /\ shouldReconnect
  /\ shouldReconnect' = FALSE
  /\ ws' = IF ws \in {"connecting", "open"} THEN "closing" ELSE ws
  /\ UNCHANGED <<host, connected, retry, conn, initialMessage, broker, wire, lost>>

\* What a dead socket still carried never arrives.
Gone(c) == c < conn \/ ws \in {"closing", "closed"}

LoseWire(c) ==
  /\ c <= conn /\ Gone(c) /\ wire[c] # <<>>
  /\ lost' = lost \cup BatchesIn(wire[c])
  /\ wire' = [wire EXCEPT ![c] = <<>>]
  /\ UNCHANGED <<host, socket, broker>>

(***************************************************************************)
(* The broker.                                                             *)
(***************************************************************************)
\* One row per uuid, numbered MAX(seq)+1, and none for a conversation the
\* registry does not hold.
Ingest(n) ==
  log' = IF registered /\ n \notin Rows(log) THEN Append(log, n) ELSE log

Deliver(c) ==
  /\ wire[c] # <<>>
  /\ wire' = [wire EXCEPT ![c] = Tail(@)]
  /\ LET m == Head(wire[c]) IN
     \/ /\ m.type = "transcript_entries"
        /\ Ingest(m.n)
        /\ UNCHANGED <<registered, promoted>>
     \/ /\ m.type = "conversation_promote"
        /\ promoted' = (promoted \/ registered)
        /\ UNCHANGED <<log, registered>>
     \/ /\ m.type \in {"agent_host_boot", "meta"}
        /\ registered' = TRUE
        /\ promoted' = (promoted \/ m.type = "meta")
        /\ UNCHANGED log
  /\ UNCHANGED <<host, socket, lost>>

(***************************************************************************)
(* The specification.                                                      *)
(***************************************************************************)
Init ==
  /\ sent = 0
  /\ lastSessionId = FALSE
  /\ queue = <<>> /\ overflowed = FALSE
  /\ ring = [i \in Slots |-> 0] /\ ringHead = 0 /\ ringCount = 0
  /\ ws = "connecting" /\ connected = FALSE
  /\ shouldReconnect = TRUE /\ retry = FALSE
  /\ conn = 1 /\ initialMessage = Boot
  /\ wire = [c \in Conns |-> <<>>]
  /\ log = <<>> /\ registered = FALSE /\ promoted = FALSE
  /\ lost = {}

Next ==
  \/ sendTranscriptEntries
  \/ setSessionId
  \/ Connect
  \/ Opens
  \/ Dies
  \/ OnClose
  \/ Close
  \/ \E c \in Conns : LoseWire(c) \/ Deliver(c)

Spec == Init /\ [][Next]_vars

\* A timer fires, an attempt to connect ends one way or the other, a close
\* event is handled, and what is on the wire arrives or is gone.  Nothing says
\* that an open socket dies, that an attempt succeeds or that the host sends.
Fairness ==
  /\ WF_vars(Connect)
  /\ WF_vars(ws = "connecting" /\ (Opens \/ Dies))
  /\ WF_vars(OnClose)
  /\ \A c \in Conns : WF_vars(LoseWire(c) \/ Deliver(c))

FairSpec == Spec /\ Fairness

(***************************************************************************)
(* Properties.                                                             *)
(***************************************************************************)
TypeOK ==
  /\ sent \in 0 .. MaxSent
  /\ lastSessionId \in BOOLEAN /\ overflowed \in BOOLEAN
  /\ queue \in Seq(Messages) /\ Len(queue) <= QueueSize
  /\ ring \in [Slots -> 0 .. MaxSent]
  /\ ringHead \in Slots /\ ringCount \in 0 .. RingSize
  /\ ws \in {"connecting", "open", "closing", "closed"}
  /\ connected \in BOOLEAN /\ shouldReconnect \in BOOLEAN /\ retry \in BOOLEAN
  /\ conn \in Conns /\ initialMessage \in {Boot, Meta}
  /\ wire \in [Conns -> Seq(Messages)]
  /\ log \in Seq(1 .. MaxSent)
  /\ registered \in BOOLEAN /\ promoted \in BOOLEAN
  /\ lost \subseteq 1 .. MaxSent

\* The ring arithmetic: at any moment flushRing would replay exactly the last
\* RingSize batches (all of them while there are fewer), oldest first.
ReplayIsRecent ==
  /\ ringCount = IF sent < RingSize THEN sent ELSE RingSize
  /\ \A i \in 1 .. ringCount : Replay[i] = Batch(sent - ringCount + i)

\* The transport loses a batch in two ways only: it went down with a dying
\* socket, or the queue overflowed.  Every other batch is stored, queued or
\* on its way; in particular none reaches the broker ahead of the message
\* that registers the conversation, where the orphan guard would discard it.
Accounted ==
  overflowed \/ \A n \in 1 .. sent :
    \/ n \in Rows(log) \cup lost \cup BatchesIn(queue)
    \/ \E c \in Conns : n \in BatchesIn(wire[c])

\* When a socket stays up, every batch is stored in the end, even one that
\* went down with an earlier socket; only a batch that RingSize newer ones
\* have pushed out of the ring can be missing.
EntriesArrive ==
  []<>(\/ ws # "open"
       \/ \A n \in 1 .. sent :
            \/ n \in Rows(log)
            \/ n <= sent - RingSize /\ (n \in lost \/ overflowed))

\* conversation_promote is sent once and never replayed; the broker learns
\* the session id all the same, from the promote or from the meta message of
\* a later socket, unless the queue dropped the promote.
SessionLearned ==
  []<>(ws # "open" \/ (lastSessionId => promoted \/ overflowed))
=============================================================================
