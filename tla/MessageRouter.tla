--------------------------- MODULE MessageRouter ---------------------------
(***************************************************************************)
(* How the broker routes a message from one conversation to another: who   *)
(* the address means, whether the two projects (or the two conversations)  *)
(* are linked, blocked or trusted, and where the message goes: to the      *)
(* target's socket, to the offline queue of the target's project, to the   *)
(* pending-approval queue of the project pair, or back with an error.      *)
(*                                                                         *)
(* Both queues are rows of one table; a message's number is its row id.    *)
(* A conversation's slug is the conversation itself (slugs are distinct).  *)
(* "Delivered" means handed to the target's socket.                        *)
(***************************************************************************)
EXTENDS Integers, FiniteSets, Sequences, FiniteSetsExt, SequencesExt

CONSTANTS
  Convs, Projects,
  Project,       \* the project of a conversation
  Senders,       \* the conversations whose agent has the channel tools
  Titled,        \* the conversations that have a title
  JobName,       \* the name a conversation is spawned under, as it was typed
  NoName,        \* a bare address: the project alone
  Open,          \* projects whose trust level is `open`: anyone may send
  Benevolent,    \* projects whose trust level is `benevolent`: may send to all
  MaxQueue,      \* MAX_QUEUE_PER_TARGET
  MaxMessages,   \* bound: messages accepted
  MaxDecisions,  \* bound: approvals, grants and links of operators
  MaxEvents      \* bound: spawns, disconnects, expiries, restarts

\* A spawn name that is not a slug is the slug of no conversation.
ASSUME NamesAssumption ==
  /\ Project \in [Convs -> Projects]
  /\ Titled \subseteq Convs /\ Senders \subseteq Convs
  /\ Open \subseteq Projects /\ Benevolent \subseteq Projects
  /\ NoName \notin Convs
  /\ DOMAIN JobName = Convs
  /\ \A c \in Convs : JobName[c] # NoName
                      /\ (JobName[c] \in Convs => JobName[c] = c)
  /\ MaxQueue \in Nat \ {0}
  /\ {MaxMessages, MaxDecisions, MaxEvents} \subseteq Nat

VARIABLES
  known,           \* conversations the broker has a record of (durable)
  sock,            \* a conversation's socket: "off", "boot" (no meta yet), "up"
  jobs,            \* spawns in flight
  book,            \* address books: <<p, q>> if p has a slug for q (durable)
  links, blocks,   \* project pairs linked, cooling off (in memory)
  stored,          \* project pairs with a persisted link
  grants,          \* conversation pairs linked (in memory)
  storedGrants,    \* conversation pairs with a persisted link
  queue,           \* the rows of message_queue (durable)
  mail,            \* every message accepted so far
  inbox,           \* what a conversation was sent, in order
  lost,            \* accepted messages that were dropped
  decisions, events

roster   == <<known, sock, jobs>>
consent  == <<links, blocks, stored, grants, storedGrants>>
messages == <<queue, mail, inbox, lost>>
vars     == <<roster, book, consent, messages, decisions, events>>

PairOf(a, c)  == {Project[a], Project[c]}
Pairs         == {{p, q} : p, q \in Projects}
ConvPairs     == {{a, c} : a, c \in Convs}
Names         == Convs \cup {NoName} \cup {JobName[c] : c \in Convs}
Kinds         == {"offline", "pending"}
Numbers       == 1 .. MaxMessages
Row(m, kind, scope, name) ==
  [msg |-> m, kind |-> kind, scope |-> scope, name |-> name]
Rows == [msg : Numbers, kind : Kinds, scope : Pairs, name : Names]

Event == events < MaxEvents /\ events' = events + 1

At(p)   == {c \in known : Project[c] = p}
Live(C) == {c \in C : sock[c] # "off"}

(***************************************************************************)
(* The queue.                                                              *)
(***************************************************************************)
InScope(kind, scope) == {r \in queue : r.kind = kind /\ r.scope = scope}
Oldest(R) == CHOOSE r \in R : \A s \in R : r.msg <= s.msg
Rank(S, m) == Cardinality({k \in S : k <= m})
\* A mutant: the newest row first.
NewestFirst(R) ==
  LET ids == {r.msg : r \in R}
  IN [n \in 1 .. Cardinality(ids) |-> CHOOSE m \in ids : Rank(ids, m) = Cardinality(ids) + 1 - n]
InOrder(R) ==
  LET ids == {r.msg : r \in R}
  IN [n \in 1 .. Cardinality(ids) |-> CHOOSE m \in ids : Rank(ids, m) = n]
NextId == Len(mail) + 1

\* At the cap the oldest row of the scope makes room.
enqueue(row) ==
  LET full == InScope(row.kind, row.scope)
      out  == IF Cardinality(full) >= MaxQueue THEN {Oldest(full)} ELSE {}
  IN /\ queue' = (queue \ out) \cup {row}
     /\ lost' = lost \cup {r.msg : r \in out}

\* A mutant: a drain takes every row that has to do with the project.
DequeueTouching(c) == {r \in queue : Project[c] \in r.scope}

\* The rows an ordinary drain of c's project takes: those for its name and the
\* bare ones, or every row of the project when it has no title.
dequeueFor(c) ==
  {r \in InScope("offline", {Project[c]}) : c \in Titled => r.name \in {c, NoName}}

\* A mutant: rows that were sent stay, to be sent again.
LeavesRows(R, c) ==
  IF sock[c] # "off"
  THEN inbox' = [inbox EXCEPT ![c] = @ \o InOrder(R)] /\ UNCHANGED <<queue, lost>>
  ELSE queue' = queue \ R /\ inbox' = inbox /\ lost' = lost \cup {r.msg : r \in R}

\* Hand rows to c's socket, or drop them when there is none.
HandOver(R, c) ==
  /\ queue' = queue \ R
  /\ IF sock[c] # "off"
     THEN inbox' = [inbox EXCEPT ![c] = @ \o InOrder(R)] /\ lost' = lost
     ELSE inbox' = inbox /\ lost' = lost \cup {r.msg : r \in R}

drainProjectMessages(a, c) == InScope("pending", PairOf(a, c))

(***************************************************************************)
(* The registry of links.                                                  *)
(***************************************************************************)
\* A mutant: a new link leaves the block standing.
LinksOnly(S) == links' = links \cup S /\ UNCHANGED blocks

linkProjects(S) == links' = links \cup S /\ blocks' = blocks \ S

Trusted(a, c) == \/ Project[a] = Project[c]
                 \/ Project[c] \in Open
                 \/ Project[a] \in Benevolent

\* Which layer decides about a send from a to c; the first match wins.
linkRule(a, c) ==
  IF {a, c} \in grants THEN "granted"
  ELSE IF PairOf(a, c) \in links THEN "linked"
  ELSE IF PairOf(a, c) \in blocks THEN "blocked"
  ELSE IF {a, c} \in storedGrants THEN "storedGrant"
  ELSE IF Trusted(a, c) \/ PairOf(a, c) \in stored THEN "storedLink"
  ELSE "unknown"

\* A layer found in the settings or in the store is cached in memory.
CacheLink(a, c) ==
  LET rule == linkRule(a, c) IN
  /\ IF rule = "storedLink" THEN linkProjects({PairOf(a, c)})
     ELSE UNCHANGED <<links, blocks>>
  /\ grants' = IF rule = "storedGrant" THEN grants \cup {{a, c}} ELSE grants
  /\ UNCHANGED <<stored, storedGrants>>

(***************************************************************************)
(* Sending.                                                                *)
(***************************************************************************)
\* The slug of project q is in the sender's book, or is put there when the
\* registry shows another conversation of q.
BookAfterScan(a, q) ==
  IF <<Project[a], q>> \in book THEN book
  ELSE book \cup {<<Project[a], Project[c]>> : c \in known \ {a}}

\* The conversations an address (q, n) may mean: one is the target, several
\* are ambiguous, none is offline.  A name is looked up in every project when
\* the project's slug is unknown.
resolveSendTarget(a, q, n) ==
  IF n # NoName THEN known \cap {n}
  ELSE IF <<Project[a], q>> \notin BookAfterScan(a, q) THEN {}
  ELSE IF Live(At(q)) # {} THEN Live(At(q)) ELSE At(q)

\* The names a message for nobody waits under: the one it is addressed to, if
\* the project is known, else that of a spawn in flight.
findPendingSpawnTarget(a, q, n) ==
  IF <<Project[a], q>> \in BookAfterScan(a, q) THEN {n}
  ELSE {JobName[c] : c \in {d \in jobs : Project[d] = q /\ n \in {d, NoName}}}

Accept(a, via, c) == mail' = Append(mail, [from |-> a, via |-> via, to |-> c])

QueueOffline(a, q, n) ==
  /\ resolveSendTarget(a, q, n) = {}
  /\ \E name \in findPendingSpawnTarget(a, q, n) :
       enqueue(Row(NextId, "offline", {q}, name))
  /\ book' = BookAfterScan(a, q) \cup {<<q, Project[a]>>}
  /\ Accept(a, "offline", n)
  /\ UNCHANGED <<inbox, consent>>

\* An error for the sender: nobody there, several there, or blocked.
Refuse(a, q, n) ==
  LET targets == resolveSendTarget(a, q, n) IN
  /\ \/ targets = {} /\ findPendingSpawnTarget(a, q, n) = {}
     \/ Cardinality(targets) > 1
     \/ \E c \in targets : targets = {c} /\ linkRule(a, c) = "blocked"
  /\ book' = BookAfterScan(a, q)
  /\ UNCHANGED <<consent, messages>>

\* A message for c, which the address resolves to and nothing blocks.
Resolved(a, q, c) ==
  /\ linkRule(a, c) # "blocked"
  /\ book' = BookAfterScan(a, q) \cup {<<Project[c], Project[a]>>}
  /\ CacheLink(a, c)

\* Authorized: to the socket, if there is one; else the sender gets an error.
DeliverNow(a, q, c) ==
  /\ Resolved(a, q, c)
  /\ linkRule(a, c) # "unknown"
  /\ IF sock[c] = "off" THEN UNCHANGED messages
     ELSE /\ inbox' = [inbox EXCEPT ![c] = Append(@, NextId)]
          /\ Accept(a, "direct", c)
          /\ UNCHANGED <<queue, lost>>

\* First contact: the row waits for an operator's answer.
QueuePending(a, q, c) ==
  /\ Resolved(a, q, c)
  /\ linkRule(a, c) = "unknown"
  /\ enqueue(Row(NextId, "pending", PairOf(a, c), NoName))
  /\ Accept(a, "pending", c)
  /\ UNCHANGED inbox

deliverToOne(a, q, n) ==
  /\ sock[a] # "off"
  /\ Len(mail) < MaxMessages
  /\ \/ QueueOffline(a, q, n)
     \/ Refuse(a, q, n)
     \/ \E c \in Convs : /\ resolveSendTarget(a, q, n) = {c}
                         /\ DeliverNow(a, q, c) \/ QueuePending(a, q, c)
  /\ UNCHANGED <<roster, decisions, events>>

(***************************************************************************)
(* Conversations come and go.                                              *)
(***************************************************************************)
Spawn(c) ==
  /\ Event
  /\ c \notin known \cup jobs
  /\ jobs' = jobs \cup {c}
  /\ UNCHANGED <<known, sock, book, consent, messages, decisions>>

JobFails(c) ==
  /\ c \in jobs
  /\ jobs' = jobs \ {c}
  /\ UNCHANGED <<known, sock, book, consent, messages, decisions, events>>

agentHostBoot(c) ==
  /\ sock[c] = "off"
  /\ known' = known \cup {c}
  /\ sock' = [sock EXCEPT ![c] = "boot"]
  /\ UNCHANGED <<jobs, book, consent, messages, decisions, events>>

\* A host announces its session: persisted links to projects with a live
\* conversation come back.
Connects(c) ==
  /\ sock[c] # "up"
  /\ known' = known \cup {c}
  /\ sock' = [sock EXCEPT ![c] = "up"]
  /\ jobs' = jobs \ {c}
  /\ linkProjects({PairOf(c, d) : d \in {e \in Live(known) \ {c} :
                                           PairOf(c, e) \in stored}})
  /\ UNCHANGED <<book, stored, grants, storedGrants, mail, lost, decisions, events>>
\* Two mutants: the delete forgets the filter of the select; only a new
\* conversation drains.
DeletesUnfiltered(c) ==
  /\ Connects(c)
  /\ queue' = queue \ InScope("offline", {Project[c]})
  /\ inbox' = [inbox EXCEPT ![c] = @ \o InOrder(dequeueFor(c))]
DrainsNewOnly(c) ==
  LET R == IF c \in known THEN {} ELSE dequeueFor(c) IN
  /\ Connects(c)
  /\ queue' = queue \ R
  /\ inbox' = [inbox EXCEPT ![c] = @ \o InOrder(R)]

\* Then the rows that wait for the conversation are handed over.
meta(c) ==
  /\ Connects(c)
  /\ queue' = queue \ dequeueFor(c)
  /\ inbox' = [inbox EXCEPT ![c] = @ \o InOrder(dequeueFor(c))]

Disconnect(c) ==
  /\ Event
  /\ sock[c] # "off"
  /\ sock' = [sock EXCEPT ![c] = "off"]
  /\ UNCHANGED <<known, jobs, book, consent, messages, decisions>>

removeConversation(c) ==
  /\ c \in known
  /\ sock[c] = "off"
  /\ known' = known \ {c}
  /\ UNCHANGED <<sock, jobs, book, consent, messages, decisions, events>>

(***************************************************************************)
(* An operator answers a banner, refers to a conversation, manages links.  *)
(***************************************************************************)
\* The banners some panel may still show.
Banners == {<<mail[m].from, mail[m].to>> :
              m \in {k \in 1 .. Len(mail) : mail[k].via = "pending"}}

\* One decision that opens a way; those that close one are not counted.  Requests
\* that would change nothing are left out.
Decide == decisions < MaxDecisions /\ decisions' = decisions + 1

approveProjectLink(a, c) ==
  /\ Decide
  /\ <<a, c>> \in Banners /\ {a, c} \subseteq known
  /\ linkProjects({PairOf(a, c)})
  /\ stored' = stored \cup {PairOf(a, c)}
  /\ HandOver(drainProjectMessages(a, c), c)
  /\ UNCHANGED <<roster, book, grants, storedGrants, mail, events>>

\* A mutant: a refusal leaves the persisted link.
KeepsStoredLink(a, c) ==
  /\ <<a, c>> \in Banners /\ {a, c} \subseteq known
  /\ links' = links \ {PairOf(a, c)}
  /\ blocks' = blocks \cup {PairOf(a, c)}
  /\ queue' = queue \ drainProjectMessages(a, c)
  /\ lost' = lost \cup {r.msg : r \in drainProjectMessages(a, c)}
  /\ UNCHANGED <<roster, book, stored, grants, storedGrants, mail, inbox, decisions, events>>

blockProjectLink(a, c) ==
  /\ <<a, c>> \in Banners /\ {a, c} \subseteq known
  /\ links' = links \ {PairOf(a, c)}
  /\ blocks' = blocks \cup {PairOf(a, c)}
  /\ stored' = stored \ {PairOf(a, c)}
  /\ queue' = queue \ drainProjectMessages(a, c)
  /\ lost' = lost \cup {r.msg : r \in drainProjectMessages(a, c)}
  /\ UNCHANGED <<roster, book, grants, storedGrants, mail, inbox, decisions, events>>

channelLinkGrant(a, c) ==
  /\ Decide
  /\ a # c /\ {a, c} \subseteq known
  /\ {a, c} \notin grants /\ PairOf(a, c) \notin links \cup blocks
  /\ grants' = grants \cup {{a, c}}
  /\ storedGrants' = storedGrants \cup {{a, c}}
  /\ HandOver(drainProjectMessages(a, c), c)
  /\ UNCHANGED <<roster, book, links, blocks, stored, mail, events>>

unlinkConversations(a, c) ==
  /\ {a, c} \subseteq known
  /\ {a, c} \in grants \cup storedGrants
  /\ grants' = grants \ {{a, c}}
  /\ storedGrants' = storedGrants \ {{a, c}}
  /\ UNCHANGED <<roster, book, links, blocks, stored, messages, decisions, events>>

\* From a panel, or DELETE /api/links.
unlinkProjects(p, q) ==
  /\ {p, q} \in links \cup stored
  /\ links' = links \ {{p, q}}
  /\ stored' = stored \ {{p, q}}
  /\ UNCHANGED <<roster, book, blocks, grants, storedGrants, messages, decisions, events>>

\* POST /api/links
AdminLink(p, q) ==
  /\ Decide
  /\ p # q
  /\ stored' = stored \cup {{p, q}}
  /\ linkProjects({{p, q}})
  /\ UNCHANGED <<roster, book, grants, storedGrants, messages, events>>

\* DELETE /api/links/all
clearLinksForProject(p) ==
  /\ \E s \in stored : p \in s
  /\ stored' = {s \in stored : p \notin s}
  /\ links' = links \ {s \in stored : p \in s}
  /\ UNCHANGED <<roster, book, blocks, grants, storedGrants, messages, decisions, events>>

(***************************************************************************)
(* Time and crashes.                                                       *)
(***************************************************************************)
\* The minute of a block is over.
CoolsOff(s) ==
  /\ s \in blocks
  /\ blocks' = blocks \ {s}
  /\ UNCHANGED <<roster, book, links, stored, grants, storedGrants, messages,
                 decisions, events>>

\* Every row lives for the same 24 hours: the oldest goes first.
Expires ==
  /\ Event
  /\ queue # {}
  /\ queue' = queue \ {Oldest(queue)}
  /\ lost' = lost \cup {Oldest(queue).msg}
  /\ UNCHANGED <<roster, book, consent, mail, inbox, decisions>>

Restart ==
  /\ Event
  /\ sock' = [c \in Convs |-> "off"]
  /\ jobs' = {} /\ links' = {} /\ blocks' = {} /\ grants' = {}
  /\ UNCHANGED <<known, book, stored, storedGrants, messages, decisions>>

Init ==
  /\ known = {} /\ sock = [c \in Convs |-> "off"] /\ jobs = {} /\ book = {}
  /\ links = {} /\ blocks = {} /\ stored = {} /\ grants = {} /\ storedGrants = {}
  /\ queue = {} /\ mail = <<>> /\ inbox = [c \in Convs |-> <<>>] /\ lost = {}
  /\ decisions = 0 /\ events = 0

Next ==
  \/ \E a \in Senders, q \in Projects, n \in Convs \cup {NoName} :
       /\ n # NoName => Project[n] = q
       /\ deliverToOne(a, q, n)
  \/ \E c \in Convs : \/ Spawn(c) \/ JobFails(c) \/ agentHostBoot(c) \/ meta(c)
                      \/ Disconnect(c) \/ removeConversation(c)
  \/ \E a, c \in Convs : \/ approveProjectLink(a, c) \/ blockProjectLink(a, c)
                         \/ channelLinkGrant(a, c) \/ unlinkConversations(a, c)
  \/ \E p, q \in Projects : unlinkProjects(p, q) \/ AdminLink(p, q)
  \/ \E p \in Projects : clearLinksForProject(p)
  \/ \E s \in Pairs : CoolsOff(s)
  \/ Expires
  \/ Restart

Spec == Init /\ [][Next]_vars

-----------------------------------------------------------------------------
\* Types; and a pair of projects is never both linked and cooling off: every
\* way to link a pair ends its block, every block cuts the link.
TypeOK ==
  /\ known \subseteq Convs /\ jobs \subseteq Convs
  /\ sock \in [Convs -> {"off", "boot", "up"}]
  /\ book \subseteq Projects \X Projects
  /\ {links, blocks, stored} \subseteq SUBSET Pairs
  /\ {grants, storedGrants} \subseteq SUBSET ConvPairs
  /\ queue \subseteq Rows
  /\ mail \in Seq([from : Convs, via : Kinds \cup {"direct"}, to : Names])
  /\ inbox \in [Convs -> Seq(Numbers)]
  /\ lost \subseteq Numbers
  /\ {decisions, events} \subseteq Nat
  /\ links \cap blocks = {}

\* A message the sender was told is delivered or queued is in exactly one place,
\* once: a row of the queue, one conversation's inbox, or among the dropped.
\* Draining, the cap, the expiry and a failed hand-over neither duplicate a
\* message nor make it vanish unaccounted for (store/sqlite/messages.ts).
Conserved ==
  \A m \in 1 .. Len(mail) :
    LET rows   == {<<"row", r>> : r \in {s \in queue : s.msg = m}}
        copies == UNION {{<<c, i>> : i \in {k \in DOMAIN inbox[c] : inbox[c][k] = m}} :
                        c \in Convs}
    IN Cardinality(rows) + Cardinality(copies) + Cardinality({m} \cap lost) = 1

\* The rows that wait for c by name or for its project.
Waiting(c) == {r \in InScope("offline", {Project[c]}) : r.name \in {c, NoName}}

\* Nothing waits for a conversation that is connected and has sent its meta, so
\* a direct send to it overtakes no queued one (handlers/conversation-lifecycle.ts).
\* Only between agent_host_boot and meta may both exist.
NothingWaitsBehindLive ==
  \A c \in Convs : sock[c] = "up" => Waiting(c) = {}

\* An operator's refusal holds for its minute: only an operator links a pair
\* that cools off.  Neither trust, nor a persisted link that comes back with a
\* reconnecting host, does (project-links.ts: "nothing left to resurrect").
DenyHolds ==
  [][\A s \in blocks \cap links' :
       \/ \E a, c \in Convs : s = PairOf(a, c) /\ approveProjectLink(a, c)
       \/ \E p, q \in Projects : s = {p, q} /\ AdminLink(p, q)]_vars

Heard(c)    == {inbox[c][i] : i \in DOMAIN inbox[c]}

\* Messages of one lane: sent directly, through the offline queue, or through the
\* pending queue of one pair of projects.
SameLane(m, n) ==
  /\ mail[m].via = mail[n].via
  /\ mail[m].via = "pending" =>
       PairOf(mail[m].from, mail[m].to) = PairOf(mail[n].from, mail[n].to)

\* A conversation hears the messages of a lane in the order the senders were told
\* they are queued: whatever is drained on one connect, approval or grant was
\* accepted after all it drained before, however hosts reconnect, conversations
\* of one project take each other's bare rows, and rows are evicted or expire.
HeardInOrder ==
  \A c \in Convs : \A i, j \in DOMAIN inbox[c] :
    i < j /\ SameLane(inbox[c][i], inbox[c][j]) => inbox[c][i] < inbox[c][j]

\* A first-contact message reaches a conversation only in a step after which
\* its project pair is linked, or that conversation has a grant across the
\* pair: no drain by the target project reads a pending row (message-queue.ts).
PendingNeedsConsent ==
  [][\A c \in Convs : \A m \in Heard(c)' \ Heard(c) :
       mail'[m].via = "pending" =>
         LET pair == PairOf(mail'[m].from, mail'[m].to) IN
         \/ pair \in links'
         \/ \E d \in Convs : {c, d} \in grants' /\ PairOf(c, d) = pair]_vars
\* As its messages see it the router is a mailbox: accepted, they are put before
\* one conversation or wait; what waits is handed over in order or dropped, in one
\* step; what was heard or dropped is never again among what waits (message-queue.ts).
Box == INSTANCE Mailbox WITH sent <- Len(mail), waiting <- {r.msg : r \in queue},
                             heard <- inbox, dropped <- lost
MailboxSpec == Box!Spec
=============================================================================
