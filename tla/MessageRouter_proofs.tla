------------------------ MODULE MessageRouter_proofs ------------------------
(***************************************************************************)
(* Proofs about the message router, for every roster of conversations and  *)
(* projects, every trust setting and every bound:                          *)
(*   - nothing waits in the offline queue for a conversation that is up;   *)
(*   - a refused pair of projects is linked by an operator only;           *)
(*   - an accepted message is in exactly one place;                        *)
(*   - a first contact is handed over with consent only;                   *)
(*   - what is heard of a lane is in the order it was accepted;            *)
(*   - the router implements the abstract Mailbox.                         *)
(* The queue is only ever extended by one row, of a name or project that   *)
(* has no conversation yet: that, and that a socket belongs to a recorded  *)
(* conversation, is the first inductive argument.  For the last four, a    *)
(* step is one of five moves of messages, and rows, inboxes and what is    *)
(* lost share no number; for the order, a drain takes whole lanes.         *)
(***************************************************************************)
EXTENDS MessageRouter, TLAPS, FiniteSetTheorems, SequenceTheorems

\* Who has a socket has a record, and who is up is no spawn in flight.
LiveKnown ==
  /\ known \subseteq Convs /\ jobs \subseteq Convs
  /\ sock \in [Convs -> {"off", "boot", "up"}]
  /\ \A c \in Convs : (sock[c] # "off" => c \in known) /\ (sock[c] = "up" => c \notin jobs)

IInv == LiveKnown /\ NothingWaitsBehindLive

\* Nothing is left of a refused link, neither in memory nor in the store.
RefusedIsForgotten == blocks \cap (links \cup stored) = {}

-----------------------------------------------------------------------------
\* Fewer rows and the same sockets keep the invariant.
LEMMA FewerRows ==
  ASSUME IInv, queue' \subseteq queue, UNCHANGED roster
  PROVE  IInv'
  BY DEF IInv, LiveKnown, NothingWaitsBehindLive, Waiting, InScope, roster

\* One row more, which is for nobody that is up, keeps it too.
LEMMA OneRowMore ==
  ASSUME IInv, NEW row, queue' \subseteq queue \cup {row}, UNCHANGED roster,
         \A c \in Convs :
           sock[c] = "up" => \/ row.kind # "offline"
                             \/ row.scope # {Project[c]}
                             \/ row.name \notin {c, NoName}
  PROVE  IInv'
  BY DEF IInv, LiveKnown, NothingWaitsBehindLive, Waiting, InScope, roster

\* What enqueue does to the queue.
LEMMA EnqueueAdds ==
  ASSUME NEW row, enqueue(row)
  PROVE  queue' \subseteq queue \cup {row}
  BY DEF enqueue

\* A row goes to the offline queue under a name that no conversation that is
\* up answers to, or for a project that has no conversation.
LEMMA OfflineStep ==
  ASSUME IInv, NEW a \in Convs, NEW q \in Projects, NEW n \in Convs \cup {NoName},
         n # NoName => Project[n] = q,
         QueueOffline(a, q, n), UNCHANGED roster
  PROVE  IInv'
<1> DEFINE names == findPendingSpawnTarget(a, q, n)
<1>1. PICK name \in names : enqueue(Row(NextId, "offline", {q}, name))
  BY DEF QueueOffline
<1> DEFINE row == Row(NextId, "offline", {q}, name)
<1>2. queue' \subseteq queue \cup {row}
  BY <1>1, EnqueueAdds
<1>3. resolveSendTarget(a, q, n) = {}
  BY DEF QueueOffline
<1>4. SUFFICES ASSUME NEW c \in Convs, sock[c] = "up", Project[c] = q,
                      name \in {c, NoName}
               PROVE  FALSE
  <2>1. row.scope = {q} /\ row.name = name /\ row.kind = "offline"
    BY DEF Row
  <2>2. \A c \in Convs : {q} = {Project[c]} => Project[c] = q
    OBVIOUS
  <2> QED
    BY <1>2, <1>4, <2>1, <2>2, OneRowMore
<1>5. c \in known
  BY <1>4 DEF IInv, LiveKnown
<1>6. CASE name = n
  <2>1. CASE n = NoName
    <3>1. <<Project[a], q>> \in BookAfterScan(a, q)
      BY <1>6, <2>1, NamesAssumption DEF findPendingSpawnTarget, IInv, LiveKnown
    <3>2. c \in At(q) /\ c \in Live(At(q))
      BY <1>4, <1>5 DEF At, Live
    <3> QED
      BY <1>3, <2>1, <3>1, <3>2 DEF resolveSendTarget
  <2>2. CASE n # NoName
    <3>1. n = c
      BY <1>4, <1>6, <2>2
    <3> QED
      BY <1>3, <1>5, <2>2, <3>1 DEF resolveSendTarget
  <2> QED
    BY <2>1, <2>2
<1>7. CASE name # n
  <2>1. PICK d \in jobs : /\ Project[d] = q /\ n \in {d, NoName}
                          /\ name = JobName[d]
                          /\ <<Project[a], q>> \notin BookAfterScan(a, q)
    BY <1>7 DEF findPendingSpawnTarget
  <2>2. d \in Convs
    BY <2>1 DEF IInv, LiveKnown
  <2>3. c = d
    BY <1>4, <2>1, <2>2, NamesAssumption
  <2> QED
    BY <1>4, <2>1, <2>3 DEF IInv, LiveKnown
<1> QED
  BY <1>6, <1>7

\* Whatever becomes of a send.
LEMMA SendStep ==
  ASSUME IInv, NEW a \in Convs, NEW q \in Projects, NEW n \in Convs \cup {NoName},
         n # NoName => Project[n] = q, deliverToOne(a, q, n)
  PROVE  IInv'
<1>1. UNCHANGED roster
  BY DEF deliverToOne
<1>2. CASE QueueOffline(a, q, n)
  BY <1>1, <1>2, OfflineStep
<1>3. CASE Refuse(a, q, n)
  BY <1>1, <1>3, FewerRows DEF Refuse, messages
<1>4. CASE \E c \in Convs : DeliverNow(a, q, c)
  BY <1>1, <1>4, FewerRows DEF DeliverNow, messages
<1>5. CASE \E c \in Convs : QueuePending(a, q, c)
  <2>1. PICK c \in Convs : enqueue(Row(NextId, "pending", PairOf(a, c), NoName))
    BY <1>5 DEF QueuePending
  <2> DEFINE row == Row(NextId, "pending", PairOf(a, c), NoName)
  <2>2. queue' \subseteq queue \cup {row}
    BY <2>1, EnqueueAdds
  <2>3. row.kind # "offline"
    BY DEF Row
  <2> QED
    BY <1>1, <2>2, <2>3, OneRowMore
<1> QED
  BY <1>2, <1>3, <1>4, <1>5 DEF deliverToOne

\* The host's meta takes every row that waits for the conversation.
LEMMA MetaStep ==
  ASSUME IInv, NEW c \in Convs, meta(c)
  PROVE  IInv'
<1>1. /\ known' = known \cup {c}
      /\ sock' = [sock EXCEPT ![c] = "up"]
      /\ jobs' = jobs \ {c}
      /\ queue' = queue \ dequeueFor(c)
  BY DEF meta, Connects
<1>2. LiveKnown'
  BY <1>1 DEF IInv, LiveKnown
<1>3. ASSUME NEW d \in Convs, sock'[d] = "up"  PROVE Waiting(d)' = {}
  <2>1. CASE d = c
    BY <1>1, <2>1 DEF Waiting, InScope, dequeueFor
  <2>2. CASE d # c
    <3>1. sock[d] = "up"
      BY <1>1, <1>3, <2>2 DEF IInv, LiveKnown
    <3> QED
      BY <1>1, <3>1 DEF IInv, NothingWaitsBehindLive, Waiting, InScope
  <2> QED
    BY <2>1, <2>2
<1> QED
  BY <1>2, <1>3 DEF IInv, NothingWaitsBehindLive

\* The other steps of a conversation, and a restart, touch no row.
LEMMA RosterStep ==
  ASSUME IInv, NEW c \in Convs,
         \/ Spawn(c) \/ JobFails(c) \/ agentHostBoot(c)
         \/ Disconnect(c) \/ removeConversation(c) \/ Restart
  PROVE  IInv'
<1>1. queue' = queue
  BY DEF Spawn, JobFails, agentHostBoot, Disconnect, removeConversation, Restart, messages
<1>2. LiveKnown' /\ \A d \in Convs : sock'[d] = "up" => sock[d] = "up"
  <2>1. CASE Spawn(c)
    BY <2>1 DEF Spawn, IInv, LiveKnown
  <2>2. CASE JobFails(c)
    BY <2>2 DEF JobFails, IInv, LiveKnown
  <2>3. CASE agentHostBoot(c)
    BY <2>3 DEF agentHostBoot, IInv, LiveKnown
  <2>4. CASE Disconnect(c)
    BY <2>4 DEF Disconnect, IInv, LiveKnown
  <2>5. CASE removeConversation(c)
    BY <2>5 DEF removeConversation, IInv, LiveKnown
  <2>6. CASE Restart
    BY <2>6 DEF Restart, IInv, LiveKnown
  <2> QED
    BY <2>1, <2>2, <2>3, <2>4, <2>5, <2>6
<1> QED
  BY <1>1, <1>2 DEF IInv, NothingWaitsBehindLive, Waiting, InScope

\* Operators, the clock and the expiry only take rows away.
LEMMA OperatorStep ==
  ASSUME IInv, NEW a \in Convs, NEW c \in Convs,
         \/ approveProjectLink(a, c) \/ blockProjectLink(a, c)
         \/ channelLinkGrant(a, c) \/ unlinkConversations(a, c)
  PROVE  IInv'
<1>1. UNCHANGED roster /\ queue' \subseteq queue
  BY DEF approveProjectLink, blockProjectLink, channelLinkGrant, unlinkConversations,
         HandOver, messages
<1> QED
  BY <1>1, FewerRows

\* So do the lists of links, and time.
LEMMA AdminStep ==
  ASSUME IInv, NEW p \in Projects, NEW q \in Projects,
         \/ unlinkProjects(p, q) \/ AdminLink(p, q) \/ clearLinksForProject(p)
         \/ (\E s \in Pairs : CoolsOff(s)) \/ Expires
  PROVE  IInv'
<1>1. UNCHANGED roster /\ queue' \subseteq queue
  BY DEF unlinkProjects, AdminLink, clearLinksForProject, CoolsOff, Expires, messages
<1> QED
  BY <1>1, FewerRows

-----------------------------------------------------------------------------
\* Every step leaves nobody that is up with a row to wait for.
LEMMA WaitingStep ==
  ASSUME IInv, [Next]_vars
  PROVE  IInv'
<1>1. CASE UNCHANGED vars
  <2>1. UNCHANGED roster /\ queue' \subseteq queue
    BY <1>1 DEF vars, messages
  <2> QED
    BY <2>1, FewerRows
<1>2. CASE \E a \in Senders, q \in Projects, n \in Convs \cup {NoName} :
             (n # NoName => Project[n] = q) /\ deliverToOne(a, q, n)
  BY <1>2, SendStep, NamesAssumption
<1>3. CASE \E c \in Convs : meta(c)
  BY <1>3, MetaStep
<1>4. CASE \E c \in Convs : \/ Spawn(c) \/ JobFails(c) \/ agentHostBoot(c)
                            \/ Disconnect(c) \/ removeConversation(c)
  BY <1>4, RosterStep
<1>5. CASE \E a, c \in Convs :
             \/ approveProjectLink(a, c) \/ blockProjectLink(a, c)
             \/ channelLinkGrant(a, c) \/ unlinkConversations(a, c)
  BY <1>5, OperatorStep
<1>6. CASE \/ \E p, q \in Projects : unlinkProjects(p, q) \/ AdminLink(p, q)
           \/ \E p \in Projects : clearLinksForProject(p)
  BY <1>6, AdminStep
<1>7. CASE (\E s \in Pairs : CoolsOff(s)) \/ Expires
  <2>1. UNCHANGED roster /\ queue' \subseteq queue
    BY <1>7 DEF CoolsOff, Expires, messages
  <2> QED
    BY <2>1, FewerRows
<1>8. CASE Restart
  <2>1. CASE Convs = {}
    BY <1>8, <2>1 DEF Restart, IInv, LiveKnown, NothingWaitsBehindLive
  <2>2. CASE Convs # {}
    BY <1>8, <2>2, RosterStep
  <2> QED
    BY <2>1, <2>2
<1> QED
  BY <1>1, <1>2, <1>3, <1>4, <1>5, <1>6, <1>7, <1>8 DEF Next

\* In every reachable state nothing waits in the offline queue for a
\* conversation that is connected and has sent its meta, so no direct send to
\* it overtakes a queued one (handlers/conversation-lifecycle.ts).
THEOREM QueueBehindNobody == Spec => []NothingWaitsBehindLive
<1>1. Init => IInv
  BY DEF Init, IInv, LiveKnown, NothingWaitsBehindLive, Waiting, InScope
<1>2. IInv /\ [Next]_vars => IInv'
  BY WaitingStep
<1>3. IInv => NothingWaitsBehindLive
  BY DEF IInv
<1> QED
  BY <1>1, <1>2, <1>3, PTL DEF Spec

-----------------------------------------------------------------------------
\* What a step may do to the three sets of project pairs: add pairs to links
\* or to blocks, and clear them where they contradict each other.
LEMMA SendLinks ==
  ASSUME NEW a, NEW q, NEW n, deliverToOne(a, q, n)
  PROVE  /\ stored' = stored
         /\ blocks' \subseteq blocks
         /\ \A s \in links' : s \in links \/ s \notin blocks
         /\ \A s \in blocks' : s \in links' => s \in links
<1>1. CASE QueueOffline(a, q, n) \/ Refuse(a, q, n)
  BY <1>1 DEF QueueOffline, Refuse, consent
<1>2. CASE \E c \in Convs : Resolved(a, q, c)
  <2>1. PICK c \in Convs : CacheLink(a, c)
    BY <1>2 DEF Resolved
  <2>2. CASE linkRule(a, c) = "storedLink"
    <3>1. PairOf(a, c) \notin links \cup blocks
      BY <2>2 DEF linkRule
    <3> QED
      BY <2>1, <2>2, <3>1 DEF CacheLink, linkProjects
  <2>3. CASE linkRule(a, c) # "storedLink"
    BY <2>1, <2>3 DEF CacheLink
  <2> QED
    BY <2>2, <2>3
<1> QED
  BY <1>1, <1>2 DEF deliverToOne, DeliverNow, QueuePending

\* Every step leaves nothing of a refused link.
LEMMA ForgottenStep ==
  ASSUME RefusedIsForgotten, [Next]_vars
  PROVE  RefusedIsForgotten'
<1>1. CASE \E a \in Senders, q \in Projects, n \in Convs \cup {NoName} : deliverToOne(a, q, n)
  BY <1>1, SendLinks DEF RefusedIsForgotten
<1>2. CASE \E c \in Convs : meta(c)
  BY <1>2 DEF meta, Connects, linkProjects, RefusedIsForgotten
<1>3. CASE UNCHANGED consent
  BY <1>3 DEF consent, RefusedIsForgotten
<1>4. CASE \E a, c \in Convs : approveProjectLink(a, c)
  BY <1>4 DEF approveProjectLink, linkProjects, RefusedIsForgotten
<1>5. CASE \E a, c \in Convs : blockProjectLink(a, c)
  BY <1>5 DEF blockProjectLink, RefusedIsForgotten
<1>6. CASE \E a, c \in Convs : channelLinkGrant(a, c) \/ unlinkConversations(a, c)
  BY <1>6 DEF channelLinkGrant, unlinkConversations, RefusedIsForgotten
<1>7. CASE \E p, q \in Projects : unlinkProjects(p, q)
  BY <1>7 DEF unlinkProjects, RefusedIsForgotten
<1>8. CASE \E p, q \in Projects : AdminLink(p, q)
  BY <1>8 DEF AdminLink, linkProjects, RefusedIsForgotten
<1>9. CASE \E p \in Projects : clearLinksForProject(p)
  BY <1>9 DEF clearLinksForProject, RefusedIsForgotten
<1>10. CASE (\E s \in Pairs : CoolsOff(s)) \/ Restart
  BY <1>10 DEF CoolsOff, Restart, RefusedIsForgotten
<1>11. (\E c \in Convs : \/ Spawn(c) \/ JobFails(c) \/ agentHostBoot(c)
                        \/ Disconnect(c) \/ removeConversation(c))
       \/ Expires \/ UNCHANGED vars => UNCHANGED consent
  BY DEF Spawn, JobFails, agentHostBoot, Disconnect, removeConversation, Expires, vars
<1> QED
  BY <1>1, <1>2, <1>3, <1>4, <1>5, <1>6, <1>7, <1>8, <1>9, <1>10, <1>11 DEF Next

\* A pair of projects that an operator refused is linked again by an operator
\* only, as long as the refusal stands: no trust setting and no persisted link
\* restores it, because nothing of it is persisted (project-links.ts).
THEOREM RefusalHolds == Spec => DenyHolds
<1> DEFINE Answered(s) ==
      \/ \E a, c \in Convs : s = PairOf(a, c) /\ approveProjectLink(a, c)
      \/ \E p, q \in Projects : s = {p, q} /\ AdminLink(p, q)
<1>1. Init => RefusedIsForgotten
  BY DEF Init, RefusedIsForgotten
<1>2. ASSUME RefusedIsForgotten, Next
      PROVE  \A s \in blocks \cap links' : Answered(s)
  <2> SUFFICES ASSUME NEW s, s \in blocks, s \in links'  PROVE Answered(s)
    OBVIOUS
  <2>1. s \notin links /\ s \notin stored
    BY <1>2 DEF RefusedIsForgotten
  <2>2. CASE \E a \in Senders, q \in Projects, n \in Convs \cup {NoName} : deliverToOne(a, q, n)
    BY <2>1, <2>2, SendLinks
  <2>3. CASE \E c \in Convs : meta(c)
    BY <2>1, <2>3 DEF meta, Connects, linkProjects
  <2>4. CASE \E a, c \in Convs : approveProjectLink(a, c)
    BY <2>1, <2>4 DEF approveProjectLink, linkProjects
  <2>5. CASE \E p, q \in Projects : AdminLink(p, q)
    BY <2>1, <2>5 DEF AdminLink, linkProjects
  <2>6. CASE links' \subseteq links
    BY <2>1, <2>6
  <2>7. (\E a, c \in Convs : \/ blockProjectLink(a, c) \/ channelLinkGrant(a, c)
                            \/ unlinkConversations(a, c)) => links' \subseteq links
    BY DEF blockProjectLink, channelLinkGrant, unlinkConversations
  <2>8. (\E p, q \in Projects : unlinkProjects(p, q) \/ clearLinksForProject(p))
          => links' \subseteq links
    BY DEF unlinkProjects, clearLinksForProject
  <2>9. (\E x \in Pairs : CoolsOff(x)) \/ Restart \/ Expires => links' \subseteq links
    BY DEF CoolsOff, Restart, Expires, consent
  <2>10. (\E c \in Convs : \/ Spawn(c) \/ JobFails(c) \/ agentHostBoot(c)
                          \/ Disconnect(c) \/ removeConversation(c))
           => links' \subseteq links
    BY DEF Spawn, JobFails, agentHostBoot, Disconnect, removeConversation, consent
  <2> QED
    BY <1>2, <2>2, <2>3, <2>4, <2>5, <2>6, <2>7, <2>8, <2>9, <2>10 DEF Next
<1>3. RefusedIsForgotten /\ [Next]_vars
        => [\A s \in blocks \cap links' : Answered(s)]_vars
  BY <1>2
<1> QED
  BY <1>1, <1>3, ForgottenStep, PTL DEF Spec, DenyHolds

-----------------------------------------------------------------------------
(* The rows of a hand-over, in order.                                       *)

Ids(R) == {r.msg : r \in R}

\* Every nonempty set of naturals has a least element.
LEMMA LeastNumber ==
  ASSUME NEW T \in SUBSET Nat, T # {}
  PROVE  \E n \in T : \A m \in T : n <= m
<1>1. \E x \in T : \A y \in T : <<y, x>> \notin OpToRel(<, Nat)
  <2> DEFINE R == OpToRel(<, Nat)
  <2>1. IsWellFoundedOn(R, Nat)
    BY NatLessThanWellFounded
  <2> HIDE DEF R
  <2>2. \E x \in T : \A y \in T : ~ (<<y, x>> \in R)
    BY <2>1, WFMin
  <2> QED
    BY <2>2 DEF R
<1>2. \A x, y \in Nat : <<y, x>> \notin OpToRel(<, Nat) => x <= y
  BY DEF OpToRel
<1> QED
  BY <1>1, <1>2

\* In a finite set of numbers a number's rank is its own.
LEMMA Ranks ==
  ASSUME NEW S \in SUBSET Nat, IsFiniteSet(S)
  PROVE  /\ \A m \in S : Rank(S, m) \in 1 .. Cardinality(S)
         /\ \A m, n \in S : Rank(S, m) = Rank(S, n) => m = n
         /\ \A i \in 1 .. Cardinality(S) : \E m \in S : Rank(S, m) = i
         /\ Cardinality(S) \in Nat
         /\ \A m, n \in S : Rank(S, m) < Rank(S, n) => m < n
<1> DEFINE Upto(m) == {k \in S : k <= m}
<1>1. Cardinality(S) \in Nat /\ IsFiniteSet(1 .. Cardinality(S))
      /\ Cardinality(1 .. Cardinality(S)) = Cardinality(S)
  BY FS_CardinalityType, FS_Interval
<1>2. \A m \in S : IsFiniteSet(Upto(m)) /\ Cardinality(Upto(m)) \in Nat
                   /\ Cardinality(Upto(m)) <= Cardinality(S)
  <2> TAKE m \in S
  <2>1. Upto(m) \subseteq S
    OBVIOUS
  <2> HIDE DEF Upto
  <2> QED
    BY <2>1, FS_Subset, FS_CardinalityType
<1>3. \A m \in S : Cardinality(Upto(m)) # 0
  <2> TAKE m \in S
  <2>1. m \in Upto(m)
    OBVIOUS
  <2> HIDE DEF Upto
  <2> QED
    BY <1>2, <2>1, FS_EmptySet
<1>4. ASSUME NEW m \in S, NEW n \in S, m < n
      PROVE  Cardinality(Upto(m)) < Cardinality(Upto(n))
  <2>1. Upto(m) \subseteq Upto(n) /\ n \in Upto(n) /\ n \notin Upto(m)
    <3>1. n <= n /\ ~ (n <= m) /\ \A k \in S : k <= m => k <= n
      BY <1>4
    <3> QED
      BY <3>1, Zenon
  <2> HIDE DEF Upto
  <2> QED
    BY <1>2, <2>1, FS_Subset
<1>5. \A m, n \in S : Cardinality(Upto(m)) = Cardinality(Upto(n)) => m = n
  <2> TAKE m, n \in S
  <2>1. m < n \/ n < m \/ m = n
    OBVIOUS
  <2> HIDE DEF Upto
  <2> QED
    BY <1>2, <1>4, <2>1
<1> DEFINE f == [m \in S |-> Cardinality(Upto(m))]
<1>6. \A m \in S : Cardinality(Upto(m)) \in 1 .. Cardinality(S)
  <2> HIDE DEF Upto
  <2> QED
    BY <1>1, <1>2, <1>3
<1>7. f \in Injection(S, 1 .. Cardinality(S))
  <2> HIDE DEF Upto
  <2> QED
    BY <1>5, <1>6 DEF Injection, IsInjective
<1>8. f \in Surjection(S, 1 .. Cardinality(S))
  <2> HIDE DEF f
  <2> QED
    BY <1>1, <1>7, FS_Injection
<1>9. \A i \in 1 .. Cardinality(S) : \E m \in S : Cardinality(Upto(m)) = i
  <2> HIDE DEF Upto
  <2> QED
    BY <1>8 DEF Surjection
<1>10. \A m, n \in S : Cardinality(Upto(m)) < Cardinality(Upto(n)) => m < n
  <2> TAKE m, n \in S
  <2>1. m < n \/ n < m \/ m = n
    OBVIOUS
  <2> HIDE DEF Upto
  <2> QED
    BY <1>2, <1>4, <2>1
<1> QED
  BY <1>1, <1>5, <1>6, <1>9, <1>10 DEF Rank

\* A hand-over names each of its rows once, the lower numbers first.
LEMMA HandsOverOnce ==
  ASSUME NEW R, Ids(R) \in SUBSET Nat, IsFiniteSet(Ids(R))
  PROVE  /\ InOrder(R) \in Seq(Ids(R))
         /\ \A i, j \in 1 .. Len(InOrder(R)) : InOrder(R)[i] = InOrder(R)[j] => i = j
         /\ \A m \in Ids(R) : \E i \in 1 .. Len(InOrder(R)) : InOrder(R)[i] = m
         /\ \A i, j \in 1 .. Len(InOrder(R)) : i < j => InOrder(R)[i] < InOrder(R)[j]
         /\ Len(InOrder(R)) = Cardinality(Ids(R))
<1> DEFINE S == Ids(R)
           N == Cardinality(S)
           at(n) == CHOOSE m \in S : Rank(S, m) = n
<1>1. /\ N \in Nat
      /\ \A n \in 1 .. N : at(n) \in S /\ Rank(S, at(n)) = n
      /\ \A m \in S : Rank(S, m) \in 1 .. N /\ at(Rank(S, m)) = m
      /\ \A i, j \in 1 .. N : i < j => at(i) < at(j)
  <2>1. /\ N \in Nat
        /\ \A n \in 1 .. N : \E m \in S : Rank(S, m) = n
        /\ \A m \in S : Rank(S, m) \in 1 .. N
        /\ \A m, n \in S : Rank(S, m) = Rank(S, n) => m = n
        /\ \A m, n \in S : Rank(S, m) < Rank(S, n) => m < n
    BY Ranks
  <2> HIDE DEF S, N
  <2>2. \A n \in 1 .. N : at(n) \in S /\ Rank(S, at(n)) = n
    BY <2>1
  <2> HIDE DEF at
  <2> QED
    BY <2>1, <2>2
<1>2. InOrder(R) = [n \in 1 .. N |-> at(n)]
  BY DEF InOrder, Ids
<1> HIDE DEF S, N, at
<1>3. InOrder(R) \in Seq(S) /\ Len(InOrder(R)) = N
  BY <1>1, <1>2
<1>4. \A n \in 1 .. N : InOrder(R)[n] = at(n)
  BY <1>2
<1>5. \A i, j \in 1 .. N : InOrder(R)[i] = InOrder(R)[j] => i = j
  BY <1>1, <1>4
<1>6. \A m \in S : \E i \in 1 .. N : InOrder(R)[i] = m
  BY <1>1, <1>4
<1>7. \A i, j \in 1 .. N : i < j => InOrder(R)[i] < InOrder(R)[j]
  BY <1>1, <1>4
<1> QED
  BY <1>3, <1>5, <1>6, <1>7 DEF S, N

-----------------------------------------------------------------------------
(* Where a message is.                                                      *)

\* A message that was accepted is a row, was heard or is lost; a row, what a
\* conversation heard and what is lost were accepted, and none is two of these.
Entry   == [from : Convs, via : Kinds \cup {"direct"}, to : Names]
MailInv == /\ mail \in Seq(Entry) /\ Len(mail) <= MaxMessages
           /\ queue \subseteq Rows
           /\ inbox \in [Convs -> Seq(Numbers)]
           /\ lost \subseteq 1 .. Len(mail)
RowsInv == /\ \A r \in queue : /\ r.msg \in 1 .. Len(mail) /\ r.msg \notin lost
                               /\ \A c \in Convs : r.msg \notin Heard(c)
           /\ \A r, s \in queue : r.msg = s.msg => r = s
HeardInv == /\ \A c \in Convs : /\ Heard(c) \subseteq 1 .. Len(mail)
                                /\ Heard(c) \cap lost = {}
                                /\ \A d \in Convs : c # d => Heard(c) \cap Heard(d) = {}
            /\ \A c \in Convs : \A i, j \in DOMAIN inbox[c] : inbox[c][i] = inbox[c][j] => i = j
KeptInv == \A m \in 1 .. Len(mail) : m \in lost \/ m \in Ids(queue) \/ \E c \in Convs : m \in Heard(c)
PlaceInv == MailInv /\ RowsInv /\ HeardInv /\ KeptInv

\* What a step does to the messages: rows are dropped, or handed over; a message
\* is accepted and queued, or delivered at once.
DropRows(R) == /\ R \subseteq queue /\ queue' = queue \ R /\ lost' = lost \cup Ids(R)
               /\ UNCHANGED <<mail, inbox>>
TakeRows(R, c) == /\ R \subseteq queue /\ queue' = queue \ R
                  /\ inbox' = [inbox EXCEPT ![c] = @ \o InOrder(R)]
                  /\ UNCHANGED <<mail, lost>>
QueueRow(row, e) == enqueue(row) /\ mail' = Append(mail, e) /\ inbox' = inbox
SendNow(c, e) == /\ inbox' = [inbox EXCEPT ![c] = Append(@, NextId)]
                 /\ mail' = Append(mail, e) /\ UNCHANGED <<queue, lost>>

\* A row is a record of four fields.
LEMMA RowIs ==
  ASSUME NEW m, NEW kind, NEW scope, NEW name
  PROVE  /\ Row(m, kind, scope, name).msg = m /\ Row(m, kind, scope, name).kind = kind
         /\ Row(m, kind, scope, name).scope = scope
         /\ (m \in Numbers /\ kind \in Kinds /\ scope \in Pairs /\ name \in Names
               => Row(m, kind, scope, name) \in Rows)
  BY DEF Row, Rows

\* Unchanged inboxes are heard the same.
LEMMA SameHeard ==
  ASSUME inbox' = inbox
  PROVE  \A c : Heard(c)' = Heard(c)
  BY DEF Heard

\* Rows that are dropped are lost.
LEMMA DropKeeps ==
  ASSUME PlaceInv, NEW R, DropRows(R)
  PROVE  PlaceInv'
<1>1. \A c : Heard(c)' = Heard(c)
  BY SameHeard DEF DropRows
<1>2. Ids(R) \subseteq 1 .. Len(mail) /\ mail' = mail /\ inbox' = inbox
      /\ queue' = queue \ R /\ lost' = lost \cup Ids(R) /\ R \subseteq queue
  BY DEF DropRows, PlaceInv, RowsInv, Ids
<1>3. \A r \in queue' : r.msg \notin Ids(R)
  BY <1>2 DEF PlaceInv, RowsInv, Ids
<1>4. \A c \in Convs : Heard(c) \cap Ids(R) = {}
  BY <1>2 DEF PlaceInv, RowsInv, Ids
<1>5. MailInv'
  BY <1>2 DEF PlaceInv, MailInv
<1>6. RowsInv'
  BY <1>1, <1>2, <1>3 DEF PlaceInv, RowsInv
<1>7. HeardInv'
  BY <1>1, <1>2, <1>4 DEF PlaceInv, HeardInv
<1>8. KeptInv'
  <2>1. Ids(queue) \subseteq Ids(queue)' \cup Ids(R)
    BY <1>2 DEF Ids
  <2> QED
    BY <1>1, <1>2, <2>1 DEF PlaceInv, KeptInv
<1> QED
  BY <1>5, <1>6, <1>7, <1>8 DEF PlaceInv

\* Appending a sequence of new numbers, each named once, to an inbox.
LEMMA HearsMore ==
  ASSUME PlaceInv, NEW c \in Convs, NEW s \in Seq(Numbers),
         inbox' = [inbox EXCEPT ![c] = @ \o s],
         \A i, j \in 1 .. Len(s) : s[i] = s[j] => i = j,
         \A d \in Convs : \A i \in 1 .. Len(s) : s[i] \notin Heard(d)
  PROVE  /\ inbox' \in [Convs -> Seq(Numbers)]
         /\ Heard(c)' = Heard(c) \cup {s[i] : i \in 1 .. Len(s)}
         /\ \A d \in Convs : d # c => Heard(d)' = Heard(d)
         /\ \A d \in Convs : \A i, j \in DOMAIN inbox'[d] : inbox'[d][i] = inbox'[d][j] => i = j
<1> DEFINE old == inbox[c]
           new == inbox'[c]
<1>1. /\ inbox \in [Convs -> Seq(Numbers)] /\ old \in Seq(Numbers) /\ new = old \o s
      /\ \A d \in Convs : d # c => inbox'[d] = inbox[d]
  BY DEF PlaceInv, MailInv
<1>2. inbox' \in [Convs -> Seq(Numbers)]
  <2>1. old \o s \in Seq(Numbers)
    BY <1>1
  <2> HIDE DEF old
  <2> QED
    BY <1>1, <2>1
<1>3. Heard(c) = {old[i] : i \in DOMAIN old} /\ Heard(c)' = {new[i] : i \in DOMAIN new}
  BY DEF Heard
<1>4. \A i, j \in DOMAIN old : old[i] = old[j] => i = j
  BY DEF PlaceInv, HeardInv
<1>5. \A i \in 1 .. Len(s) : s[i] \notin Heard(c)
  OBVIOUS
<1> HIDE DEF old, new
<1>6. /\ Len(old) \in Nat /\ Len(s) \in Nat /\ DOMAIN old = 1 .. Len(old)
      /\ DOMAIN new = 1 .. Len(old) + Len(s)
      /\ \A i \in 1 .. Len(old) : new[i] = old[i]
      /\ \A i \in 1 .. Len(s) : new[Len(old) + i] = s[i]
  BY <1>1
<1>7. \A i \in DOMAIN new : \/ i \in DOMAIN old /\ new[i] = old[i]
                            \/ /\ i - Len(old) \in 1 .. Len(s)
                               /\ new[i] = s[i - Len(old)]
  <2> TAKE i \in DOMAIN new
  <2>1. CASE i <= Len(old)
    BY <1>6, <2>1
  <2>2. CASE ~ (i <= Len(old))
    <3> DEFINE k == i - Len(old)
    <3>1. k \in 1 .. Len(s) /\ i = Len(old) + k
      BY <1>6, <2>2
    <3> QED
      BY <1>6, <3>1
  <2> QED
    BY <2>1, <2>2
<1>8. Heard(c)' = Heard(c) \cup {s[i] : i \in 1 .. Len(s)}
  <2>1. \A i \in DOMAIN old : i \in DOMAIN new /\ new[i] = old[i]
    BY <1>6
  <2>2. \A i \in 1 .. Len(s) : Len(old) + i \in DOMAIN new /\ new[Len(old) + i] = s[i]
    BY <1>6
  <2> QED
    BY <1>3, <1>7, <2>1, <2>2
<1>9. \A i, j \in DOMAIN new : new[i] = new[j] => i = j
  <2> SUFFICES ASSUME NEW i \in DOMAIN new, NEW j \in DOMAIN new, new[i] = new[j]
               PROVE  i = j
    OBVIOUS
  <2>1. CASE i \in DOMAIN old /\ new[i] = old[i] /\ j \in DOMAIN old /\ new[j] = old[j]
    BY <1>4, <2>1
  <2>2. CASE /\ i - Len(old) \in 1 .. Len(s) /\ new[i] = s[i - Len(old)]
             /\ j - Len(old) \in 1 .. Len(s) /\ new[j] = s[j - Len(old)]
    <3>1. i - Len(old) = j - Len(old)
      BY <2>2
    <3> QED
      BY <1>6, <3>1
  <2>3. \A k, l \in DOMAIN new : ~ /\ k \in DOMAIN old /\ new[k] = old[k]
                                   /\ l - Len(old) \in 1 .. Len(s) /\ new[l] = s[l - Len(old)]
                                   /\ new[k] = new[l]
    BY <1>3, <1>5
  <2> QED
    BY <1>7, <2>1, <2>2, <2>3
<1>10. \A d \in Convs : d # c => Heard(d)' = Heard(d)
  BY <1>1 DEF Heard
<1>11. \A d \in Convs : \A i, j \in DOMAIN inbox'[d] : inbox'[d][i] = inbox'[d][j] => i = j
  BY <1>1, <1>9 DEF PlaceInv, HeardInv, new
<1> QED
  BY <1>2, <1>8, <1>10, <1>11

\* The accepted numbers are finitely many.
LEMMA Accepted ==
  ASSUME PlaceInv
  PROVE  Len(mail) \in Nat /\ IsFiniteSet(1 .. Len(mail)) /\ 1 .. Len(mail) \subseteq Numbers
         /\ NextId \in Nat /\ NextId \notin 1 .. Len(mail)
<1>1. Len(mail) \in Nat /\ Len(mail) <= MaxMessages /\ MaxMessages \in Nat
  BY NamesAssumption DEF PlaceInv, MailInv
<1>2. IsFiniteSet(1 .. Len(mail))
  BY <1>1, FS_Interval
<1> QED
  BY <1>1, <1>2 DEF NextId, Numbers

\* Rows that are handed over are heard.
LEMMA TakeKeeps ==
  ASSUME PlaceInv, NEW R, NEW c \in Convs, TakeRows(R, c)
  PROVE  /\ PlaceInv'
         /\ Heard(c)' = Heard(c) \cup Ids(R)
         /\ \A d \in Convs : d # c => Heard(d)' = Heard(d)
<1> DEFINE s == InOrder(R)
<1>1. /\ R \subseteq queue /\ queue' = queue \ R /\ inbox' = [inbox EXCEPT ![c] = @ \o s]
      /\ mail' = mail /\ lost' = lost
  BY DEF TakeRows
<1>2. Ids(R) \subseteq 1 .. Len(mail) /\ Ids(R) \cap lost = {}
      /\ \A d \in Convs : Heard(d) \cap Ids(R) = {}
  BY <1>1 DEF PlaceInv, RowsInv, Ids
<1>3. Ids(R) \in SUBSET Nat /\ IsFiniteSet(Ids(R)) /\ Ids(R) \subseteq Numbers
  <2> HIDE DEF s
  <2>1. Ids(R) \subseteq Numbers /\ IsFiniteSet(Ids(R))
    BY <1>2, Accepted, FS_Subset
  <2> QED
    BY <2>1 DEF Numbers
<1>4. /\ s \in Seq(Ids(R)) /\ \A i, j \in 1 .. Len(s) : s[i] = s[j] => i = j
      /\ \A m \in Ids(R) : \E i \in 1 .. Len(s) : s[i] = m
  BY <1>3, HandsOverOnce
<1> HIDE DEF s
<1>5. s \in Seq(Numbers) /\ \A i \in 1 .. Len(s) : s[i] \in Ids(R)
  BY <1>3, <1>4
<1>6. \A d \in Convs : \A i \in 1 .. Len(s) : s[i] \notin Heard(d)
  BY <1>2, <1>5
<1>7. {s[i] : i \in 1 .. Len(s)} = Ids(R)
  BY <1>4, <1>5
<1>8. /\ inbox' \in [Convs -> Seq(Numbers)]
      /\ Heard(c)' = Heard(c) \cup {s[i] : i \in 1 .. Len(s)}
      /\ \A d \in Convs : d # c => Heard(d)' = Heard(d)
      /\ \A d \in Convs : \A i, j \in DOMAIN inbox'[d] : inbox'[d][i] = inbox'[d][j] => i = j
  BY <1>1, <1>4, <1>5, <1>6, HearsMore
<1>9. Heard(c)' = Heard(c) \cup Ids(R)
  BY <1>7, <1>8
<1>10. MailInv'
  BY <1>1, <1>8 DEF PlaceInv, MailInv
<1>11. RowsInv'
  <2>1. \A r \in queue' : r.msg \notin Ids(R)
    BY <1>1 DEF PlaceInv, RowsInv, Ids
  <2>2. \A r \in queue' : \A d \in Convs : r.msg \notin Heard(d)'
    BY <1>1, <1>8, <1>9, <2>1 DEF PlaceInv, RowsInv
  <2> QED
    BY <1>1, <2>2 DEF PlaceInv, RowsInv
<1>12. HeardInv'
  <2>1. \A d \in Convs : Heard(d)' \subseteq 1 .. Len(mail') /\ Heard(d)' \cap lost' = {}
    BY <1>1, <1>2, <1>8, <1>9 DEF PlaceInv, HeardInv
  <2>2. \A d, e \in Convs : d # e => Heard(d)' \cap Heard(e)' = {}
    <3>1. \A d, e \in Convs : d # e => Heard(d) \cap Heard(e) = {}
      BY DEF PlaceInv, HeardInv
    <3> QED
      BY <1>2, <1>8, <1>9, <3>1
  <2> QED
    BY <1>8, <2>1, <2>2 DEF HeardInv
<1>13. KeptInv'
  <2>1. Ids(queue) \subseteq Ids(queue)' \cup Ids(R)
    BY <1>1 DEF Ids
  <2>2. \A d \in Convs : Heard(d) \subseteq Heard(d)'
    BY <1>8, <1>9
  <2> QED
    BY <1>1, <1>9, <2>1, <2>2 DEF PlaceInv, KeptInv
<1> QED
  BY <1>8, <1>9, <1>10, <1>11, <1>12, <1>13 DEF PlaceInv

\* An accepted message extends the record by one.
LEMMA OneMore ==
  ASSUME PlaceInv, NEW e \in Entry, Len(mail) < MaxMessages, mail' = Append(mail, e)
  PROVE  /\ mail' \in Seq(Entry) /\ Len(mail') <= MaxMessages
         /\ 1 .. Len(mail') = (1 .. Len(mail)) \cup {NextId}
         /\ \A m \in 1 .. Len(mail) : mail'[m] = mail[m]
         /\ mail'[NextId] = e /\ NextId \in Numbers /\ NextId \notin 1 .. Len(mail)
<1>1. mail \in Seq(Entry) /\ Len(mail) \in Nat /\ MaxMessages \in Nat
  BY NamesAssumption DEF PlaceInv, MailInv
<1>2. /\ mail' \in Seq(Entry) /\ Len(mail') = Len(mail) + 1
      /\ \A m \in 1 .. Len(mail) : mail'[m] = mail[m]
      /\ mail'[Len(mail) + 1] = e
  BY <1>1
<1>3. 1 .. Len(mail) + 1 = (1 .. Len(mail)) \cup {Len(mail) + 1}
  BY <1>1
<1> QED
  BY <1>1, <1>2, <1>3 DEF NextId, Numbers

\* The row that makes room is one of its scope's.
LEMMA OldestIn ==
  ASSUME NEW R \in SUBSET Rows, R # {}
  PROVE  Oldest(R) \in R
<1>1. Ids(R) \in SUBSET Nat /\ Ids(R) # {}
  BY DEF Ids, Rows, Numbers
<1>2. PICK n \in Ids(R) : \A m \in Ids(R) : n <= m
  BY <1>1, LeastNumber
<1>3. \E r \in R : \A s \in R : r.msg <= s.msg
  BY <1>2 DEF Ids
<1> QED
  BY <1>3 DEF Oldest

\* What enqueue drops were rows.
LEMMA Evicted ==
  ASSUME PlaceInv, NEW row, enqueue(row)
  PROVE  \E out \in SUBSET queue : /\ queue' = (queue \ out) \cup {row}
                                   /\ lost' = lost \cup Ids(out)
<1> DEFINE full == InScope(row.kind, row.scope)
           out  == IF Cardinality(full) >= MaxQueue THEN {Oldest(full)} ELSE {}
<1>1. queue' = (queue \ out) \cup {row} /\ lost' = lost \cup Ids(out)
  BY DEF enqueue, Ids
<1>2. full \in SUBSET Rows /\ full \subseteq queue
  BY DEF InScope, PlaceInv, MailInv
<1>3. out \subseteq queue
  <2>1. CASE Cardinality(full) >= MaxQueue
    <3>1. full # {}
      BY <2>1, FS_EmptySet, NamesAssumption
    <3> HIDE DEF full
    <3>2. Oldest(full) \in full
      BY <1>2, <3>1, OldestIn
    <3> QED
      BY <1>2, <3>2
  <2>2. CASE ~ (Cardinality(full) >= MaxQueue)
    BY <2>2
  <2> QED
    BY <2>1, <2>2
<1> QED
  BY <1>1, <1>3

\* A message that is queued is a row.
LEMMA QueueKeeps ==
  ASSUME PlaceInv, NEW row \in Rows, row.msg = NextId, NEW e \in Entry,
         Len(mail) < MaxMessages, QueueRow(row, e)
  PROVE  PlaceInv' /\ queue' \subseteq queue \cup {row} /\ \A c : Heard(c)' = Heard(c)
<1>1. PICK out \in SUBSET queue : /\ queue' = (queue \ out) \cup {row}
                                  /\ lost' = lost \cup Ids(out)
  BY Evicted DEF QueueRow
<1>2. mail' = Append(mail, e) /\ inbox' = inbox
  BY DEF QueueRow
<1>3. /\ mail' \in Seq(Entry) /\ Len(mail') <= MaxMessages
      /\ 1 .. Len(mail') = (1 .. Len(mail)) \cup {NextId}
      /\ NextId \in Numbers /\ NextId \notin 1 .. Len(mail)
  BY <1>2, OneMore
<1>4. \A c : Heard(c)' = Heard(c)
  BY <1>2, SameHeard
<1>5. Ids(out) \subseteq 1 .. Len(mail) /\ \A c \in Convs : Heard(c) \cap Ids(out) = {}
  BY DEF PlaceInv, RowsInv, Ids
<1>6. \A r \in queue \ out : r.msg \notin Ids(out)
  BY DEF PlaceInv, RowsInv, Ids
<1>7. MailInv'
  BY <1>1, <1>2, <1>3, <1>5 DEF PlaceInv, MailInv
<1>8. RowsInv'
  <2>1. \A r \in queue : r.msg \in 1 .. Len(mail) /\ r.msg # NextId
    BY <1>3 DEF PlaceInv, RowsInv
  <2>2. \A r, s \in queue' : r.msg = s.msg => r = s
    BY <1>1, <2>1 DEF PlaceInv, RowsInv
  <2>3. \A r \in queue' : r.msg \in 1 .. Len(mail') /\ r.msg \notin lost'
    <3>1. NextId \notin lost'
      BY <1>1, <1>3, <1>5 DEF PlaceInv, MailInv
    <3>2. \A r \in queue \ out : r.msg \in 1 .. Len(mail') /\ r.msg \notin lost'
      BY <1>1, <1>3, <1>6 DEF PlaceInv, RowsInv
    <3> QED
      BY <1>1, <1>3, <3>1, <3>2
  <2>4. \A r \in queue' : \A c \in Convs : r.msg \notin Heard(c)'
    <3>1. \A c \in Convs : NextId \notin Heard(c)'
      BY <1>3, <1>4 DEF PlaceInv, HeardInv
    <3> QED
      BY <1>1, <1>4, <3>1 DEF PlaceInv, RowsInv
  <2> QED
    BY <2>2, <2>3, <2>4 DEF RowsInv
<1>9. HeardInv'
  BY <1>1, <1>2, <1>3, <1>4, <1>5 DEF PlaceInv, HeardInv
<1>10. KeptInv'
  <2>1. NextId \in Ids(queue)' /\ Ids(queue) \subseteq Ids(queue)' \cup Ids(out)
    BY <1>1 DEF Ids
  <2> QED
    BY <1>1, <1>3, <1>4, <2>1 DEF PlaceInv, KeptInv
<1> QED
  BY <1>1, <1>4, <1>7, <1>8, <1>9, <1>10 DEF PlaceInv

\* A message that is delivered at once is a hand-over of one.
LEMMA SendHears ==
  ASSUME PlaceInv, NEW c \in Convs, NEW e \in Entry, Len(mail) < MaxMessages, SendNow(c, e)
  PROVE  inbox' = [inbox EXCEPT ![c] = @ \o <<NextId>>]
<1> DEFINE old == inbox[c]
<1>1. old \in Seq(Numbers)
  BY DEF PlaceInv, MailInv
<1>2. NextId \in Numbers
  BY OneMore DEF SendNow
<1> HIDE DEF old
<1>3. Append(old, NextId) = old \o <<NextId>>
  BY <1>1, <1>2
<1> QED
  BY <1>3 DEF SendNow, old

\* A message that is delivered at once is heard.
LEMMA SendKeeps ==
  ASSUME PlaceInv, NEW c \in Convs, NEW e \in Entry, Len(mail) < MaxMessages, SendNow(c, e)
  PROVE  /\ PlaceInv'
         /\ Heard(c)' = Heard(c) \cup {NextId}
         /\ \A d \in Convs : d # c => Heard(d)' = Heard(d)
<1> DEFINE s == <<NextId>>
<1>1. inbox \in [Convs -> Seq(Numbers)]
  BY DEF PlaceInv, MailInv
<1>2. mail' = Append(mail, e) /\ queue' = queue /\ lost' = lost
  BY DEF SendNow
<1>3. /\ mail' \in Seq(Entry) /\ Len(mail') <= MaxMessages
      /\ 1 .. Len(mail') = (1 .. Len(mail)) \cup {NextId}
      /\ NextId \in Numbers /\ NextId \notin 1 .. Len(mail)
  BY <1>2, OneMore
<1>4. inbox' = [inbox EXCEPT ![c] = @ \o s]
  BY SendHears
<1>5. s \in Seq(Numbers) /\ Len(s) = 1 /\ s[1] = NextId
  BY <1>3
<1> HIDE DEF s
<1>6. /\ \A i \in 1 .. Len(s) : i = 1 /\ s[i] = NextId
      /\ \A i, j \in 1 .. Len(s) : s[i] = s[j] => i = j
  BY <1>5
<1>7. \A d \in Convs : NextId \notin Heard(d)
  BY <1>3 DEF PlaceInv, HeardInv
<1>8. /\ inbox' \in [Convs -> Seq(Numbers)]
      /\ Heard(c)' = Heard(c) \cup {s[i] : i \in 1 .. Len(s)}
      /\ \A d \in Convs : d # c => Heard(d)' = Heard(d)
      /\ \A d \in Convs : \A i, j \in DOMAIN inbox'[d] : inbox'[d][i] = inbox'[d][j] => i = j
  BY <1>4, <1>5, <1>6, <1>7, HearsMore
<1>9. Heard(c)' = Heard(c) \cup {NextId}
  <2>1. {s[i] : i \in 1 .. Len(s)} = {NextId}
    <3>1. 1 \in 1 .. Len(s)
      BY <1>5
    <3> QED
      BY <1>6, <3>1
  <2> QED
    BY <1>8, <2>1
<1>10. NextId \notin lost /\ \A r \in queue : r.msg # NextId
  BY <1>3 DEF PlaceInv, MailInv, RowsInv
<1>11. MailInv'
  BY <1>2, <1>3, <1>8 DEF PlaceInv, MailInv
<1>12. RowsInv'
  <2>1. \A r \in queue' : \A d \in Convs : r.msg \notin Heard(d)'
    BY <1>2, <1>8, <1>9, <1>10 DEF PlaceInv, RowsInv
  <2> QED
    BY <1>2, <1>3, <2>1 DEF PlaceInv, RowsInv
<1>13. HeardInv'
  <2>1. \A d \in Convs : Heard(d)' \subseteq 1 .. Len(mail') /\ Heard(d)' \cap lost' = {}
    BY <1>2, <1>3, <1>8, <1>9, <1>10 DEF PlaceInv, HeardInv
  <2>2. \A d, f \in Convs : d # f => Heard(d)' \cap Heard(f)' = {}
    <3>1. \A d, f \in Convs : d # f => Heard(d) \cap Heard(f) = {}
      BY DEF PlaceInv, HeardInv
    <3> QED
      BY <1>7, <1>8, <1>9, <3>1
  <2> QED
    BY <1>8, <2>1, <2>2 DEF HeardInv
<1>14. KeptInv'
  <2>1. \A d \in Convs : Heard(d) \subseteq Heard(d)'
    BY <1>8, <1>9
  <2>2. Ids(queue)' = Ids(queue)
    BY <1>2
  <2> QED
    BY <1>2, <1>3, <1>9, <2>1, <2>2 DEF PlaceInv, KeptInv
<1> QED
  BY <1>8, <1>9, <1>11, <1>12, <1>13, <1>14 DEF PlaceInv

\* A row is of the kind its message was accepted by; a pending one waits for the
\* pair of projects of its sender and its target.
Fits(r, e) == r.kind = e.via /\ (r.kind = "pending" => e.to \in Convs /\ r.scope = PairOf(e.from, e.to))
KindInv == \A r \in queue : Fits(r, mail[r.msg])

\* What may be handed to c: rows of its own project's queue, or those of a pair
\* that is linked, or across which c has a grant, once they are handed over.
Allowed(R, c) == \/ \A r \in R : r.kind = "offline"
                 \/ \E a \in Convs : /\ \A r \in R : r.scope = PairOf(a, c)
                                     /\ PairOf(a, c) \in links' \/ {c, a} \in grants'

\* A drain takes all rows there are for c, or all those of a pair.
Whole(R, c) == R = dequeueFor(c) \/ \E a \in Convs : R = drainProjectMessages(a, c)

\* The steps of the router, as the messages see them.
Moves ==
  \/ UNCHANGED messages
  \/ \E R : DropRows(R)
  \/ \E c \in Convs : \E R : TakeRows(R, c) /\ Allowed(R, c) /\ Whole(R, c)
  \/ /\ Len(mail) < MaxMessages
     /\ \/ \E row \in Rows, e \in Entry : row.msg = NextId /\ Fits(row, e) /\ QueueRow(row, e)
        \/ \E c \in Convs, e \in Entry : e.via = "direct" /\ SendNow(c, e)

\* Nobody is sent a pair's pending rows before its consent.
LEMMA HandOverMoves ==
  ASSUME NEW a \in Convs, NEW c \in Convs, HandOver(drainProjectMessages(a, c), c), mail' = mail,
         PairOf(a, c) \in links' \/ {c, a} \in grants'
  PROVE  Moves
<1> DEFINE R == drainProjectMessages(a, c)
<1>1. R \subseteq queue /\ \A r \in R : r.scope = PairOf(a, c)
  BY DEF drainProjectMessages, InScope
<1>2. CASE sock[c] # "off"
  <2>1. TakeRows(R, c)
    BY <1>1, <1>2 DEF HandOver, TakeRows
  <2>2. Allowed(R, c) /\ Whole(R, c)
    BY <1>1 DEF Allowed, Whole
  <2> QED
    BY <2>1, <2>2 DEF Moves
<1>3. CASE sock[c] = "off"
  <2>1. DropRows(R)
    BY <1>1, <1>3 DEF HandOver, DropRows, Ids
  <2> QED
    BY <2>1 DEF Moves
<1> QED
  BY <1>2, <1>3

\* A record of the mail.
LEMMA EntryIs ==
  ASSUME NEW a \in Convs, NEW via \in Kinds \cup {"direct"}, NEW c \in Names
  PROVE  LET e == [from |-> a, via |-> via, to |-> c]
         IN  e \in Entry /\ e.from = a /\ e.via = via /\ e.to = c
  BY DEF Entry

\* A send to one target.
LEMMA SendMoves ==
  ASSUME jobs \subseteq Convs, PlaceInv, NEW a \in Convs, NEW q \in Projects,
         NEW n \in Convs \cup {NoName}, deliverToOne(a, q, n)
  PROVE  Moves
<1>1. /\ Len(mail) < MaxMessages /\ NextId \in Numbers
  <2>1. Len(mail) \in Nat /\ MaxMessages \in Nat /\ Len(mail) < MaxMessages
    BY NamesAssumption DEF deliverToOne, PlaceInv, MailInv
  <2> QED
    BY <2>1 DEF NextId, Numbers
<1>2. n \in Names /\ {q} \in Pairs /\ \A c \in Convs : c \in Names
  <2>1. {q} = {q, q}
    OBVIOUS
  <2> QED
    BY <2>1 DEF Names, Pairs
<1>3. CASE QueueOffline(a, q, n)
  <2> DEFINE e == [from |-> a, via |-> "offline", to |-> n]
  <2>1. PICK name \in findPendingSpawnTarget(a, q, n) : enqueue(Row(NextId, "offline", {q}, name))
    BY <1>3 DEF QueueOffline
  <2> DEFINE row == Row(NextId, "offline", {q}, name)
  <2>2. name \in Names
    BY <1>2, <2>1 DEF findPendingSpawnTarget, Names
  <2>3. row \in Rows /\ row.msg = NextId /\ row.kind = "offline"
    BY <1>1, <1>2, <2>2, RowIs DEF Kinds
  <2>4. e \in Entry /\ e.via = "offline"
    BY <1>2, EntryIs DEF Kinds
  <2>5. QueueRow(row, e)
    BY <1>3, <2>1 DEF QueueOffline, QueueRow, Accept
  <2> HIDE DEF row, e
  <2>6. Fits(row, e)
    BY <2>3, <2>4 DEF Fits
  <2> QED
    BY <1>1, <2>3, <2>4, <2>5, <2>6 DEF Moves
<1>4. CASE Refuse(a, q, n)
  BY <1>4 DEF Refuse, Moves
<1>5. ASSUME NEW c \in Convs, DeliverNow(a, q, c) PROVE Moves
  <2> DEFINE e == [from |-> a, via |-> "direct", to |-> c]
  <2>1. e \in Entry /\ e.via = "direct"
    BY <1>2, EntryIs
  <2>2. UNCHANGED messages \/ SendNow(c, e)
    BY <1>5 DEF DeliverNow, SendNow, Accept
  <2> HIDE DEF e
  <2> QED
    BY <1>1, <2>1, <2>2 DEF Moves
<1>6. ASSUME NEW c \in Convs, QueuePending(a, q, c) PROVE Moves
  <2> DEFINE e == [from |-> a, via |-> "pending", to |-> c]
             row == Row(NextId, "pending", PairOf(a, c), NoName)
  <2>1. PairOf(a, c) \in Pairs /\ NoName \in Names
    BY NamesAssumption DEF PairOf, Pairs, Names
  <2>2. row \in Rows /\ row.msg = NextId /\ row.kind = "pending" /\ row.scope = PairOf(a, c)
    BY <1>1, <2>1, RowIs DEF Kinds
  <2>3. e \in Entry /\ e.via = "pending" /\ e.from = a /\ e.to = c
    BY <1>2, EntryIs DEF Kinds
  <2>4. QueueRow(row, e)
    BY <1>6 DEF QueuePending, QueueRow, Accept
  <2> HIDE DEF row, e
  <2>5. Fits(row, e)
    BY <2>2, <2>3 DEF Fits
  <2> QED
    BY <1>1, <2>2, <2>3, <2>4, <2>5 DEF Moves
<1> QED
  BY <1>3, <1>4, <1>5, <1>6 DEF deliverToOne

\* Every step is one of these.
LEMMA EveryMove ==
  ASSUME jobs \subseteq Convs, PlaceInv, Next
  PROVE  Moves
<1>1. CASE \E a \in Senders, q \in Projects, n \in Convs \cup {NoName} : deliverToOne(a, q, n)
  BY <1>1, SendMoves, NamesAssumption
<1>2. ASSUME NEW c \in Convs, meta(c) PROVE Moves
  <2>1. dequeueFor(c) \subseteq queue /\ \A r \in dequeueFor(c) : r.kind = "offline"
    BY DEF dequeueFor, InScope
  <2>2. TakeRows(dequeueFor(c), c)
    BY <1>2, <2>1 DEF meta, Connects, TakeRows
  <2>3. Allowed(dequeueFor(c), c) /\ Whole(dequeueFor(c), c)
    BY <2>1 DEF Allowed, Whole
  <2> QED
    BY <2>2, <2>3 DEF Moves
<1>3. CASE \E c \in Convs : \/ Spawn(c) \/ JobFails(c) \/ agentHostBoot(c)
                            \/ Disconnect(c) \/ removeConversation(c)
  BY <1>3 DEF Spawn, JobFails, agentHostBoot, Disconnect, removeConversation, Moves
<1>4. ASSUME NEW a \in Convs, NEW c \in Convs, approveProjectLink(a, c) PROVE Moves
  <2>1. PairOf(a, c) \in links' /\ mail' = mail /\ HandOver(drainProjectMessages(a, c), c)
    BY <1>4 DEF approveProjectLink, linkProjects
  <2> QED
    BY <2>1, HandOverMoves
<1>5. ASSUME NEW a \in Convs, NEW c \in Convs, blockProjectLink(a, c) PROVE Moves
  <2>1. DropRows(drainProjectMessages(a, c))
    BY <1>5 DEF blockProjectLink, DropRows, Ids, drainProjectMessages, InScope
  <2> QED
    BY <2>1 DEF Moves
<1>6. ASSUME NEW a \in Convs, NEW c \in Convs, channelLinkGrant(a, c) PROVE Moves
  <2>1. {a, c} \in grants' /\ mail' = mail /\ HandOver(drainProjectMessages(a, c), c)
    BY <1>6 DEF channelLinkGrant
  <2>2. {a, c} = {c, a}
    OBVIOUS
  <2> QED
    BY <2>1, <2>2, HandOverMoves
<1>7. CASE \E a, c \in Convs : unlinkConversations(a, c)
  BY <1>7 DEF unlinkConversations, Moves
<1>8. CASE \/ \E p, q \in Projects : unlinkProjects(p, q) \/ AdminLink(p, q)
           \/ \E p \in Projects : clearLinksForProject(p)
           \/ \E s \in Pairs : CoolsOff(s)
           \/ Restart
  BY <1>8 DEF unlinkProjects, AdminLink, clearLinksForProject, CoolsOff, Restart, Moves
<1>9. CASE Expires
  <2>1. Oldest(queue) \in queue
    BY <1>9, OldestIn DEF Expires, PlaceInv, MailInv
  <2>2. DropRows({Oldest(queue)})
    BY <1>9, <2>1 DEF Expires, DropRows, Ids
  <2> QED
    BY <2>2 DEF Moves
<1> QED
  BY <1>1, <1>2, <1>3, <1>4, <1>5, <1>6, <1>7, <1>8, <1>9 DEF Next

\* A message is where it is, and a row what it is, after every move.
LEMMA MovesKeep ==
  ASSUME PlaceInv, KindInv, Moves
  PROVE  PlaceInv' /\ KindInv'
<1>1. CASE UNCHANGED messages
  <2>1. \A c : Heard(c)' = Heard(c)
    BY <1>1, SameHeard DEF messages
  <2> QED
    BY <1>1, <2>1 DEF messages, PlaceInv, MailInv, RowsInv, HeardInv, KeptInv, Ids, KindInv
<1>2. ASSUME NEW R, DropRows(R) PROVE PlaceInv' /\ KindInv'
  BY <1>2, DropKeeps DEF KindInv, DropRows
<1>3. ASSUME NEW c \in Convs, NEW R, TakeRows(R, c) PROVE PlaceInv' /\ KindInv'
  BY <1>3, TakeKeeps DEF KindInv, TakeRows
<1>4. ASSUME NEW row \in Rows, NEW e \in Entry, row.msg = NextId, Fits(row, e), QueueRow(row, e),
             Len(mail) < MaxMessages
      PROVE  PlaceInv' /\ KindInv'
  <2>1. PlaceInv' /\ queue' \subseteq queue \cup {row}
    BY <1>4, QueueKeeps
  <2>2. mail'[NextId] = e /\ \A m \in 1 .. Len(mail) : mail'[m] = mail[m]
    BY <1>4, OneMore DEF QueueRow
  <2>3. \A r \in queue : mail'[r.msg] = mail[r.msg]
    BY <2>2 DEF PlaceInv, RowsInv
  <2> QED
    BY <1>4, <2>1, <2>2, <2>3 DEF KindInv, Fits, PairOf
<1>5. ASSUME NEW c \in Convs, NEW e \in Entry, SendNow(c, e), Len(mail) < MaxMessages
      PROVE  PlaceInv' /\ KindInv'
  <2>1. PlaceInv' /\ queue' = queue
    BY <1>5, SendKeeps DEF SendNow
  <2>2. \A m \in 1 .. Len(mail) : mail'[m] = mail[m]
    BY <1>5, OneMore DEF SendNow
  <2>3. \A r \in queue : mail'[r.msg] = mail[r.msg]
    BY <2>2 DEF PlaceInv, RowsInv
  <2> QED
    BY <2>1, <2>3 DEF KindInv, Fits, PairOf
<1> QED
  BY <1>1, <1>2, <1>3, <1>4, <1>5 DEF Moves

-----------------------------------------------------------------------------
(* The other variables.                                                     *)

SideInv ==
  /\ book \subseteq Projects \X Projects
  /\ {links, blocks, stored} \subseteq SUBSET Pairs
  /\ {grants, storedGrants} \subseteq SUBSET ConvPairs
  /\ {decisions, events} \subseteq Nat

\* A pair is a pair.
LEMMA PairsAre ==
  /\ \A a, c \in Convs : PairOf(a, c) \in Pairs /\ {a, c} \in ConvPairs
                         /\ <<Project[a], Project[c]>> \in Projects \X Projects
  /\ \A p, q \in Projects : {p, q} \in Pairs /\ <<p, q>> \in Projects \X Projects
  BY NamesAssumption DEF PairOf, Pairs, ConvPairs

\* A link that is made is a pair.
LEMMA LinksTyped ==
  ASSUME SideInv, NEW S \in SUBSET Pairs, linkProjects(S)
  PROVE  links' \subseteq Pairs /\ blocks' \subseteq Pairs
  BY DEF SideInv, linkProjects

\* A send notes addresses and caches links; both are of known names.
LEMMA SendSide ==
  ASSUME LiveKnown, SideInv, NEW a \in Convs, NEW q \in Projects, NEW n \in Convs \cup {NoName},
         deliverToOne(a, q, n)
  PROVE  SideInv'
<1>1. UNCHANGED <<decisions, events>>
  BY DEF deliverToOne
<1>2. BookAfterScan(a, q) \subseteq Projects \X Projects
  <2>1. book \subseteq Projects \X Projects /\ known \subseteq Convs
    BY DEF LiveKnown, SideInv
  <2>2. {<<Project[a], Project[c]>> : c \in known \ {a}} \subseteq Projects \X Projects
    BY <2>1, PairsAre
  <2> QED
    BY <2>1, <2>2 DEF BookAfterScan
<1>3. \A c \in Convs : <<Project[c], Project[a]>> \in Projects \X Projects
                       /\ <<q, Project[a]>> \in Projects \X Projects
  BY PairsAre, NamesAssumption
<1>4. CASE QueueOffline(a, q, n)
  <2>1. book' = BookAfterScan(a, q) \cup {<<q, Project[a]>>} /\ UNCHANGED consent
    BY <1>4 DEF QueueOffline
  <2>2. <<q, Project[a]>> \in Projects \X Projects
    BY NamesAssumption
  <2> QED
    BY <1>1, <1>2, <2>1, <2>2 DEF SideInv, consent
<1>5. CASE Refuse(a, q, n)
  BY <1>1, <1>2, <1>5 DEF Refuse, SideInv, consent
<1>6. ASSUME NEW c \in Convs, Resolved(a, q, c) PROVE SideInv'
  <2>1. book' \subseteq Projects \X Projects
    BY <1>2, <1>3, <1>6 DEF Resolved
  <2>2. CacheLink(a, c)
    BY <1>6 DEF Resolved
  <2>3. links' \subseteq Pairs /\ blocks' \subseteq Pairs
    <3>1. CASE linkProjects({PairOf(a, c)})
      BY <3>1, PairsAre, LinksTyped
    <3>2. CASE UNCHANGED <<links, blocks>>
      BY <3>2 DEF SideInv
    <3> QED
      BY <2>2, <3>1, <3>2 DEF CacheLink
  <2>4. grants' \subseteq ConvPairs /\ UNCHANGED <<stored, storedGrants>>
    <3>1. grants' = grants \/ grants' = grants \cup {{a, c}}
      BY <2>2 DEF CacheLink
    <3> QED
      BY <2>2, <3>1, PairsAre DEF CacheLink, SideInv
  <2> QED
    BY <1>1, <2>1, <2>3, <2>4 DEF SideInv
<1> QED
  BY <1>4, <1>5, <1>6 DEF deliverToOne, DeliverNow, QueuePending

\* An event or a decision is counted.
LEMMA Counted ==
  ASSUME SideInv
  PROVE  /\ Event => events' \in Nat
         /\ Decide => decisions' \in Nat
<1>1. events \in Nat /\ decisions \in Nat
  BY DEF SideInv
<1> QED
  BY <1>1 DEF Event, Decide

\* Every step keeps the other variables well-formed.
LEMMA SideStep ==
  ASSUME LiveKnown, SideInv, [Next]_vars
  PROVE  SideInv'
<1>1. CASE UNCHANGED vars
  BY <1>1 DEF vars, consent, SideInv
<1>2. CASE \E a \in Senders, q \in Projects, n \in Convs \cup {NoName} : deliverToOne(a, q, n)
  BY <1>2, SendSide, NamesAssumption
<1>3. ASSUME NEW c \in Convs, meta(c) PROVE SideInv'
  <2>1. linkProjects({PairOf(c, d) : d \in {e \in Live(known) \ {c} : PairOf(c, e) \in stored}})
        /\ UNCHANGED <<book, stored, grants, storedGrants, decisions, events>>
    BY <1>3 DEF meta, Connects
  <2>2. {PairOf(c, d) : d \in {e \in Live(known) \ {c} : PairOf(c, e) \in stored}} \subseteq Pairs
    BY DEF SideInv
  <2>3. links' \subseteq Pairs /\ blocks' \subseteq Pairs
    BY <2>1, <2>2, LinksTyped
  <2> QED
    BY <2>1, <2>3 DEF SideInv
<1>4. CASE \E c \in Convs : JobFails(c) \/ agentHostBoot(c) \/ removeConversation(c)
  BY <1>4 DEF JobFails, agentHostBoot, removeConversation, consent, SideInv
<1>5. CASE \E c \in Convs : Spawn(c) \/ Disconnect(c)
  BY <1>5, Counted DEF Spawn, Disconnect, consent, SideInv
<1>6. ASSUME NEW a \in Convs, NEW c \in Convs, approveProjectLink(a, c) PROVE SideInv'
  <2>1. links' \subseteq Pairs /\ blocks' \subseteq Pairs
    BY <1>6, PairsAre, LinksTyped DEF approveProjectLink
  <2>2. stored' \subseteq Pairs /\ decisions' \in Nat /\ UNCHANGED <<book, grants, storedGrants, events>>
    BY <1>6, PairsAre, Counted DEF approveProjectLink, SideInv
  <2> QED
    BY <2>1, <2>2 DEF SideInv
<1>7. ASSUME NEW a \in Convs, NEW c \in Convs, blockProjectLink(a, c) PROVE SideInv'
  <2>1. UNCHANGED <<book, grants, storedGrants, decisions, events>>
    BY <1>7 DEF blockProjectLink
  <2>2. links' \subseteq Pairs /\ blocks' \subseteq Pairs /\ stored' \subseteq Pairs
    BY <1>7, PairsAre DEF blockProjectLink, SideInv
  <2> QED
    BY <2>1, <2>2 DEF SideInv
<1>8. ASSUME NEW a \in Convs, NEW c \in Convs, channelLinkGrant(a, c) PROVE SideInv'
  <2>1. decisions' \in Nat /\ UNCHANGED <<book, links, blocks, stored, events>>
    BY <1>8, Counted DEF channelLinkGrant
  <2>2. grants' \subseteq ConvPairs /\ storedGrants' \subseteq ConvPairs
    BY <1>8, PairsAre DEF channelLinkGrant, SideInv
  <2> QED
    BY <2>1, <2>2 DEF SideInv
<1>9. ASSUME NEW a \in Convs, NEW c \in Convs, unlinkConversations(a, c) PROVE SideInv'
  <2>1. UNCHANGED <<book, links, blocks, stored, decisions, events>>
    BY <1>9 DEF unlinkConversations
  <2>2. grants' \subseteq grants /\ storedGrants' \subseteq storedGrants
    BY <1>9 DEF unlinkConversations
  <2> QED
    BY <2>1, <2>2 DEF SideInv
<1>10. ASSUME NEW p \in Projects, NEW q \in Projects, unlinkProjects(p, q) \/ clearLinksForProject(p)
       PROVE  SideInv'
  <2>1. UNCHANGED <<book, blocks, grants, storedGrants, decisions, events>>
    BY <1>10 DEF unlinkProjects, clearLinksForProject
  <2>2. links' \subseteq links /\ stored' \subseteq stored
    BY <1>10 DEF unlinkProjects, clearLinksForProject
  <2> QED
    BY <2>1, <2>2 DEF SideInv
<1>11. ASSUME NEW p \in Projects, NEW q \in Projects, AdminLink(p, q) PROVE SideInv'
  <2>1. links' \subseteq Pairs /\ blocks' \subseteq Pairs
    BY <1>11, PairsAre, LinksTyped DEF AdminLink
  <2>2. stored' \subseteq Pairs /\ decisions' \in Nat /\ UNCHANGED <<book, grants, storedGrants, events>>
    BY <1>11, PairsAre, Counted DEF AdminLink, SideInv
  <2> QED
    BY <2>1, <2>2 DEF SideInv
<1>12. CASE \E s \in Pairs : CoolsOff(s)
  BY <1>12 DEF CoolsOff, SideInv
<1>13. CASE Expires
  BY <1>13, Counted DEF Expires, consent, SideInv
<1>14. CASE Restart
  BY <1>14, Counted DEF Restart, SideInv
<1> QED
  BY <1>1, <1>2, <1>3, <1>4, <1>5, <1>6, <1>7, <1>8, <1>9, <1>10, <1>11, <1>12, <1>13, <1>14 DEF Next

-----------------------------------------------------------------------------
\* What the theorems about messages and types start from.
FullInv == IInv /\ SideInv /\ PlaceInv /\ KindInv

\* It holds at first
LEMMA FullInit == ASSUME Init PROVE FullInv
<1>1. IInv
  BY DEF Init, IInv, LiveKnown, NothingWaitsBehindLive, Waiting, InScope
<1>2. SideInv
  BY DEF Init, SideInv
<1>3. \A c \in Convs : inbox[c] = <<>> /\ Heard(c) = {}
  BY DEF Init, Heard
<1>4. mail = <<>> /\ Len(mail) = 0 /\ 1 .. Len(mail) = {} /\ queue = {} /\ lost = {}
  BY DEF Init
<1>5. MailInv
  <2>1. inbox \in [Convs -> Seq(Numbers)]
    BY <1>3 DEF Init
  <2> QED
    BY <1>4, <2>1, NamesAssumption DEF MailInv
<1> QED
  BY <1>1, <1>2, <1>3, <1>4, <1>5 DEF FullInv, PlaceInv, RowsInv, HeardInv, KeptInv, KindInv

\* and after every step.
LEMMA FullStep == ASSUME FullInv, [Next]_vars PROVE FullInv'
<1>1. IInv' /\ SideInv'
  BY WaitingStep, SideStep DEF FullInv, IInv
<1>2. CASE Next
  <2>1. Moves
    BY <1>2, EveryMove DEF FullInv, IInv, LiveKnown
  <2> QED
    BY <1>1, <2>1, MovesKeep DEF FullInv
<1>3. CASE UNCHANGED vars
  <2>1. Moves
    BY <1>3 DEF Moves, vars
  <2> QED
    BY <1>1, <2>1, MovesKeep DEF FullInv
<1> QED
  BY <1>2, <1>3

\* In every reachable state everything is well-formed, in particular every
\* queued, delivered or dropped number is one that was given out, and no pair of
\* projects is both linked and refused (project-links.ts).
THEOREM RouterTyped == Spec => []TypeOK
<1>1. Init => FullInv /\ RefusedIsForgotten
  BY FullInit DEF Init, RefusedIsForgotten
<1>2. FullInv /\ RefusedIsForgotten /\ [Next]_vars => FullInv' /\ RefusedIsForgotten'
  BY FullStep, ForgottenStep
<1>3. FullInv /\ RefusedIsForgotten => TypeOK
  <2> SUFFICES ASSUME FullInv, RefusedIsForgotten PROVE TypeOK
    OBVIOUS
  <2>1. /\ known \subseteq Convs /\ jobs \subseteq Convs
        /\ sock \in [Convs -> {"off", "boot", "up"}]
    BY DEF FullInv, IInv, LiveKnown
  <2>2. /\ book \subseteq Projects \X Projects
        /\ {links, blocks, stored} \subseteq SUBSET Pairs
        /\ {grants, storedGrants} \subseteq SUBSET ConvPairs
        /\ {decisions, events} \subseteq Nat
    BY DEF FullInv, SideInv
  <2>3. /\ queue \subseteq Rows /\ inbox \in [Convs -> Seq(Numbers)]
        /\ mail \in Seq([from : Convs, via : Kinds \cup {"direct"}, to : Names])
    BY DEF FullInv, PlaceInv, MailInv, Entry
  <2>4. lost \subseteq Numbers
    BY Accepted DEF FullInv, PlaceInv, MailInv
  <2>5. links \cap blocks = {}
    BY DEF RefusedIsForgotten
  <2> QED
    BY <2>1, <2>2, <2>3, <2>4, <2>5 DEF TypeOK
<1> QED
  BY <1>1, <1>2, <1>3, PTL DEF Spec

\* In every reachable state an accepted message is in exactly one place: it is a
\* row, or one conversation was sent it once, or it was dropped; whatever drains,
\* expires, overflows or is refused (store/sqlite/messages.ts).
THEOREM MessagesConserved == Spec => []Conserved
<1>1. FullInv => Conserved
  <2> SUFFICES ASSUME PlaceInv, NEW m \in 1 .. Len(mail)
               PROVE  LET rows   == {<<"row", r>> : r \in {s \in queue : s.msg = m}}
                          copies == UNION {{<<c, i>> : i \in {k \in DOMAIN inbox[c] : inbox[c][k] = m}} :
                                             c \in Convs}
                      IN Cardinality(rows) + Cardinality(copies) + Cardinality({m} \cap lost) = 1
    BY DEF FullInv, Conserved
  <2> DEFINE rows   == {<<"row", r>> : r \in {s \in queue : s.msg = m}}
             copies == UNION {{<<c, i>> : i \in {k \in DOMAIN inbox[c] : inbox[c][k] = m}} :
                                c \in Convs}
             drops  == {m} \cap lost
  <2>1. m \in Ids(queue) => rows # {} /\ \E x : rows = {x}
    <3> SUFFICES ASSUME m \in Ids(queue) PROVE \E x : rows = {x}
      OBVIOUS
    <3>1. PICK r \in queue : r.msg = m
      BY DEF Ids
    <3>2. {s \in queue : s.msg = m} = {r}
      BY <3>1 DEF PlaceInv, RowsInv
    <3>3. rows = {<<"row", r>>}
      BY <3>2
    <3> QED
      BY <3>3
  <2>2. m \notin Ids(queue) => rows = {}
    BY DEF Ids
  <2>3. ASSUME NEW c \in Convs, m \in Heard(c) PROVE \E x : copies = {x}
    <3>1. PICK i \in DOMAIN inbox[c] : inbox[c][i] = m
      BY <2>3 DEF Heard
    <3>2. \A d \in Convs : \A j \in DOMAIN inbox[d] : inbox[d][j] = m => d = c /\ j = i
      <4> SUFFICES ASSUME NEW d \in Convs, NEW j \in DOMAIN inbox[d], inbox[d][j] = m
                   PROVE  d = c /\ j = i
        OBVIOUS
      <4>1. m \in Heard(d)
        BY DEF Heard
      <4>2. d = c
        BY <2>3, <4>1 DEF PlaceInv, HeardInv
      <4> QED
        BY <3>1, <4>2 DEF PlaceInv, HeardInv
    <3>3. <<c, i>> \in copies
      BY <3>1
    <3>4. ASSUME NEW x \in copies PROVE x = <<c, i>>
      <4>1. PICK d \in Convs : x \in {<<d, j>> : j \in {k \in DOMAIN inbox[d] : inbox[d][k] = m}}
        BY Zenon
      <4>2. PICK j \in DOMAIN inbox[d] : inbox[d][j] = m /\ x = <<d, j>>
        BY <4>1
      <4> QED
        BY <3>2, <4>2
    <3> HIDE DEF copies
    <3>5. copies = {<<c, i>>}
      BY <3>3, <3>4
    <3> QED
      BY <3>5
  <2>4. (\A c \in Convs : m \notin Heard(c)) => copies = {}
    BY Zenon DEF Heard
  <2>5. /\ m \in Ids(queue) => m \notin lost /\ \A c \in Convs : m \notin Heard(c)
        /\ \A c \in Convs : m \in Heard(c) => m \notin lost
        /\ m \in lost \/ m \in Ids(queue) \/ \E c \in Convs : m \in Heard(c)
    BY DEF PlaceInv, RowsInv, HeardInv, KeptInv, Ids
  <2>6. m \in lost => drops = {m}
    OBVIOUS
  <2>7. m \notin lost => drops = {}
    OBVIOUS
  <2> HIDE DEF rows, copies, drops
  <2>8. Cardinality({}) = 0 /\ \A x : Cardinality({x}) = 1
    BY FS_EmptySet, FS_Singleton
  <2>9. Cardinality(rows) + Cardinality(copies) + Cardinality(drops) = 1
    <3>1. CASE m \in lost
      <4>1. rows = {} /\ copies = {} /\ drops = {m}
        BY <2>2, <2>4, <2>5, <2>6, <3>1
      <4>2. Cardinality(rows) = 0 /\ Cardinality(copies) = 0 /\ Cardinality(drops) = 1
        BY <2>8, <4>1, Zenon
      <4> QED
        BY <4>2
    <3>2. CASE m \in Ids(queue)
      <4>1. copies = {} /\ drops = {}
        BY <2>4, <2>5, <2>7, <3>2
      <4>2. PICK x : rows = {x}
        BY <2>1, <3>2
      <4>3. Cardinality(rows) = 1 /\ Cardinality(copies) = 0 /\ Cardinality(drops) = 0
        BY <2>8, <4>1, <4>2, Zenon
      <4> QED
        BY <4>3
    <3>3. ASSUME NEW c \in Convs, m \in Heard(c)
          PROVE  Cardinality(rows) + Cardinality(copies) + Cardinality(drops) = 1
      <4>1. rows = {} /\ drops = {}
        BY <2>2, <2>5, <2>7, <3>3
      <4>2. PICK x : copies = {x}
        BY <2>3, <3>3
      <4>3. Cardinality(rows) = 0 /\ Cardinality(copies) = 1 /\ Cardinality(drops) = 0
        BY <2>8, <4>1, <4>2, Zenon
      <4> QED
        BY <4>3
    <3> QED
      BY <2>5, <3>1, <3>2, <3>3
  <2> QED
    BY <2>9 DEF rows, copies, drops
<1> QED
  BY <1>1, FullInit, FullStep, PTL DEF Spec

\* A first-contact message reaches a conversation only in a step after which its
\* pair of projects is linked, or the conversation has a grant across the pair:
\* rows that wait for consent are in no other drain (message-queue.ts).
THEOREM ConsentComesFirst == Spec => PendingNeedsConsent
<1> DEFINE Linked(m, c) ==
      LET pair == PairOf(mail'[m].from, mail'[m].to) IN
      \/ pair \in links'
      \/ \E d \in Convs : {c, d} \in grants' /\ PairOf(c, d) = pair
           Step == \A c \in Convs : \A m \in Heard(c)' \ Heard(c) :
                     mail'[m].via = "pending" => Linked(m, c)
<1>1. ASSUME FullInv, Next PROVE Step
  <2>1. Moves
    BY <1>1, EveryMove DEF FullInv, IInv, LiveKnown
  <2> SUFFICES ASSUME NEW c \in Convs, NEW m \in Heard(c)' \ Heard(c), mail'[m].via = "pending"
               PROVE  Linked(m, c)
    OBVIOUS
  <2>2. CASE UNCHANGED messages \/ (\E R : DropRows(R))
    BY <2>2, SameHeard DEF messages, DropRows
  <2>3. ASSUME NEW b \in Convs, NEW R, TakeRows(R, b), Allowed(R, b) PROVE Linked(m, c)
    <3>1. b = c /\ m \in Ids(R) /\ mail' = mail
      BY <1>1, <2>3, TakeKeeps DEF FullInv, TakeRows
    <3>2. PICK r \in R : r.msg = m
      BY <3>1 DEF Ids
    <3>3. r.kind = "pending" /\ r.scope = PairOf(mail[m].from, mail[m].to)
      BY <1>1, <2>3, <3>1, <3>2 DEF FullInv, KindInv, Fits, TakeRows
    <3>4. PICK a \in Convs : /\ r.scope = PairOf(a, c)
                             /\ PairOf(a, c) \in links' \/ {c, a} \in grants'
      BY <2>3, <3>1, <3>2, <3>3 DEF Allowed
    <3>5. PairOf(mail'[m].from, mail'[m].to) = PairOf(a, c)
      BY <3>1, <3>3, <3>4
    <3>6. PairOf(c, a) = PairOf(a, c)
      BY DEF PairOf
    <3> QED
      BY <3>4, <3>5, <3>6
  <2>4. CASE \E row \in Rows, e \in Entry : QueueRow(row, e)
    BY <2>4, SameHeard DEF QueueRow
  <2>5. ASSUME NEW b \in Convs, NEW e \in Entry, e.via = "direct", SendNow(b, e), Len(mail) < MaxMessages
        PROVE  FALSE
    <3>1. m = NextId
      BY <1>1, <2>5, SendKeeps DEF FullInv
    <3>2. mail'[NextId] = e
      BY <1>1, <2>5, OneMore DEF FullInv, SendNow
    <3> QED
      BY <2>5, <3>1, <3>2
  <2> QED
    BY <2>1, <2>2, <2>3, <2>4, <2>5 DEF Moves
<1> HIDE DEF Step
<1>2. FullInv /\ [Next]_vars => [Step]_vars
  BY <1>1
<1>3. PendingNeedsConsent <=> [][Step]_vars
  BY DEF PendingNeedsConsent, Step
<1> QED
  BY <1>2, <1>3, FullInit, FullStep, PTL DEF Spec
-----------------------------------------------------------------------------
(* The order of what is heard.                                              *)

\* What a conversation has heard of a lane was accepted before every row of that
\* lane it may still be handed.
AheadInv ==
  \A c \in Convs : \A m \in Heard(c) : \A r \in queue :
    SameLane(m, r.msg) /\ (r.kind = "offline" => r \in dequeueFor(c)) => m < r.msg

OrderInv == HeardInOrder /\ AheadInv

\* The lanes after a step.
StillSameLane(m, n) ==
  /\ mail'[m].via = mail'[n].via
  /\ mail'[m].via = "pending" =>
       PairOf(mail'[m].from, mail'[m].to) = PairOf(mail'[n].from, mail'[n].to)

\* Accepted messages stay in their lane.
LEMMA LanesStay ==
  ASSUME \A m \in 1 .. Len(mail) : mail'[m] = mail[m]
  PROVE  \A m, n \in 1 .. Len(mail) : StillSameLane(m, n) <=> SameLane(m, n)
  BY DEF SameLane, StillSameLane

\* Appending to one inbox ascending numbers, each above what was heard of its lane.
LEMMA StaysInOrder ==
  ASSUME PlaceInv, HeardInOrder, \A m \in 1 .. Len(mail) : mail'[m] = mail[m],
         NEW c \in Convs, NEW s \in Seq(Numbers), inbox' = [inbox EXCEPT ![c] = @ \o s],
         \A i, j \in 1 .. Len(s) : i < j => s[i] < s[j],
         \A m \in Heard(c) : \A i \in 1 .. Len(s) : StillSameLane(m, s[i]) => m < s[i]
  PROVE  HeardInOrder'
<1> DEFINE old == inbox[c]
           new == inbox'[c]
<1>1. /\ old \in Seq(Numbers) /\ new = old \o s
      /\ \A d \in Convs : d # c => inbox'[d] = inbox[d]
  BY DEF PlaceInv, MailInv
<1>2. \A d \in Convs : \A i \in DOMAIN inbox[d] : inbox[d][i] \in 1 .. Len(mail)
  BY DEF PlaceInv, HeardInv, Heard
<1>3. \A d \in Convs : \A i, j \in DOMAIN inbox[d] :
        i < j /\ StillSameLane(inbox[d][i], inbox[d][j]) => inbox[d][i] < inbox[d][j]
  BY <1>2, LanesStay DEF HeardInOrder
<1>4. \A i, j \in DOMAIN old : i < j /\ StillSameLane(old[i], old[j]) => old[i] < old[j]
  BY <1>3
<1>5. \A i \in DOMAIN old : \A j \in 1 .. Len(s) : StillSameLane(old[i], s[j]) => old[i] < s[j]
  BY DEF Heard
<1> HIDE DEF old, new
<1>6. /\ Len(old) \in Nat /\ Len(s) \in Nat /\ DOMAIN old = 1 .. Len(old)
      /\ DOMAIN new = 1 .. Len(old) + Len(s)
      /\ \A i \in 1 .. Len(old) : new[i] = old[i]
      /\ \A i \in 1 .. Len(s) : new[Len(old) + i] = s[i]
  BY <1>1
<1>7. \A i \in DOMAIN new : \/ i \in DOMAIN old /\ new[i] = old[i]
                            \/ /\ ~ (i <= Len(old)) /\ i - Len(old) \in 1 .. Len(s)
                               /\ new[i] = s[i - Len(old)]
  <2> TAKE i \in DOMAIN new
  <2>1. CASE i <= Len(old)
    BY <1>6, <2>1
  <2>2. CASE ~ (i <= Len(old))
    <3> DEFINE k == i - Len(old)
    <3>1. k \in 1 .. Len(s) /\ i = Len(old) + k
      BY <1>6, <2>2
    <3> QED
      BY <1>6, <2>2, <3>1
  <2> QED
    BY <2>1, <2>2
<1>8. \A i, j \in DOMAIN new : i < j /\ StillSameLane(new[i], new[j]) => new[i] < new[j]
  <2> SUFFICES ASSUME NEW i \in DOMAIN new, NEW j \in DOMAIN new, i < j,
                      StillSameLane(new[i], new[j])
               PROVE  new[i] < new[j]
    OBVIOUS
  <2>1. CASE i \in DOMAIN old /\ new[i] = old[i] /\ j \in DOMAIN old /\ new[j] = old[j]
    BY <1>4, <2>1
  <2>2. CASE /\ i \in DOMAIN old /\ new[i] = old[i]
             /\ j - Len(old) \in 1 .. Len(s) /\ new[j] = s[j - Len(old)]
    BY <1>5, <2>2
  <2>3. CASE /\ i - Len(old) \in 1 .. Len(s) /\ new[i] = s[i - Len(old)]
             /\ j - Len(old) \in 1 .. Len(s) /\ new[j] = s[j - Len(old)]
    <3>1. i - Len(old) < j - Len(old)
      BY <1>6
    <3> QED
      BY <2>3, <3>1
  <2>4. ~ (~ (i <= Len(old)) /\ j \in DOMAIN old)
    BY <1>6
  <2> QED
    BY <1>7, <2>1, <2>2, <2>3, <2>4
<1>9. \A d \in Convs : \A i, j \in DOMAIN inbox'[d] :
        i < j /\ StillSameLane(inbox'[d][i], inbox'[d][j]) => inbox'[d][i] < inbox'[d][j]
  BY <1>1, <1>3, <1>8 DEF new
<1> QED
  BY <1>9 DEF HeardInOrder, SameLane, StillSameLane, PairOf

\* Nothing is heard and no row is new.
LEMMA FewerAhead ==
  ASSUME OrderInv, queue' \subseteq queue, UNCHANGED <<mail, inbox>>
  PROVE  OrderInv'
<1>1. \A c : Heard(c)' = Heard(c)
  BY SameHeard
<1>2. \A c : dequeueFor(c)' \subseteq dequeueFor(c)
  BY DEF dequeueFor, InScope
<1>3. \A m, n : SameLane(m, n)' <=> SameLane(m, n)
  BY DEF SameLane, PairOf
<1>4. AheadInv'
  BY <1>1, <1>2, <1>3 DEF OrderInv, AheadInv
<1>5. HeardInOrder'
  BY DEF OrderInv, HeardInOrder, SameLane, PairOf
<1> QED
  BY <1>4, <1>5 DEF OrderInv

\* A drain hands over all the rows of a lane, above what was heard of it.
LEMMA TakesInOrder ==
  ASSUME PlaceInv, KindInv, OrderInv, NEW c \in Convs, NEW R, TakeRows(R, c), Whole(R, c)
  PROVE  OrderInv'
<1> DEFINE s == InOrder(R)
<1>1. /\ R \subseteq queue /\ queue' = queue \ R /\ mail' = mail
      /\ inbox' = [inbox EXCEPT ![c] = @ \o s]
  BY DEF TakeRows
<1>2. Ids(R) \in SUBSET Nat /\ IsFiniteSet(Ids(R)) /\ Ids(R) \subseteq Numbers
  <2> HIDE DEF s
  <2>1. Ids(R) \subseteq 1 .. Len(mail)
    BY <1>1 DEF PlaceInv, RowsInv, Ids
  <2>2. Ids(R) \subseteq Numbers /\ IsFiniteSet(Ids(R))
    BY <2>1, Accepted, FS_Subset
  <2> QED
    BY <2>2 DEF Numbers
<1>3. /\ s \in Seq(Ids(R))
      /\ \A i, j \in 1 .. Len(s) : i < j => s[i] < s[j]
  BY <1>2, HandsOverOnce
<1> HIDE DEF s
<1>4. s \in Seq(Numbers) /\ \A i \in 1 .. Len(s) : s[i] \in Ids(R)
  BY <1>2, <1>3
<1>5. \A r \in R : r.kind = "offline" => r \in dequeueFor(c)
  BY DEF Whole, drainProjectMessages, InScope
<1>6. \A m, n : SameLane(m, n)' <=> SameLane(m, n)
  BY <1>1 DEF SameLane, PairOf
<1>7. \A m, n : StillSameLane(m, n) <=> SameLane(m, n)
  BY <1>1 DEF SameLane, StillSameLane
<1>8. \A m \in Heard(c) : \A r \in R : SameLane(m, r.msg) => m < r.msg
  BY <1>1, <1>5 DEF OrderInv, AheadInv
<1>9. HeardInOrder'
  <2>1. \A m \in Heard(c) : \A i \in 1 .. Len(s) : StillSameLane(m, s[i]) => m < s[i]
    BY <1>4, <1>7, <1>8 DEF Ids
  <2> QED
    BY <1>1, <1>3, <1>4, <2>1, StaysInOrder DEF OrderInv
<1>10. /\ Heard(c)' = Heard(c) \cup Ids(R)
       /\ \A d \in Convs : d # c => Heard(d)' = Heard(d)
  BY TakeKeeps
<1>11. \A d : dequeueFor(d)' \subseteq dequeueFor(d) \ R
  BY <1>1 DEF dequeueFor, InScope
\* What is left is of another lane, or not for c.
<1>12. ASSUME NEW t \in R, NEW r \in queue', SameLane(t.msg, r.msg),
              r.kind = "offline" => r \in dequeueFor(c)'
       PROVE  FALSE
  <2>1. t \in queue /\ r \in queue /\ r \notin R
    BY <1>1, <1>12
  <2>2. Fits(t, mail[t.msg]) /\ Fits(r, mail[r.msg])
    BY <2>1 DEF KindInv
  <2>3. /\ t.kind = r.kind
        /\ r.kind = "pending" => r.scope = t.scope
    BY <1>12, <2>2 DEF Fits, SameLane
  <2>4. r.kind \in Kinds
    BY <2>1 DEF PlaceInv, MailInv, Rows
  <2>5. CASE R = dequeueFor(c)
    <3>1. t.kind = "offline"
      BY <2>5 DEF dequeueFor, InScope
    <3> QED
      BY <1>11, <1>12, <2>3, <2>5, <3>1
  <2>6. ASSUME NEW a \in Convs, R = drainProjectMessages(a, c) PROVE FALSE
    <3>1. t.kind = "pending" /\ t.scope = PairOf(a, c)
      BY <2>6 DEF drainProjectMessages, InScope
    <3>2. r \in R
      BY <2>1, <2>3, <2>6, <3>1 DEF drainProjectMessages, InScope
    <3> QED
      BY <2>1, <3>2
  <2> QED
    BY <2>5, <2>6 DEF Whole
<1>13. AheadInv'
  <2> SUFFICES ASSUME NEW d \in Convs, NEW m \in Heard(d)', NEW r \in queue',
                      SameLane(m, r.msg), r.kind = "offline" => r \in dequeueFor(d)'
               PROVE  m < r.msg
    BY <1>6 DEF AheadInv
  <2>1. CASE m \in Heard(d)
    BY <1>1, <1>11, <2>1 DEF OrderInv, AheadInv
  <2>2. CASE m \notin Heard(d)
    <3>1. d = c /\ m \in Ids(R)
      BY <1>10, <2>2
    <3>2. PICK t \in R : m = t.msg
      BY <3>1 DEF Ids
    <3> QED
      BY <1>12, <3>1, <3>2
  <2> QED
    BY <2>1, <2>2
<1> QED
  BY <1>9, <1>13 DEF OrderInv

\* A message that is queued is above all that was heard.
LEMMA QueuesInOrder ==
  ASSUME PlaceInv, OrderInv, NEW row \in Rows, row.msg = NextId, NEW e \in Entry,
         Len(mail) < MaxMessages, QueueRow(row, e)
  PROVE  OrderInv'
<1>1. /\ queue' \subseteq queue \cup {row} /\ inbox' = inbox
      /\ \A c : Heard(c)' = Heard(c)
  BY QueueKeeps DEF QueueRow
<1>2. \A m \in 1 .. Len(mail) : mail'[m] = mail[m]
  BY OneMore DEF QueueRow
<1>3. \A m, n \in 1 .. Len(mail) : StillSameLane(m, n) <=> SameLane(m, n)
  BY <1>2, LanesStay
<1>4. \A m, n : SameLane(m, n)' <=> StillSameLane(m, n)
  BY DEF SameLane, StillSameLane, PairOf
<1>5. \A c \in Convs : Heard(c) \subseteq 1 .. Len(mail)
  BY DEF PlaceInv, HeardInv
<1>6. \A c \in Convs : \A m \in Heard(c) : m < NextId
  BY <1>5, Accepted DEF NextId
<1>7. AheadInv'
  <2> SUFFICES ASSUME NEW c \in Convs, NEW m \in Heard(c), NEW r \in queue',
                      StillSameLane(m, r.msg), r.kind = "offline" => r \in dequeueFor(c)'
               PROVE  m < r.msg
    BY <1>1, <1>4 DEF AheadInv
  <2>1. CASE r = row
    BY <1>6, <2>1
  <2>2. CASE r # row
    <3>1. r \in queue /\ r.msg \in 1 .. Len(mail)
      BY <1>1, <2>2 DEF PlaceInv, RowsInv
    <3>2. r.kind = "offline" => r \in dequeueFor(c)
      BY <3>1 DEF dequeueFor, InScope
    <3>3. SameLane(m, r.msg)
      BY <1>3, <1>5, <3>1
    <3> QED
      BY <3>1, <3>2, <3>3 DEF OrderInv, AheadInv
  <2> QED
    BY <2>1, <2>2
<1>8. HeardInOrder'
  <2>1. \A c \in Convs : \A i \in DOMAIN inbox[c] : inbox[c][i] \in 1 .. Len(mail)
    BY <1>5 DEF Heard
  <2>2. \A c \in Convs : \A i, j \in DOMAIN inbox[c] :
          i < j /\ StillSameLane(inbox[c][i], inbox[c][j]) => inbox[c][i] < inbox[c][j]
    BY <1>3, <2>1 DEF OrderInv, HeardInOrder
  <2> QED
    BY <1>1, <2>2 DEF HeardInOrder, SameLane, StillSameLane, PairOf
<1> QED
  BY <1>7, <1>8 DEF OrderInv

\* A message that is delivered at once is above all that was heard, and in no
\* queue's lane.
LEMMA SendsInOrder ==
  ASSUME PlaceInv, KindInv, OrderInv, NEW c \in Convs, NEW e \in Entry, e.via = "direct",
         Len(mail) < MaxMessages, SendNow(c, e)
  PROVE  OrderInv'
<1>1. /\ Heard(c)' = Heard(c) \cup {NextId}
      /\ \A d \in Convs : d # c => Heard(d)' = Heard(d)
  BY SendKeeps
<1>2. /\ \A m \in 1 .. Len(mail) : mail'[m] = mail[m]
      /\ mail'[NextId] = e /\ NextId \in Numbers
  BY OneMore DEF SendNow
<1>3. \A m, n \in 1 .. Len(mail) : StillSameLane(m, n) <=> SameLane(m, n)
  BY <1>2, LanesStay
<1>4. \A m, n : SameLane(m, n)' <=> StillSameLane(m, n)
  BY DEF SameLane, StillSameLane, PairOf
<1>5. \A d \in Convs : Heard(d) \subseteq 1 .. Len(mail)
  BY DEF PlaceInv, HeardInv
<1>6. \A d \in Convs : \A m \in Heard(d) : m < NextId
  BY <1>5, Accepted DEF NextId
<1>7. queue' = queue /\ \A d : dequeueFor(d)' = dequeueFor(d)
  BY DEF SendNow, dequeueFor, InScope
<1>8. \A r \in queue : r.msg \in 1 .. Len(mail) /\ r.kind = mail[r.msg].via /\ r.kind \in Kinds
  BY DEF KindInv, Fits, PlaceInv, RowsInv, MailInv, Rows
<1>9. AheadInv'
  <2> SUFFICES ASSUME NEW d \in Convs, NEW m \in Heard(d)', NEW r \in queue,
                      StillSameLane(m, r.msg), r.kind = "offline" => r \in dequeueFor(d)
               PROVE  m < r.msg
    BY <1>4, <1>7 DEF AheadInv
  <2>1. CASE m \in Heard(d)
    <3>1. SameLane(m, r.msg)
      BY <1>3, <1>5, <1>8, <2>1
    <3> QED
      BY <2>1, <3>1 DEF OrderInv, AheadInv
  <2>2. CASE m \notin Heard(d)
    <3>1. m = NextId
      BY <1>1, <2>2
    <3>2. r.kind = "direct"
      BY <1>2, <1>8, <3>1 DEF StillSameLane
    <3> QED
      BY <1>8, <3>2 DEF Kinds
  <2> QED
    BY <2>1, <2>2
<1>10. HeardInOrder'
  <2> DEFINE s == <<NextId>>
  <2>1. s \in Seq(Numbers) /\ Len(s) = 1 /\ s[1] = NextId
    BY <1>2
  <2>2. inbox' = [inbox EXCEPT ![c] = @ \o s]
    BY SendHears
  <2> HIDE DEF s
  <2>3. \A i \in 1 .. Len(s) : i = 1 /\ s[i] = NextId
    BY <2>1
  <2>4. \A i, j \in 1 .. Len(s) : i < j => s[i] < s[j]
    <3>1. \A i, j \in 1 .. Len(s) : ~ (i < j)
      BY <2>1
    <3> QED
      BY <3>1
  <2>5. \A m \in Heard(c) : \A i \in 1 .. Len(s) : StillSameLane(m, s[i]) => m < s[i]
    BY <1>6, <2>3
  <2> QED
    BY <1>2, <2>1, <2>2, <2>4, <2>5, StaysInOrder DEF OrderInv
<1> QED
  BY <1>9, <1>10 DEF OrderInv

\* However hosts reconnect, operators answer, rows overflow or expire, and
\* conversations of a project take each other's rows, what a conversation hears of
\* a lane is in the order it was accepted (store/sqlite/messages.ts, message-queue.ts).
THEOREM LanesAreOrdered == Spec => []HeardInOrder
<1>1. Init => OrderInv
  <2> SUFFICES ASSUME Init PROVE OrderInv
    OBVIOUS
  <2>1. \A c \in Convs : DOMAIN inbox[c] = {} /\ Heard(c) = {}
    BY DEF Init, Heard
  <2> QED
    BY <2>1 DEF OrderInv, HeardInOrder, AheadInv
<1>2. FullInv /\ OrderInv /\ [Next]_vars => OrderInv'
  <2> SUFFICES ASSUME FullInv, OrderInv, [Next]_vars PROVE OrderInv'
    OBVIOUS
  <2>1. CASE UNCHANGED messages
    BY <2>1, FewerAhead DEF messages
  <2>2. UNCHANGED vars => UNCHANGED messages
    BY DEF vars
  <2>3. CASE Next
    <3>1. Moves
      BY <2>3, EveryMove DEF FullInv, IInv, LiveKnown
    <3>2. ASSUME NEW R, DropRows(R) PROVE OrderInv'
      BY <3>2, FewerAhead DEF DropRows
    <3>3. CASE \E c \in Convs : \E R : TakeRows(R, c) /\ Whole(R, c)
      BY <3>3, TakesInOrder DEF FullInv
    <3>4. CASE /\ Len(mail) < MaxMessages
               /\ \E row \in Rows, e \in Entry : row.msg = NextId /\ QueueRow(row, e)
      BY <3>4, QueuesInOrder DEF FullInv
    <3>5. CASE /\ Len(mail) < MaxMessages
               /\ \E c \in Convs, e \in Entry : e.via = "direct" /\ SendNow(c, e)
      BY <3>5, SendsInOrder DEF FullInv
    <3> QED
      BY <2>1, <3>1, <3>2, <3>3, <3>4, <3>5 DEF Moves
  <2> QED
    BY <2>1, <2>2, <2>3
<1>3. OrderInv => HeardInOrder
  BY DEF OrderInv
<1> QED
  BY <1>1, <1>2, <1>3, FullInit, FullStep, PTL DEF Spec

-----------------------------------------------------------------------------
(* The router is a mailbox.                                                 *)

\* The numbers of some rows of the queue, and of those that are left.
LEMMA IdsLeft ==
  ASSUME PlaceInv, NEW R, R \subseteq queue
  PROVE  Ids(R) \in SUBSET Ids(queue) /\ Ids(queue \ R) = Ids(queue) \ Ids(R)
  BY DEF PlaceInv, RowsInv, Ids

\* Rows that are dropped,
LEMMA BoxDrops == ASSUME PlaceInv, NEW R, DropRows(R) PROVE Box!Drop
<1>1. /\ Ids(R) \in SUBSET Ids(queue) /\ Ids(queue)' = Ids(queue) \ Ids(R)
      /\ lost' = lost \cup Ids(R) /\ Len(mail') = Len(mail) /\ inbox' = inbox
  BY IdsLeft DEF DropRows, Ids
<1> QED
  BY <1>1 DEF Box!Drop, Ids

\* handed over,
LEMMA BoxHandsOver ==
  ASSUME PlaceInv, NEW c \in Convs, NEW R, TakeRows(R, c) PROVE Box!HandOver(c)
<1> DEFINE s == InOrder(R)
           S == Ids(R)
<1>1. /\ S \in SUBSET Ids(queue) /\ Ids(queue)' = Ids(queue) \ S
      /\ inbox' = [inbox EXCEPT ![c] = @ \o s] /\ Len(mail') = Len(mail) /\ lost' = lost
  BY IdsLeft DEF TakeRows, Ids
<1>2. s \in Box!Listings(S)
  <2>1. S \in SUBSET Nat /\ IsFiniteSet(S)
    <3> HIDE DEF s
    <3>1. S \subseteq 1 .. Len(mail)
      BY DEF PlaceInv, RowsInv, Ids, TakeRows
    <3> HIDE DEF S
    <3>2. S \subseteq Numbers /\ IsFiniteSet(S)
      BY <3>1, Accepted, FS_Subset
    <3> QED
      BY <3>2 DEF Numbers
  <2>2. /\ s \in Seq(S) /\ Len(s) = Cardinality(S)
        /\ \A i, j \in 1 .. Len(s) : i < j => s[i] < s[j]
    BY <2>1, HandsOverOnce
  <2> HIDE DEF s, S
  <2>3. s \in [1 .. Cardinality(S) -> S] /\ DOMAIN s = 1 .. Len(s)
    BY <2>2
  <2>4. \A i, j \in DOMAIN s : i < j => s[i] < s[j]
    BY <2>2, <2>3
  <2> QED
    BY <2>3, <2>4, Zenon DEF Box!Listings, Box!Cardinality, Cardinality
<1> HIDE DEF s, S
<1> QED
  BY <1>1, <1>2 DEF Box!HandOver, Ids

\* and queued, and a message delivered at once.
LEMMA BoxWaits ==
  ASSUME PlaceInv, NEW row \in Rows, row.msg = NextId, NEW e \in Entry, QueueRow(row, e)
  PROVE  Box!Wait
<1>1. PICK out \in SUBSET queue : /\ queue' = (queue \ out) \cup {row}
                                  /\ lost' = lost \cup Ids(out)
  BY Evicted DEF QueueRow
<1>2. Len(mail') = Len(mail) + 1 /\ inbox' = inbox
  BY DEF QueueRow, PlaceInv, MailInv
<1>3. Ids(queue)' = (Ids(queue) \ Ids(out)) \cup {Len(mail) + 1}
  <2>1. Ids(queue)' = Ids(queue \ out) \cup {NextId}
    BY <1>1 DEF Ids
  <2> QED
    BY <2>1, IdsLeft DEF NextId
<1>4. Ids(out) \in SUBSET Ids(queue)
  BY IdsLeft
<1> QED
  BY <1>1, <1>2, <1>3, <1>4 DEF Box!Wait, Ids

LEMMA BoxDelivers ==
  ASSUME PlaceInv, NEW c \in Convs, NEW e \in Entry, SendNow(c, e)
  PROVE  Box!Deliver(c)
<1>1. Len(mail') = Len(mail) + 1
  BY DEF SendNow, PlaceInv, MailInv
<1> QED
  BY <1>1 DEF SendNow, NextId, Box!Deliver

\* The router implements the mailbox: every step is one of a mailbox, or leaves
\* what was accepted, what waits, what was heard and what was dropped as they are
\* (message-queue.ts, handlers/channel.ts).
THEOREM ImplementsMailbox == Spec => MailboxSpec
<1>1. Init => Box!Init
  BY DEF Init, Box!Init
<1>2. FullInv /\ [Next]_vars => [Box!Next]_(Box!vars)
  <2> SUFFICES ASSUME FullInv, [Next]_vars PROVE [Box!Next]_(Box!vars)
    OBVIOUS
  <2>1. UNCHANGED messages => UNCHANGED Box!vars
    BY DEF messages, Box!vars
  <2>2. UNCHANGED vars => UNCHANGED messages
    BY DEF vars
  <2>3. CASE Next
    <3>1. Moves
      BY <2>3, EveryMove DEF FullInv, IInv, LiveKnown
    <3>2. ASSUME NEW R, DropRows(R) PROVE Box!Next
      BY <3>2, BoxDrops DEF FullInv, Box!Next
    <3>3. ASSUME NEW c \in Convs, NEW R, TakeRows(R, c) PROVE Box!Next
      BY <3>3, BoxHandsOver DEF FullInv, Box!Next
    <3>4. CASE \E row \in Rows, e \in Entry : row.msg = NextId /\ QueueRow(row, e)
      BY <3>4, BoxWaits DEF FullInv, Box!Next
    <3>5. CASE \E c \in Convs, e \in Entry : SendNow(c, e)
      BY <3>5, BoxDelivers DEF FullInv, Box!Next
    <3> QED
      BY <2>1, <3>1, <3>2, <3>3, <3>4, <3>5 DEF Moves
  <2> QED
    BY <2>1, <2>2, <2>3
<1> QED
  BY <1>1, <1>2, FullInit, FullStep, PTL DEF Spec, MailboxSpec, Box!Spec
=============================================================================
