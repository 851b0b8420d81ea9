------------------------ MODULE HostTransport_proofs ------------------------
(***************************************************************************)
(* Proofs about the agent hosts' transport, for every queue size, ring     *)
(* size, number of batches and number of sockets.                          *)
(***************************************************************************)
EXTENDS HostTransport, TLAPS

(***************************************************************************)
(* Lemmas.                                                                 *)
(***************************************************************************)
\* The remainder where the ring arithmetic uses it: at most once around.
LEMMA ModOnce ==
  ASSUME NEW R \in Nat \ {0}, NEW x \in 0 .. 2 * R - 1
  PROVE  x % R = IF x < R THEN x ELSE x - R
  OBVIOUS

\* A ring slot without the remainder.
LEMMA SlotOf ==
  ASSUME NEW R \in Nat \ {0}, NEW h \in 0 .. R - 1, NEW k \in 0 .. R, NEW i \in 1 .. k
  PROVE  /\ (h - k + R + i - 1) % R \in 0 .. R - 1
         /\ (h - k + R + i - 1) % R = IF h + i - 1 < k THEN h - k + R + i - 1 ELSE h - k + i - 1
<1> DEFINE x == h - k + R + i - 1
<1>1. x \in 0 .. 2 * R - 1
  OBVIOUS
<1>2. x % R = IF x < R THEN x ELSE x - R
  BY <1>1, ModOnce
<1> QED BY <1>2

\* One push moves the head by one slot, around the end.
LEMMA HeadMoves ==
  ASSUME NEW R \in Nat \ {0}, NEW h \in 0 .. R - 1
  PROVE  (h + 1) % R = IF h + 1 < R THEN h + 1 ELSE 0
<1>1. PICK x \in 0 .. 2 * R - 1 : x = h + 1
  OBVIOUS
<1>2. x % R = IF x < R THEN x ELSE x - R
  BY ModOnce
<1> QED BY <1>1, <1>2

\* The batches of a sequence, by position.
LEMMA BatchAt ==
  ASSUME NEW s \in Seq(Messages), NEW n
  PROVE  n \in BatchesIn(s) <=> \E i \in 1 .. Len(s) :
            s[i].type = "transcript_entries" /\ s[i].n = n
  BY DEF BatchesIn, Rows

\* What a sequence holds after a push ...
LEMMA BatchesAppend ==
  ASSUME NEW s \in Seq(Messages), NEW m \in Messages
  PROVE  BatchesIn(s) \cup BatchesIn(<<m>>) \subseteq BatchesIn(Append(s, m))
<1> DEFINE t == Append(s, m)
<1>1. t \in Seq(Messages) /\ <<m>> \in Seq(Messages)
  OBVIOUS
<1>2. ASSUME NEW n \in BatchesIn(s) PROVE n \in BatchesIn(t)
  <2>1. PICK i \in 1 .. Len(s) : s[i].type = "transcript_entries" /\ s[i].n = n
    BY <1>2, BatchAt
  <2>2. i \in 1 .. Len(t) /\ t[i] = s[i]
    OBVIOUS
  <2> QED BY <1>1, <2>1, <2>2, BatchAt, ZenonT(60)
<1>3. ASSUME NEW n \in BatchesIn(<<m>>) PROVE n \in BatchesIn(t)
  <2>1. m.type = "transcript_entries" /\ m.n = n
    BY <1>3 DEF BatchesIn, Rows
  <2>2. PICK k \in 1 .. Len(t) : t[k] = m
    <3>1. Len(s) + 1 \in 1 .. Len(t) /\ t[Len(s) + 1] = m
      OBVIOUS
    <3> QED BY <3>1
  <2> HIDE DEF t
  <2> QED BY <1>1, <2>1, <2>2, BatchAt
<1> QED BY <1>2, <1>3

\* ... after a concatenation ...
LEMMA BatchesConcat ==
  ASSUME NEW s \in Seq(Messages), NEW t \in Seq(Messages)
  PROVE  BatchesIn(s) \cup BatchesIn(t) \subseteq BatchesIn(s \o t)
<1> DEFINE u == s \o t
<1>1. u \in Seq(Messages)
  OBVIOUS
<1>2. ASSUME NEW n \in BatchesIn(s) PROVE n \in BatchesIn(u)
  <2>1. PICK i \in 1 .. Len(s) : s[i].type = "transcript_entries" /\ s[i].n = n
    BY <1>2, BatchAt
  <2>2. i \in 1 .. Len(u) /\ u[i] = s[i]
    OBVIOUS
  <2> QED BY <1>1, <2>1, <2>2, BatchAt, ZenonT(60)
<1>3. ASSUME NEW n \in BatchesIn(t) PROVE n \in BatchesIn(u)
  <2>1. PICK i \in 1 .. Len(t) : t[i].type = "transcript_entries" /\ t[i].n = n
    BY <1>3, BatchAt
  <2>2. Len(s) + i \in 1 .. Len(u) /\ u[Len(s) + i] = t[i]
    OBVIOUS
  <2> QED BY <1>1, <2>1, <2>2, BatchAt, ZenonT(60)
<1> QED BY <1>2, <1>3

\* ... and what a pop takes away.
LEMMA BatchesTail ==
  ASSUME NEW s \in Seq(Messages), s # <<>>, NEW n \in BatchesIn(s),
         n \notin BatchesIn(Tail(s))
  PROVE  Head(s).type = "transcript_entries" /\ Head(s).n = n
<1>1. PICK i \in 1 .. Len(s) : s[i].type = "transcript_entries" /\ s[i].n = n
  BY BatchAt
<1>2. CASE i = 1
  BY <1>1, <1>2
<1>3. CASE i > 1
  <2>1. Tail(s) \in Seq(Messages) /\ i - 1 \in 1 .. Len(Tail(s)) /\ Tail(s)[i - 1] = s[i]
    BY <1>3
  <2>2. PICK k \in 1 .. Len(Tail(s)) : Tail(s)[k] = s[i]
    BY <2>1
  <2>3. n \in BatchesIn(Tail(s))
    BY <1>1, <2>1, <2>2, BatchAt, ZenonT(60)
  <2> QED BY <2>3
<1> QED BY <1>2, <1>3

\* One batch on its own.
LEMMA BatchOne ==
  ASSUME NEW n \in 1 .. MaxSent
  PROVE  Batch(n) \in Messages /\ n \in BatchesIn(<<Batch(n)>>)
<1>1. Batch(n) \in Messages /\ <<Batch(n)>> \in Seq(Messages)
  BY DEF Batch, Messages
<1>2. 1 \in 1 .. Len(<<Batch(n)>>) /\ <<Batch(n)>>[1].type = "transcript_entries"
        /\ <<Batch(n)>>[1].n = n
  BY DEF Batch
<1> QED BY <1>1, <1>2, BatchAt

\* A row more.
LEMMA RowsAppend ==
  ASSUME NEW s \in Seq(1 .. MaxSent), NEW x \in 1 .. MaxSent
  PROVE  Rows(Append(s, x)) = Rows(s) \cup {x}
<1>1. \A i \in 1 .. Len(s) : Append(s, x)[i] = s[i]
  OBVIOUS
<1>2. Len(Append(s, x)) = Len(s) + 1 /\ Append(s, x)[Len(s) + 1] = x
  OBVIOUS
<1> QED BY <1>1, <1>2 DEF Rows

(***************************************************************************)
(* The inductive invariant.                                                *)
(***************************************************************************)
\* The ring holds the last batches, oldest first from its first slot on.
RingInv ==
  /\ ringCount = IF sent < RingSize THEN sent ELSE RingSize
  /\ \A i \in 1 .. ringCount : ring[RingSlot(i)] = sent - ringCount + i

\* Nothing is on the wire of a socket that has not opened.
FreshWires ==
  \A c \in Conns : (c > conn \/ (c = conn /\ ws = "connecting")) => wire[c] = <<>>

\* What a socket carries starts with its initial message until the broker
\* has read one.
Announced ==
  /\ \A c \in Conns : \/ wire[c] = <<>>
                       \/ registered
                       \/ Head(wire[c]).type \in {"agent_host_boot", "meta"}
  /\ ws = "open" => registered \/ wire[conn] # <<>>

IInv == TypeOK /\ RingInv /\ FreshWires /\ Announced /\ Accounted

\* A push keeps the ring's promise.
LEMMA PushKeepsRing ==
  ASSUME TypeOK, RingInv, pushRing(sent + 1), sent' = sent + 1, sent < MaxSent
  PROVE  RingInv' /\ ring' \in [Slots -> 0 .. MaxSent] /\ ringHead' \in Slots
           /\ ringCount' \in 0 .. RingSize
<1>1. RingSize \in Nat \ {0} /\ ringHead \in 0 .. RingSize - 1 /\ ringCount \in 0 .. RingSize
  BY SizesAssumption DEF TypeOK, Slots
<1>2. /\ ringHead' = (ringHead + 1) % RingSize
      /\ ringCount' = IF ringCount < RingSize THEN ringCount + 1 ELSE ringCount
      /\ ring' = [ring EXCEPT ![ringHead] = sent + 1]
  BY DEF pushRing
<1>3. PICK h2, k2, r2 : h2 = ringHead' /\ k2 = ringCount' /\ r2 = ring'
  OBVIOUS
<1>4. /\ h2 \in 0 .. RingSize - 1 /\ k2 \in 1 .. RingSize
      /\ (h2 - k2 + RingSize + k2 - 1) % RingSize = ringHead
      /\ \A i \in 1 .. k2 - 1 : \E j \in 1 .. ringCount :
           /\ j = IF ringCount < RingSize THEN i ELSE i + 1
           /\ (h2 - k2 + RingSize + i - 1) % RingSize = RingSlot(j)
           /\ RingSlot(j) # ringHead
  <2>1. h2 = (ringHead + 1) % RingSize
    BY <1>2, <1>3
  <2>2. k2 = IF ringCount < RingSize THEN ringCount + 1 ELSE ringCount
    BY <1>2, <1>3
  <2>3. h2 = IF ringHead + 1 < RingSize THEN ringHead + 1 ELSE 0
    BY <1>1, <2>1, HeadMoves
  <2>4. h2 \in 0 .. RingSize - 1 /\ k2 \in 1 .. RingSize /\ k2 \in 0 .. RingSize
    BY <1>1, <2>2, <2>3
  <2>5. (h2 - k2 + RingSize + k2 - 1) % RingSize = ringHead
    <3>1. k2 \in 1 .. k2
      BY <2>4
    <3>2. (h2 - k2 + RingSize + k2 - 1) % RingSize
            = IF h2 + k2 - 1 < k2 THEN h2 - k2 + RingSize + k2 - 1 ELSE h2 - k2 + k2 - 1
      BY <1>1, <2>4, <3>1, SlotOf
    <3> QED BY <1>1, <2>3, <2>4, <3>2
  <2>6. ASSUME NEW i \in 1 .. k2 - 1
        PROVE  \E j \in 1 .. ringCount :
                 /\ j = IF ringCount < RingSize THEN i ELSE i + 1
                 /\ (h2 - k2 + RingSize + i - 1) % RingSize = RingSlot(j)
                 /\ RingSlot(j) # ringHead
    <3>1. PICK j \in 1 .. ringCount : j = IF ringCount < RingSize THEN i ELSE i + 1
      <4>1. (IF ringCount < RingSize THEN i ELSE i + 1) \in 1 .. ringCount
        BY <1>1, <2>2, <2>4
      <4> QED BY <4>1
    <3>2. i \in 1 .. k2
      BY <2>4
    <3>3. (h2 - k2 + RingSize + i - 1) % RingSize
            = IF h2 + i - 1 < k2 THEN h2 - k2 + RingSize + i - 1 ELSE h2 - k2 + i - 1
      BY <1>1, <2>4, <3>2, SlotOf
    <3>4. RingSlot(j) = IF ringHead + j - 1 < ringCount
                          THEN ringHead - ringCount + RingSize + j - 1
                          ELSE ringHead - ringCount + j - 1
      BY <1>1, SlotOf DEF RingSlot
    <3>5. (h2 - k2 + RingSize + i - 1) % RingSize = RingSlot(j)
      BY <1>1, <2>2, <2>3, <3>1, <3>3, <3>4
    <3>6. RingSlot(j) # ringHead
      BY <1>1, <2>4, <3>1, <3>4
    <3> QED BY <3>1, <3>5, <3>6
  <2> QED BY <2>4, <2>5, <2>6
<1>5. sent \in 0 .. MaxSent /\ MaxSent \in Nat
  BY SizesAssumption DEF TypeOK
<1>6. /\ ringCount = IF sent < RingSize THEN sent ELSE RingSize
      /\ \A j \in 1 .. ringCount : ring[RingSlot(j)] = sent - ringCount + j
  BY DEF RingInv
<1>7. k2 = IF ringCount < RingSize THEN ringCount + 1 ELSE ringCount
  BY <1>2, <1>3
<1>8. k2 = IF sent + 1 < RingSize THEN sent + 1 ELSE RingSize
  BY <1>1, <1>5, <1>6, <1>7
<1>9. /\ ring \in [Slots -> 0 .. MaxSent] /\ ringHead \in Slots
      /\ r2 = [ring EXCEPT ![ringHead] = sent + 1] /\ sent + 1 \in 0 .. MaxSent
  BY <1>2, <1>3, <1>5 DEF TypeOK
<1>10. ASSUME NEW i \in 1 .. k2
       PROVE  r2[(h2 - k2 + RingSize + i - 1) % RingSize] = sent + 1 - k2 + i
  <2>1. CASE i = k2
    <3>1. r2[ringHead] = sent + 1
      BY <1>9
    <3> QED BY <1>4, <1>5, <2>1, <3>1
  <2>2. CASE i < k2
    <3>1. i \in 1 .. k2 - 1
      BY <1>4, <2>2
    <3>2. PICK j \in 1 .. ringCount :
             /\ j = IF ringCount < RingSize THEN i ELSE i + 1
             /\ (h2 - k2 + RingSize + i - 1) % RingSize = RingSlot(j)
             /\ RingSlot(j) # ringHead
      BY <1>4, <3>1
    <3>3. RingSlot(j) \in Slots
      BY <1>1, SlotOf DEF RingSlot, Slots
    <3>4. r2[RingSlot(j)] = ring[RingSlot(j)]
      BY <1>9, <3>2, <3>3
    <3>5. r2[RingSlot(j)] = sent - ringCount + j
      BY <1>6, <3>4
    <3>6. sent - ringCount + j = sent + 1 - k2 + i
      BY <1>1, <1>5, <1>7, <3>2
    <3> QED BY <3>2, <3>5, <3>6
  <2> QED BY <1>4, <2>1, <2>2
<1>11. RingInv'
  <2>1. ringCount' = IF sent' < RingSize THEN sent' ELSE RingSize
    BY <1>3, <1>8
  <2>2. ASSUME NEW i \in 1 .. ringCount'
        PROVE  ring'[RingSlot(i)'] = sent' - ringCount' + i
    <3>1. r2[(h2 - k2 + RingSize + i - 1) % RingSize] = sent + 1 - k2 + i
      BY <1>3, <1>10
    <3>2. RingSlot(i)' = (ringHead' - ringCount' + RingSize + i - 1) % RingSize
      BY DEF RingSlot
    <3>3. RingSlot(i)' = (h2 - k2 + RingSize + i - 1) % RingSize
      BY <1>3, <3>2, Zenon
    <3>4. sent' - ringCount' + i = sent + 1 - k2 + i
      BY <1>3, <1>4, <1>5
    <3> QED BY <1>3, <3>1, <3>3, <3>4, Zenon
  <2> QED BY <2>1, <2>2 DEF RingInv
<1>12. r2 \in [Slots -> 0 .. MaxSent] /\ h2 \in Slots /\ k2 \in 0 .. RingSize
  BY <1>4, <1>9 DEF Slots
<1> QED BY <1>3, <1>11, <1>12

\* What flushRing writes.
LEMMA ReplayType ==
  ASSUME TypeOK, RingInv
  PROVE  Replay \in Seq(Messages)
<1>1. ASSUME NEW i \in 1 .. ringCount
      PROVE  Batch(ring[RingSlot(i)]) \in Messages
  <2>1. ring[RingSlot(i)] \in 1 .. MaxSent
    BY SizesAssumption DEF TypeOK, RingInv
  <2> QED BY <2>1, BatchOne
<1>2. ringCount \in Nat
  BY SizesAssumption DEF TypeOK
<1> QED BY <1>1, <1>2 DEF Replay

\* Every batch on a queue or on a wire is one the host can send.
LEMMA BatchesRange ==
  ASSUME NEW s \in Seq(Messages)
  PROVE  BatchesIn(s) \subseteq 1 .. MaxSent
<1>1. SUFFICES ASSUME NEW n \in BatchesIn(s) PROVE n \in 1 .. MaxSent
  OBVIOUS
<1>2. PICK i \in 1 .. Len(s) : s[i].type = "transcript_entries" /\ s[i].n = n
  BY BatchAt
<1>3. s[i] \in Messages
  OBVIOUS
<1>4. s[i] \in [type : {"transcript_entries"}, n : 1 .. MaxSent]
  BY <1>2, <1>3 DEF Messages, Promote, Boot, Meta
<1> QED BY <1>2, <1>4

(***************************************************************************)
(* Sending.                                                                *)
(***************************************************************************)
LEMMA SendType ==
  ASSUME TypeOK, NEW m \in Messages, send(m)
  PROVE  /\ queue' \in Seq(Messages) /\ Len(queue') <= QueueSize
         /\ overflowed' \in BOOLEAN
         /\ wire' \in [Conns -> Seq(Messages)]
         /\ lost' \subseteq 1 .. MaxSent
<1>1. /\ queue \in Seq(Messages) /\ Len(queue) <= QueueSize /\ QueueSize \in Nat \ {0}
      /\ wire \in [Conns -> Seq(Messages)] /\ conn \in Conns
      /\ lost \subseteq 1 .. MaxSent /\ overflowed \in BOOLEAN
  BY SizesAssumption DEF TypeOK
<1>2. CASE /\ wire' = [wire EXCEPT ![conn] = Append(@, m)]
           /\ UNCHANGED <<queue, overflowed, lost>>
  BY <1>1, <1>2
<1>3. CASE lost' = lost \cup BatchesIn(<<m>>) /\ UNCHANGED <<queue, overflowed, wire>>
  <2>1. BatchesIn(<<m>>) \subseteq 1 .. MaxSent
    <3>1. <<m>> \in Seq(Messages)
      OBVIOUS
    <3> QED BY <3>1, BatchesRange
  <2> QED BY <1>1, <1>3, <2>1
<1>4. CASE enqueue(m) /\ UNCHANGED <<wire, lost>>
  <2>1. overflowed' \in BOOLEAN
    BY <1>4 DEF enqueue
  <2>2. CASE Len(queue) >= QueueSize
    <3>1. queue # <<>> /\ Tail(queue) \in Seq(Messages) /\ Len(Tail(queue)) = Len(queue) - 1
      BY <1>1, <2>2
    <3>2. queue' = Append(Tail(queue), m)
      BY <1>4, <2>2 DEF enqueue
    <3> QED BY <1>1, <1>4, <2>1, <3>1, <3>2
  <2>3. CASE ~(Len(queue) >= QueueSize)
    <3>1. queue' = Append(queue, m)
      BY <1>4, <2>3 DEF enqueue
    <3> QED BY <1>1, <1>4, <2>1, <2>3, <3>1
  <2> QED BY <2>2, <2>3
<1> QED BY <1>2, <1>3, <1>4 DEF send

\* A batch is stored, went down with a socket, is queued or on its way.
OnItsWay(n) == \E c \in Conns : n \in BatchesIn(wire[c])
Kept(n) == n \in Rows(log) \/ n \in lost \/ n \in BatchesIn(queue) \/ OnItsWay(n)

\* A send forgets nothing that was kept, and keeps what it is given.
LEMMA SendKeeps ==
  ASSUME TypeOK, NEW m \in Messages, send(m), UNCHANGED log, NEW n,
         Kept(n) \/ n \in BatchesIn(<<m>>)
  PROVE  overflowed' \/ Kept(n)'
<1>1. /\ queue \in Seq(Messages) /\ wire \in [Conns -> Seq(Messages)] /\ conn \in Conns
      /\ overflowed \in BOOLEAN
  BY DEF TypeOK
<1>2. CASE /\ wire' = [wire EXCEPT ![conn] = Append(@, m)]
           /\ UNCHANGED <<queue, overflowed, lost>>
  <2>1. wire'[conn] = Append(wire[conn], m) /\ \A c \in Conns \ {conn} : wire'[c] = wire[c]
    BY <1>1, <1>2
  <2>2. BatchesIn(wire[conn]) \cup BatchesIn(<<m>>) \subseteq BatchesIn(wire'[conn])
    BY <1>1, <2>1, BatchesAppend
  <2>3. CASE n \in BatchesIn(<<m>>)
    BY <1>1, <2>2, <2>3 DEF Kept, OnItsWay
  <2>4. CASE OnItsWay(n)
    <3>1. PICK c \in Conns : n \in BatchesIn(wire[c])
      BY <2>4 DEF OnItsWay
    <3>2. n \in BatchesIn(wire'[c])
      BY <2>1, <2>2, <3>1
    <3> QED BY <3>2 DEF Kept, OnItsWay
  <2>5. CASE n \in Rows(log) \/ n \in lost \/ n \in BatchesIn(queue)
    BY <1>2, <2>5 DEF Kept
  <2> QED BY <2>3, <2>4, <2>5 DEF Kept
<1>3. CASE lost' = lost \cup BatchesIn(<<m>>) /\ UNCHANGED <<queue, overflowed, wire>>
  BY <1>3 DEF Kept, OnItsWay
<1>4. CASE enqueue(m) /\ UNCHANGED <<wire, lost>>
  <2>1. CASE Len(queue) >= QueueSize
    BY <1>4, <2>1 DEF enqueue
  <2>2. CASE ~(Len(queue) >= QueueSize)
    <3>1. queue' = Append(queue, m)
      BY <1>4, <2>2 DEF enqueue
    <3>2. BatchesIn(queue) \cup BatchesIn(<<m>>) \subseteq BatchesIn(queue')
      BY <1>1, <3>1, BatchesAppend
    <3> QED BY <1>4, <3>2 DEF Kept, OnItsWay
  <2> QED BY <2>1, <2>2
<1> QED BY <1>2, <1>3, <1>4 DEF send

\* A send leaves the wires announced and the unopened ones empty.
LEMMA SendWires ==
  ASSUME TypeOK, FreshWires, Announced, NEW m \in Messages, send(m),
         UNCHANGED <<ws, conn, registered>>
  PROVE  FreshWires' /\ Announced'
<1>1. wire \in [Conns -> Seq(Messages)] /\ conn \in Conns
  BY DEF TypeOK
<1>2. CASE UNCHANGED wire
  BY <1>2 DEF FreshWires, Announced
<1>3. CASE connected /\ ws = "open" /\ wire' = [wire EXCEPT ![conn] = Append(@, m)]
  <2>1. wire'[conn] = Append(wire[conn], m) /\ \A c \in Conns \ {conn} : wire'[c] = wire[c]
    BY <1>1, <1>3
  <2>2. FreshWires'
    BY <1>1, <1>3, <2>1 DEF FreshWires, Conns
  <2>3. wire'[conn] # <<>>
    BY <1>1, <2>1
  <2>4. registered \/ Head(wire'[conn]).type \in {"agent_host_boot", "meta"}
    <3>1. CASE wire[conn] = <<>>
      BY <1>3, <3>1 DEF Announced
    <3>2. CASE wire[conn] # <<>>
      <4>1. wire[conn] \in Seq(Messages)
        BY <1>1
      <4>2. Head(wire'[conn]) = Head(wire[conn])
        BY <2>1, <3>2, <4>1
      <4> QED BY <1>1, <3>2, <4>2 DEF Announced
    <3> QED BY <3>1, <3>2
  <2>5. Announced'
    BY <1>1, <2>1, <2>3, <2>4 DEF Announced
  <2> QED BY <2>2, <2>5
<1> QED BY <1>2, <1>3 DEF send

(***************************************************************************)
(* One lemma per action: the inductive invariant is kept.                  *)
(***************************************************************************)
Wires == FreshWires /\ Announced

\* What an action that leaves the ring alone has to show nothing about.
LEMMA RingUnchanged ==
  ASSUME RingInv, UNCHANGED <<sent, ring, ringHead, ringCount>>
  PROVE  RingInv'
  BY DEF RingInv, RingSlot

\* The accounting, one batch at a time.
LEMMA AccountedKept == Accounted <=> (overflowed \/ \A n \in 1 .. sent : Kept(n))
  BY DEF Accounted, Kept, OnItsWay

LEMMA AccountedUnchanged ==
  ASSUME Accounted, UNCHANGED <<sent, overflowed, log, lost, queue, wire>>
  PROVE  Accounted'
  BY DEF Accounted

LEMMA SendTranscriptStep ==
  ASSUME IInv, sendTranscriptEntries
  PROVE  IInv'
<1> USE DEF IInv
<1>1. /\ sent < MaxSent /\ sent' = sent + 1 /\ pushRing(sent + 1) /\ send(Batch(sent + 1))
      /\ UNCHANGED <<lastSessionId, socket, broker>>
  BY DEF sendTranscriptEntries
<1>2. sent + 1 \in 1 .. MaxSent /\ sent \in Nat
  BY <1>1, SizesAssumption DEF TypeOK
<1>3. Batch(sent + 1) \in Messages /\ sent + 1 \in BatchesIn(<<Batch(sent + 1)>>)
  BY <1>2, BatchOne
<1>4. RingInv' /\ ring' \in [Slots -> 0 .. MaxSent] /\ ringHead' \in Slots
        /\ ringCount' \in 0 .. RingSize
  BY <1>1, PushKeepsRing
<1>5. /\ queue' \in Seq(Messages) /\ Len(queue') <= QueueSize /\ overflowed' \in BOOLEAN
      /\ wire' \in [Conns -> Seq(Messages)] /\ lost' \subseteq 1 .. MaxSent
  BY <1>1, <1>3, SendType
<1>6. TypeOK'
  <2>1. sent' \in 0 .. MaxSent
    BY <1>1, <1>2
  <2> QED BY <1>1, <1>4, <1>5, <2>1 DEF TypeOK, socket, broker
<1>7. Wires'
  BY <1>1, <1>3, SendWires DEF socket, broker, Wires
<1>9. Accounted'
  <2>1. UNCHANGED log /\ (overflowed' \in BOOLEAN)
    BY <1>1, <1>5 DEF broker
  <2>2. overflowed => overflowed'
    BY <1>1 DEF send, enqueue
  <2>3. ASSUME ~overflowed', NEW n \in 1 .. sent' PROVE Kept(n)'
    <3>1. Kept(n) \/ n \in BatchesIn(<<Batch(sent + 1)>>)
      <4>1. CASE n = sent + 1
        BY <1>3, <4>1
      <4>2. CASE n # sent + 1
        <5>1. n \in 1 .. sent
          BY <1>1, <1>2, <4>2
        <5> QED BY <2>2, <2>3, <5>1, AccountedKept
      <4> QED BY <4>1, <4>2
    <3> QED BY <1>1, <1>3, <2>1, <2>3, <3>1, SendKeeps
  <2> QED BY <2>3 DEF Accounted, Kept, OnItsWay
<1> QED BY <1>4, <1>6, <1>7, <1>9 DEF Wires

LEMMA SetSessionStep ==
  ASSUME IInv, setSessionId
  PROVE  IInv'
<1> USE DEF IInv
<1>1. /\ lastSessionId' = TRUE /\ send(Promote)
      /\ UNCHANGED <<sent, ring, ringHead, ringCount, socket, broker>>
  BY DEF setSessionId
<1>2. Promote \in Messages
  BY DEF Messages
<1>3. /\ queue' \in Seq(Messages) /\ Len(queue') <= QueueSize /\ overflowed' \in BOOLEAN
      /\ wire' \in [Conns -> Seq(Messages)] /\ lost' \subseteq 1 .. MaxSent
  BY <1>1, <1>2, SendType
<1>4. TypeOK'
  BY <1>1, <1>3 DEF TypeOK, socket, broker
<1>5. Wires'
  BY <1>1, <1>2, SendWires DEF socket, broker, Wires
<1>6. RingInv'
  BY <1>1, RingUnchanged DEF broker
<1>7. Accounted'
  <2>1. UNCHANGED log /\ UNCHANGED sent
    BY <1>1 DEF broker
  <2>2. overflowed => overflowed'
    BY <1>1 DEF send, enqueue
  <2>3. ASSUME ~overflowed', NEW n \in 1 .. sent PROVE Kept(n)'
    <3>1. Kept(n)
      BY <2>2, <2>3, AccountedKept
    <3> QED BY <1>1, <1>2, <2>1, <2>3, <3>1, SendKeeps
  <2> QED BY <2>1, <2>3 DEF Accounted, Kept, OnItsWay
<1> QED BY <1>4, <1>5, <1>6, <1>7 DEF Wires

LEMMA ConnectStep ==
  ASSUME IInv, Connect
  PROVE  IInv'
<1> USE DEF IInv
<1>1. TypeOK'
  <2>1. conn' \in Conns
    BY SizesAssumption DEF Connect, TypeOK, Conns
  <2>2. initialMessage' \in {Boot, Meta}
    BY Zenon DEF Connect, buildInitialMessage
  <2>3. ws' = "connecting" /\ retry' = FALSE
          /\ UNCHANGED <<host, connected, shouldReconnect, broker, wire, lost>>
    BY DEF Connect
  <2> QED BY <2>1, <2>2, <2>3 DEF TypeOK, host, broker
<1>2. Wires'
  <2>1. /\ conn' = conn + 1 /\ ws' = "connecting" /\ UNCHANGED <<wire, registered>>
        /\ conn \in Nat
    BY SizesAssumption DEF Connect, broker, TypeOK, Conns
  <2>2. FreshWires'
    BY <2>1 DEF FreshWires, Conns
  <2>3. Announced'
    BY <2>1 DEF Announced
  <2> QED BY <2>2, <2>3 DEF Wires
<1>3. RingInv' /\ Accounted'
  <2>1. UNCHANGED <<sent, ring, ringHead, ringCount, overflowed, queue, log, lost, wire>>
    BY DEF Connect, host, broker
  <2> QED BY <2>1, RingUnchanged, AccountedUnchanged
<1> QED BY <1>1, <1>2, <1>3 DEF Wires

LEMMA OpensStep ==
  ASSUME IInv, Opens
  PROVE  IInv'
<1> USE DEF IInv
<1> DEFINE w == <<initialMessage>> \o queue \o Replay
<1>1. /\ ws = "connecting" /\ ws' = "open" /\ connected' = TRUE
      /\ wire' = [wire EXCEPT ![conn] = w] /\ queue' = <<>>
      /\ UNCHANGED <<sent, lastSessionId, overflowed, ring, ringHead, ringCount,
                     shouldReconnect, retry, conn, initialMessage, broker, lost>>
  BY DEF Opens
<1>2. /\ queue \in Seq(Messages) /\ wire \in [Conns -> Seq(Messages)] /\ conn \in Conns
      /\ initialMessage \in {Boot, Meta}
  BY DEF TypeOK
<1>3. Replay \in Seq(Messages)
  BY ReplayType
<1>4. <<initialMessage>> \in Seq(Messages) /\ <<initialMessage>> \o queue \in Seq(Messages)
  BY <1>2 DEF Messages
<1>5. w \in Seq(Messages) /\ w # <<>> /\ Head(w) = initialMessage
  <2>1. Replay \in Seq(Messages) => w \in Seq(Messages) /\ w # <<>> /\ Head(w) = initialMessage
    <3> HIDE DEF Replay
    <3>1. PICK r : r = Replay
      OBVIOUS
    <3>2. r \in Seq(Messages) =>
            /\ <<initialMessage>> \o queue \o r \in Seq(Messages)
            /\ <<initialMessage>> \o queue \o r # <<>>
            /\ Head(<<initialMessage>> \o queue \o r) = initialMessage
      BY <1>2, <1>4
    <3> QED BY <3>1, <3>2
  <2> QED BY <1>3, <2>1
<1>6. BatchesIn(queue) \subseteq BatchesIn(w)
  <2>1. BatchesIn(queue) \subseteq BatchesIn(<<initialMessage>> \o queue)
    BY <1>2, <1>4, BatchesConcat
  <2>2. BatchesIn(<<initialMessage>> \o queue) \subseteq BatchesIn(w)
    BY <1>3, <1>4, BatchesConcat
  <2> QED BY <2>1, <2>2
<1> HIDE DEF w
<1>7. wire'[conn] = w /\ \A c \in Conns \ {conn} : wire'[c] = wire[c]
  BY <1>1, <1>2
<1>8. TypeOK'
  <2>1. wire' \in [Conns -> Seq(Messages)]
    BY <1>1, <1>2, <1>5
  <2>2. queue' \in Seq(Messages) /\ Len(queue') <= QueueSize
    BY <1>1, SizesAssumption
  <2> QED BY <1>1, <2>1, <2>2 DEF TypeOK, broker
<1>9. FreshWires'
  BY <1>1, <1>2, <1>7 DEF FreshWires, Conns
<1>10. Announced'
  <2>1. initialMessage.type \in {"agent_host_boot", "meta"}
    BY <1>2 DEF Boot, Meta
  <2> QED BY <1>1, <1>2, <1>5, <1>7, <2>1 DEF Announced, broker
<1>11. RingInv'
  BY <1>1, RingUnchanged DEF broker
<1>12. Accounted'
  <2>1. ASSUME NEW n \in 1 .. sent, Kept(n) PROVE Kept(n)'
    <3>1. CASE n \in Rows(log) \/ n \in lost
      BY <1>1, <3>1 DEF Kept, broker
    <3>2. CASE n \in BatchesIn(queue)
      BY <1>2, <1>6, <1>7, <3>2 DEF Kept, OnItsWay
    <3>3. CASE OnItsWay(n)
      <4>1. PICK c \in Conns : n \in BatchesIn(wire[c])
        BY <3>3 DEF OnItsWay
      <4>2. c # conn
        <5>1. wire[conn] = <<>>
          BY <1>1, <1>2 DEF FreshWires
        <5>2. BatchesIn(<<>>) = {}
          BY DEF BatchesIn, Rows
        <5> QED BY <4>1, <5>1, <5>2
      <4> QED BY <1>7, <4>1, <4>2 DEF Kept, OnItsWay
    <3> QED BY <2>1, <3>1, <3>2, <3>3 DEF Kept
  <2>2. overflowed \/ \A n \in 1 .. sent : Kept(n)'
    BY <2>1, AccountedKept
  <2> QED BY <1>1, <2>2 DEF Accounted, Kept, OnItsWay
<1> QED BY <1>8, <1>9, <1>10, <1>11, <1>12

\* Dies, OnClose and Close touch the socket's state only.
LEMMA SocketStep ==
  ASSUME IInv, Dies \/ OnClose \/ Close
  PROVE  IInv'
<1> USE DEF IInv
<1>1. /\ UNCHANGED <<host, conn, initialMessage, broker, wire, lost>>
      /\ ws' \in {"closing", "closed"} \/ (ws' = ws /\ ws \notin {"connecting", "open"})
      /\ connected' \in BOOLEAN /\ shouldReconnect' \in BOOLEAN /\ retry' \in BOOLEAN
  <2>1. CASE Dies
    BY <2>1 DEF Dies, TypeOK
  <2>2. CASE OnClose
    BY <2>2 DEF OnClose, TypeOK
  <2>3. CASE Close
    BY <2>3 DEF Close, TypeOK
  <2> QED BY <2>1, <2>2, <2>3
<1>2. TypeOK'
  BY <1>1 DEF TypeOK, host, broker
<1>3. Wires'
  BY <1>1 DEF Wires, FreshWires, Announced, broker
<1>4. RingInv' /\ Accounted'
  BY <1>1, RingUnchanged, AccountedUnchanged DEF host, broker
<1> QED BY <1>2, <1>3, <1>4 DEF Wires

LEMMA LoseWireStep ==
  ASSUME IInv, NEW c \in Conns, LoseWire(c)
  PROVE  IInv'
<1> USE DEF IInv
<1>1. /\ c <= conn /\ Gone(c) /\ lost' = lost \cup BatchesIn(wire[c])
      /\ wire' = [wire EXCEPT ![c] = <<>>] /\ UNCHANGED <<host, socket, broker>>
  BY DEF LoseWire
<1>2. wire \in [Conns -> Seq(Messages)] /\ conn \in Conns /\ lost \subseteq 1 .. MaxSent
  BY DEF TypeOK
<1>3. wire'[c] = <<>> /\ \A d \in Conns \ {c} : wire'[d] = wire[d]
  BY <1>1, <1>2
<1>4. TypeOK'
  <2>1. wire' \in [Conns -> Seq(Messages)]
    BY <1>1, <1>2
  <2>2. lost' \subseteq 1 .. MaxSent
    BY <1>1, <1>2, BatchesRange
  <2> QED BY <1>1, <2>1, <2>2 DEF TypeOK, host, socket, broker
<1>5. FreshWires'
  BY <1>1, <1>3 DEF FreshWires, socket
<1>6. Announced'
  <2>1. ws' = "open" => conn # c
    BY <1>1, <1>2 DEF Gone, socket, Conns
  <2> QED BY <1>1, <1>2, <1>3, <2>1 DEF Announced, socket, broker
<1>7. RingInv'
  BY <1>1, RingUnchanged DEF host, broker
<1>8. Accounted'
  <2>1. ASSUME NEW n \in 1 .. sent, Kept(n) PROVE Kept(n)'
    <3>1. CASE n \in Rows(log) \/ n \in lost \/ n \in BatchesIn(queue)
      BY <1>1, <3>1 DEF Kept, broker, host
    <3>2. CASE OnItsWay(n)
      BY <1>1, <1>3, <3>2 DEF Kept, OnItsWay
    <3> QED BY <2>1, <3>1, <3>2 DEF Kept
  <2>2. overflowed \/ \A n \in 1 .. sent : Kept(n)'
    BY <2>1, AccountedKept
  <2> QED BY <1>1, <2>2 DEF Accounted, Kept, OnItsWay, host
<1> QED BY <1>4, <1>5, <1>6, <1>7, <1>8

LEMMA DeliverStep ==
  ASSUME IInv, NEW c \in Conns, Deliver(c)
  PROVE  IInv'
<1> USE DEF IInv
<1> DEFINE m == Head(wire[c])
<1>1. /\ wire[c] # <<>> /\ wire' = [wire EXCEPT ![c] = Tail(@)]
      /\ UNCHANGED <<host, socket, lost>>
      /\ \/ m.type = "transcript_entries" /\ Ingest(m.n) /\ UNCHANGED <<registered, promoted>>
         \/ m.type = "conversation_promote" /\ promoted' = (promoted \/ registered)
              /\ UNCHANGED <<log, registered>>
         \/ m.type \in {"agent_host_boot", "meta"} /\ registered' = TRUE
              /\ promoted' = (promoted \/ m.type = "meta") /\ UNCHANGED log
  BY DEF Deliver
<1>2. /\ wire \in [Conns -> Seq(Messages)] /\ conn \in Conns /\ log \in Seq(1 .. MaxSent)
      /\ registered \in BOOLEAN /\ promoted \in BOOLEAN
  BY DEF TypeOK
<1>3. wire[c] \in Seq(Messages) /\ m \in Messages /\ Tail(wire[c]) \in Seq(Messages)
  BY <1>1, <1>2
<1>4. wire'[c] = Tail(wire[c]) /\ \A d \in Conns \ {c} : wire'[d] = wire[d]
  BY <1>1, <1>2
<1>6. registered' = TRUE /\ registered' \in BOOLEAN /\ promoted' \in BOOLEAN
  <2>1. registered \/ m.type \in {"agent_host_boot", "meta"}
    BY <1>1 DEF Announced
  <2> QED BY <1>1, <1>2, <2>1
<1>7. m.type = "transcript_entries" => m.n \in 1 .. MaxSent
  BY <1>3 DEF Messages, Promote, Boot, Meta
<1> HIDE DEF m
<1>8. \/ UNCHANGED log
      \/ m.type = "transcript_entries" /\ m.n \notin Rows(log) /\ log' = Append(log, m.n)
  BY <1>1 DEF Ingest
<1>9. log' \in Seq(1 .. MaxSent) /\ Rows(log) \subseteq Rows(log')
  <2>1. CASE UNCHANGED log
    BY <1>2, <2>1
  <2>2. CASE m.type = "transcript_entries" /\ log' = Append(log, m.n)
    <3>1. m.n \in 1 .. MaxSent
      BY <1>7, <2>2
    <3>2. Rows(Append(log, m.n)) = Rows(log) \cup {m.n}
      BY <1>2, <3>1, RowsAppend
    <3> QED BY <1>2, <2>2, <3>1, <3>2
  <2> QED BY <1>8, <2>1, <2>2
<1>10. TypeOK'
  <2>1. wire' \in [Conns -> Seq(Messages)]
    BY <1>1, <1>2, <1>3
  <2> QED BY <1>1, <1>6, <1>9, <2>1 DEF TypeOK, host, socket
<1>11. FreshWires' /\ Announced'
  BY <1>1, <1>4, <1>6 DEF FreshWires, Announced, socket
<1>12. RingInv'
  BY <1>1, RingUnchanged DEF host
<1>14. Accounted'
  <2>1. Rows(log) \subseteq Rows(log')
    BY <1>9
  <2>2. ASSUME m.type = "transcript_entries" PROVE m.n \in Rows(log')
    <3>1. registered
      BY <1>1, <2>2 DEF Announced, m
    <3>2. log' = IF m.n \notin Rows(log) THEN Append(log, m.n) ELSE log
      BY <1>1, <2>2, <3>1 DEF Ingest
    <3>3. m.n \in 1 .. MaxSent
      BY <1>7, <2>2
    <3>4. Rows(Append(log, m.n)) = Rows(log) \cup {m.n}
      BY <1>2, <3>3, RowsAppend
    <3> QED BY <3>2, <3>4
  <2>3. ASSUME NEW n \in 1 .. sent, Kept(n) PROVE Kept(n)'
    <3>1. CASE n \in Rows(log) \/ n \in lost \/ n \in BatchesIn(queue)
      BY <1>1, <2>1, <3>1 DEF Kept, host
    <3>2. CASE OnItsWay(n)
      <4>1. PICK d \in Conns : n \in BatchesIn(wire[d])
        BY <3>2 DEF OnItsWay
      <4>2. CASE d # c \/ n \in BatchesIn(wire'[c])
        BY <1>4, <4>1, <4>2 DEF Kept, OnItsWay
      <4>3. CASE d = c /\ n \notin BatchesIn(wire'[c])
        <5>1. m.type = "transcript_entries" /\ m.n = n
          BY <1>1, <1>3, <1>4, <4>1, <4>3, BatchesTail DEF m
        <5> QED BY <2>2, <5>1 DEF Kept
      <4> QED BY <4>2, <4>3
    <3> QED BY <2>3, <3>1, <3>2 DEF Kept
  <2>4. overflowed \/ \A n \in 1 .. sent : Kept(n)'
    BY <2>3, AccountedKept
  <2> QED BY <1>1, <2>4 DEF Accounted, Kept, OnItsWay, host
<1> QED BY <1>10, <1>11, <1>12, <1>14

LEMMA InitIInv == Init => IInv
<1> SUFFICES ASSUME Init PROVE IInv
  OBVIOUS
<1>1. TypeOK
  <2>1. queue \in Seq(Messages) /\ Len(queue) <= QueueSize /\ log \in Seq(1 .. MaxSent)
    BY SizesAssumption DEF Init
  <2>2. wire \in [Conns -> Seq(Messages)] /\ conn \in Conns
    BY SizesAssumption DEF Init, Conns
  <2>3. ring \in [Slots -> 0 .. MaxSent] /\ ringHead \in Slots /\ ringCount \in 0 .. RingSize
    BY SizesAssumption DEF Init, Slots
  <2>4. sent \in 0 .. MaxSent /\ initialMessage \in {Boot, Meta} /\ lost \subseteq 1 .. MaxSent
    BY SizesAssumption DEF Init
  <2> QED BY <2>1, <2>2, <2>3, <2>4 DEF Init, TypeOK
<1>2. RingInv
  BY SizesAssumption DEF Init, RingInv
<1>3. FreshWires /\ Announced
  BY DEF Init, FreshWires, Announced
<1>4. Accounted
  BY DEF Init, Accounted
<1> QED BY <1>1, <1>2, <1>3, <1>4 DEF IInv

LEMMA NextIInv == IInv /\ [Next]_vars => IInv'
<1> SUFFICES ASSUME IInv, [Next]_vars PROVE IInv'
  OBVIOUS
<1>1. CASE sendTranscriptEntries
  BY <1>1, SendTranscriptStep
<1>2. CASE setSessionId
  BY <1>2, SetSessionStep
<1>3. CASE Connect
  BY <1>3, ConnectStep
<1>4. CASE Opens
  BY <1>4, OpensStep
<1>5. CASE Dies \/ OnClose \/ Close
  BY <1>5, SocketStep
<1>6. CASE \E c \in Conns : LoseWire(c) \/ Deliver(c)
  BY <1>6, LoseWireStep, DeliverStep
<1>7. CASE UNCHANGED vars
  <2>1. UNCHANGED <<sent, lastSessionId, queue, overflowed, ring, ringHead, ringCount>>
          /\ UNCHANGED <<ws, connected, shouldReconnect, retry, conn, initialMessage>>
          /\ UNCHANGED <<log, registered, promoted, wire, lost>>
    BY <1>7 DEF vars, host, socket, broker
  <2>2. TypeOK'
    BY <2>1 DEF IInv, TypeOK
  <2>3. FreshWires' /\ Announced'
    BY <2>1 DEF IInv, FreshWires, Announced
  <2>4. RingInv' /\ Accounted'
    BY <2>1, RingUnchanged, AccountedUnchanged DEF IInv
  <2> QED BY <2>2, <2>3, <2>4 DEF IInv
<1> QED BY <1>1, <1>2, <1>3, <1>4, <1>5, <1>6, <1>7 DEF Next

LEMMA Invariant == Spec => []IInv
  BY InitIInv, NextIInv, PTL DEF Spec

(***************************************************************************)
(* The theorems.                                                           *)
(***************************************************************************)
\* The transport's state stays within its types; the queue never holds more
\* than QueueSize messages.
THEOREM TransportTypes == Spec => []TypeOK
<1>1. IInv => TypeOK
  BY DEF IInv
<1> QED BY <1>1, Invariant, PTL

\* Whatever was sent, and however often the ring went around, flushRing would
\* replay exactly the last RingSize batches, oldest first.
THEOREM RingReplaysTheLatest == Spec => []ReplayIsRecent
<1>1. IInv => ReplayIsRecent
  <2> SUFFICES ASSUME IInv PROVE ReplayIsRecent
    OBVIOUS
  <2>1. ASSUME NEW i \in 1 .. ringCount PROVE Replay[i] = Batch(sent - ringCount + i)
    <3>1. ring[RingSlot(i)] = sent - ringCount + i
      BY DEF IInv, RingInv
    <3> QED BY <3>1 DEF Replay
  <2> QED BY <2>1 DEF ReplayIsRecent, IInv, RingInv
<1> QED BY <1>1, Invariant, PTL

\* A batch is never dropped silently: as long as the queue has not
\* overflowed it is stored, queued, on its way, or went down with a socket.
THEOREM NoSilentLoss == Spec => []Accounted
<1>1. IInv => Accounted
  BY DEF IInv
<1> QED BY <1>1, Invariant, PTL
=============================================================================
