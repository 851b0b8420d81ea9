------------------------------ MODULE Mailbox ------------------------------
(***************************************************************************)
(* What the broker's message routing promises about a message it accepted  *)
(* (src/broker/handlers/channel.ts, src/broker/message-queue.ts): messages *)
(* are numbered as they are accepted, each is put before one conversation  *)
(* at once or waits; what waits is handed over together, lower numbers     *)
(* first, to one conversation, or is dropped.  What was heard or dropped   *)
(* stays so: nothing is taken back, sent again, or brought back to wait.   *)
(***************************************************************************)
EXTENDS Naturals, Sequences, FiniteSets

CONSTANT Convs

VARIABLES sent,      \* how many messages were accepted
          waiting,   \* the numbers that wait
          heard,     \* what each conversation was sent, in order
          dropped    \* the numbers nobody will hear

vars == <<sent, waiting, heard, dropped>>

Init ==
  /\ sent = 0 /\ waiting = {} /\ dropped = {}
  /\ heard = [c \in Convs |-> <<>>]

\* A message waits; others may have to make room for it.
Wait ==
  /\ sent' = sent + 1
  /\ \E out \in SUBSET waiting :
       /\ waiting' = (waiting \ out) \cup {sent + 1}
       /\ dropped' = dropped \cup out
  /\ UNCHANGED heard

Deliver(c) ==
  /\ sent' = sent + 1
  /\ heard' = [heard EXCEPT ![c] = Append(@, sent + 1)]
  /\ UNCHANGED <<waiting, dropped>>

\* The sequences that list S, lower numbers first.
Listings(S) == {s \in [1 .. Cardinality(S) -> S] :
                  \A i, j \in DOMAIN s : i < j => s[i] < s[j]}

HandOver(c) ==
  /\ UNCHANGED <<sent, dropped>>
  /\ \E S \in SUBSET waiting :
       /\ waiting' = waiting \ S
       /\ \E s \in Listings(S) : heard' = [heard EXCEPT ![c] = @ \o s]

Drop ==
  /\ UNCHANGED <<sent, heard>>
  /\ \E S \in SUBSET waiting :
       /\ waiting' = waiting \ S
       /\ dropped' = dropped \cup S

Next == Wait \/ Drop \/ \E c \in Convs : Deliver(c) \/ HandOver(c)

Spec == Init /\ [][Next]_vars
=============================================================================
