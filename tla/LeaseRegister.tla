--------------------------- MODULE LeaseRegister ---------------------------
(***************************************************************************)
(* What a lease on a board card promises (src/shared/epic-lease.ts): a     *)
(* register that remembers who was awarded each generation and who holds   *)
(* the grip now.  A generation is awarded once and for ever, generations   *)
(* are awarded in order, and only the conversation that was awarded the    *)
(* newest one can be the holder.                                           *)
(***************************************************************************)
EXTENDS Naturals, Sequences

CONSTANTS Convs,    \* conversation ids
          NoConv    \* the empty holder

VARIABLES awarded,  \* awarded[g] is the conversation that took generation g
          holder    \* who holds the grip, or NoConv

vars == <<awarded, holder>>

Init == awarded = <<>> /\ holder = NoConv

Award(c) == /\ awarded' = Append(awarded, c)
            /\ holder' = c

Vacate == /\ holder # NoConv
          /\ holder' = NoConv
          /\ UNCHANGED awarded

Next == Vacate \/ \E c \in Convs : Award(c)

Spec == Init /\ [][Next]_vars
=============================================================================
