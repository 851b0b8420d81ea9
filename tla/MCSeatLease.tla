---------------------------- MODULE MCSeatLease ----------------------------
(***************************************************************************)
(* Instances of SeatLease for TLC.                                         *)
(***************************************************************************)
EXTENDS SeatLease, TLC

\* Call ids and conversations are interchangeable.
Symmetry == Permutations(Convs) \cup Permutations(Calls)
=============================================================================
