----------------------------- MODULE MCEpicBeat -----------------------------
(***************************************************************************)
(* Instances of EpicBeat for TLC.                                          *)
(***************************************************************************)
EXTENDS EpicBeat

CONSTANT c1

(* epic: everything that can go wrong, one thing per behaviour.            *)
Anything == UpsetKinds
=============================================================================
