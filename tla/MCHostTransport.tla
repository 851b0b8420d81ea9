-------------------------- MODULE MCHostTransport --------------------------
(* The agent hosts' transport on a small instance.                         *)
EXTENDS HostTransport
=============================================================================
