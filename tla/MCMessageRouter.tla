-------------------------- MODULE MCMessageRouter --------------------------
(* Two projects: a alone in p, b and c in q.  c has no title, and was       *)
(* spawned under a name that is not its slug.                               *)
EXTENDS MessageRouter

CONSTANTS a, b, c, p, q, rawName

ProjectOf == (a :> p) @@ (b :> q) @@ (c :> q)
Spawned   == (a :> a) @@ (b :> b) @@ (c :> rawName)
=============================================================================
