-------------------------- MODULE MC_SessionWorker --------------------------
(* Two peers; the response masks are distinct model values.               *)
EXTENDS SessionWorker

CONSTANTS a1, a2

MCAddrs == {a1, a2}

=============================================================================
