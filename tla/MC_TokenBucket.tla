---------------------------- MODULE MC_TokenBucket ----------------------------
(* Threads for the token-bucket runs.                                      *)
EXTENDS TokenBucket

CONSTANTS t1, t2
=============================================================================
