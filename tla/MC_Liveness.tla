---------------------------- MODULE MC_Liveness ----------------------------
EXTENDS Liveness

CONSTANTS a1, a2, i1, i2

\* Two peer applications on the same host, so that a closed transport
\* connection reports both of them.
MCAppIp == (a1 :> i1) @@ (a2 :> i1)

=============================================================================
