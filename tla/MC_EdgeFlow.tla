----------------------------- MODULE MC_EdgeFlow -----------------------------
(* Screen layouts for the edge-flow runs.                                  *)
EXTENDS EdgeFlow, TLC

CONSTANTS a, b, c

\* No neighbour in any direction.
Alone == [d \in Dirs |-> NoScreen]

\* b to the right of a.
MCSideBySide == (a :> [Alone EXCEPT !["Right"] = b]) @@
                (b :> [Alone EXCEPT !["Left"] = a])

\* b to the right of a and c below a.
MCCorner == (a :> [Alone EXCEPT !["Right"] = b, !["Bottom"] = c]) @@
            (b :> [Alone EXCEPT !["Left"] = a]) @@
            (c :> [Alone EXCEPT !["Top"] = a])
=============================================================================
