----------------------------- MODULE MC_Settings -----------------------------
(* Two groups of one key each, two values: enough for a group to be       *)
(* removed while another stays, for an entry to be overwritten, and for   *)
(* the file and memory to disagree on one entry and agree on the other.  *)
EXTENDS Settings

CONSTANTS g1, g2, k, v1, v2

(* g1's key has a default value and a different fallback value; g2's key  *)
(* is in neither layer, so value() reports nothing until it is set.       *)
MCDefault == [e \in Groups \X Keys |-> IF e[1] = g1 THEN v1 ELSE Absent]
MCFallback == [e \in Groups \X Keys |-> IF e[1] = g1 THEN v2 ELSE Absent]

(* The default file orders g1's key, the fallback file orders the key of  *)
(* both groups: g1's key is named by two lists, g2's by one although      *)
(* neither read-only layer holds it.                                       *)
MCDefaultOrder == [g \in Groups |-> IF g = g1 THEN <<k>> ELSE <<>>]
MCFallbackOrder == [g \in Groups |-> <<k>>]

=============================================================================
