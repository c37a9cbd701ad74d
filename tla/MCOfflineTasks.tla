--------------------------- MODULE MCOfflineTasks ---------------------------
(***************************************************************************)
(* OfflineTasks on small instances.                                        *)
(***************************************************************************)
EXTENDS OfflineTasks, TLC

Symmetry == Permutations(Caller) \cup Permutations(Hash)

CONSTANT Restorer   \* the calls that restore; the others resolve

\* Each call keeps to its kind: one that resolves beside one that restores.
Mixed == \A c \in Caller : call'[c] # Idle => (call'[c].op = "restore") = (c \in Restorer)

MixedFairSpec == Init /\ [][Next /\ Mixed]_vars /\ Fairness
=============================================================================
