---------------------------- MODULE MCTokenLease ----------------------------
(***************************************************************************)
(* TokenLease on small instances.                                          *)
(***************************************************************************)
EXTENDS TokenLease, TLC

Symmetry == Permutations(Proc) \cup Permutations(Caller)

\* Three pairs of tokens leave room for two refreshes; users then enter refresh
\* tokens only.
RefreshTokensOnly == \A u \in User : call'[u].new \subseteq {"refresh"}

RotationSpec == Init /\ [][Next /\ RefreshTokensOnly]_vars
=============================================================================
