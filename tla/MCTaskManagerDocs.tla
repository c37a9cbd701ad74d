------------------------- MODULE MCTaskManagerDocs -------------------------
(***************************************************************************)
(* What the documentation says of jobs, held against TaskManager.          *)
(***************************************************************************)
EXTENDS TaskManager

\* docs/architecture.md: queued jobs wait for the credential and are executed
\* once 115 is available.
QueuedIsExecuted ==
  \A g \in Gid : (Table!State(g) = "queued") ~> (Table!State(g) # "queued" \/ stopping)

DocFairSpec == Spec /\ Fairness
=============================================================================
