----------------------------- MODULE MCCatalog -----------------------------
(***************************************************************************)
(* The statements of the catalog in every order, on small tables.          *)
(***************************************************************************)
EXTENDS Catalog, TLC

CatSymmetry == Permutations(Hash) \cup Permutations(Content) \cup Permutations(Source)

\* Left unexplored: 115 names the folder and the source of a task together, no
\* retention ends, and a row goes from "queued" to "succeeded" or "canceled" ("running"
\* and "failed" are to the catalog what "queued" and "succeeded" are).
Plain ==
  /\ \A a \in ArtifactId : Recorded(a) => /\ artifact[a].source = artifact[a].result
                                          /\ ~artifact[a].old
  /\ \A g \in Gid : State(g) \notin {"running", "failed"}
=============================================================================
