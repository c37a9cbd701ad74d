--------------------------- MODULE MCTaskManager ---------------------------
(***************************************************************************)
(* TaskManager on small instances.  Requests, gids, torrents, sources and  *)
(* batch slots are interchangeable, so the safety runs use symmetry.       *)
(***************************************************************************)
EXTENDS TaskManager, TLC

Symmetry == Permutations(Client) \cup Permutations(Batch)
            \cup Permutations(Hash) \cup Permutations(Source)

\* At most three actors at a time: two requests and a batch, or a request and
\* two batches (an old run of a gid and the run of its successor).
ThreeActors ==
  Cardinality({c \in Client : req[c] # NoRequest})
    + Cardinality({b \in Batch : \E g \in Gid : pc[b][g] # "idle"}) <= 3

\* One life of the process in which jobs are added and canceled but not
\* deleted: small enough to check batches of several jobs and their liveness.
OneLifeNext ==
  \/ \E c \in Client :
       \/ \E s \in Source, m \in Magnets : Submit(c, s, m)
       \/ \E g \in Gid : Cancel(c, g)
       \/ AddStep(c) \/ CancelStep(c)
  \/ WorkerReceive
  \/ \E b \in Batch : WorkerDispatch(b)
  \/ \E b \in Batch, g \in Gid : RunStep(b, g) \/ Expire(b, g)
  \/ BecomeAvailable
  \/ Shutdown

OneLifeSpec == Init /\ [][OneLifeNext]_vars /\ Fairness
=============================================================================
