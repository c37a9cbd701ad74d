------------------------------ MODULE JobTable ------------------------------
(***************************************************************************)
(* The tasks table of the SQLite store (internal/storage/sqlite), as the   *)
(* SQL statements of ingest.JobRepository change it.  Every statement is   *)
(* one transaction, so every statement is one step.                        *)
(*                                                                         *)
(* A row is kept under its gid (tasks.gid is UNIQUE).  A gid is the pair   *)
(* of the torrent it was made for and a draw: draw 0 is the default gid,   *)
(* the first 16 digits of the info hash; the others stand for the 64 bit   *)
(* random gids of AssignNewGID.  Timestamps, the magnet text, the error    *)
(* text and the category column are left out.                              *)
(***************************************************************************)
EXTENDS Naturals, FiniteSets

CONSTANTS
  Hash,      \* the torrents (info hashes)
  Source,    \* the front ends that own rows: "aria2", "qbittorrent", ...
  MaxDraw,   \* how many random gids can be in use at once for one torrent
  MaxId      \* bound on tasks.id

ASSUME TableAssumption == MaxDraw \in Nat /\ MaxId \in Nat

VARIABLE jobs

Gid == Hash \X (0..MaxDraw)
InfoHash(g) == g[1]
DefaultGid(h) == <<h, 0>>

JobState == {"queued", "running", "succeeded", "failed", "canceled"}
Active   == {"queued", "running"}
Job      == [id : 1..MaxId, source : Source, state : JobState]
NoJob    == [state |-> "none"]

Exists(g)  == jobs[g].state # "none"
State(g)   == jobs[g].state
Owned(g, s) == Exists(g) /\ jobs[g].source = s

----------------------------------------------------------------------------
(* Queries.                                                                *)

\* LatestJob: the row with the largest id of that source and torrent, as a
\* set with at most one element.
LatestJob(s, h) ==
  LET rows == {g \in Gid : Owned(g, s) /\ InfoHash(g) = h}
  IN  {g \in rows : \A k \in rows : jobs[k].id <= jobs[g].id}

\* idx_tasks_active_source_torrent: a second active row of the same source
\* and torrent violates the partial unique index.
ActiveTwin(g, s) ==
  \E k \in Gid \ {g} : /\ InfoHash(k) = InfoHash(g)
                       /\ Owned(k, s)
                       /\ State(k) \in Active

\* Faulty variant of IsNextId: one more than the number of rows.
IsRowCount(n) == n = Cardinality({g \in Gid : Exists(g)}) + 1

\* SQLite gives an INTEGER PRIMARY KEY without AUTOINCREMENT the successor of
\* the largest id in the table.
IsNextId(n) ==
  /\ \A g \in Gid : Exists(g) => jobs[g].id < n
  /\ n = 1 \/ \E g \in Gid : Exists(g) /\ jobs[g].id = n - 1

----------------------------------------------------------------------------
(* Statements.  A statement that fails leaves the table alone.             *)

CreateRefused(g, s) == Exists(g) \/ ActiveTwin(g, s)

\* Faulty variant of CreateJob: only the gid is checked.
CreateJobTwice(g, s) ==
  /\ ~Exists(g)
  /\ \E n \in 1..MaxId :
       /\ IsNextId(n)
       /\ jobs' = [jobs EXCEPT ![g] = [id |-> n, source |-> s, state |-> "queued"]]

CreateJob(g, s) ==
  /\ ~CreateRefused(g, s)
  /\ \E n \in 1..MaxId :
       /\ IsNextId(n)
       /\ jobs' = [jobs EXCEPT ![g] = [id |-> n, source |-> s, state |-> "queued"]]

\* Faulty variant of UpdateOutcome: the WHERE clause has only the gid.
UpdateIgnoresCancel(g, st) ==
  IF ~Exists(g) THEN "missing"
  ELSE IF st \in Active /\ ActiveTwin(g, jobs[g].source) THEN "conflict"
  ELSE "ok"

\* Faulty variant of UpdateOutcome: no unique index.
UpdateIgnoresIndex(g, st) ==
  IF ~Exists(g) THEN "missing"
  ELSE IF State(g) = "canceled" /\ st # "canceled" THEN "canceled"
  ELSE "ok"

\* What UpdateJob answers: no such row, the row is canceled and the new state
\* is another one, the index refuses a second active row, or the row is written.
UpdateOutcome(g, st) ==
  IF ~Exists(g) THEN "missing"
  ELSE IF State(g) = "canceled" /\ st # "canceled" THEN "canceled"
  ELSE IF st \in Active /\ ActiveTwin(g, jobs[g].source) THEN "conflict"
  ELSE "ok"

UpdateJob(g, st) ==
  /\ UpdateOutcome(g, st) = "ok"
  /\ jobs' = [jobs EXCEPT ![g].state = st]

Cancelable(g) == State(g) \in {"queued", "running", "failed"}

CancelJob(g) ==
  /\ Cancelable(g)
  /\ jobs' = [jobs EXCEPT ![g].state = "canceled"]

Deletable(g) == State(g) \in {"canceled", "failed", "succeeded"}

\* Faulty variant of DeleteJob: the row is only marked.
SoftDelete(g) ==
  /\ Deletable(g)
  /\ jobs' = [jobs EXCEPT ![g].state = "deleted"]

DeleteJob(g) ==
  /\ Deletable(g)
  /\ jobs' = [jobs EXCEPT ![g] = NoJob]

\* DeleteJobAny has no condition on the state.
DeleteJobAny(g) ==
  /\ Exists(g)
  /\ jobs' = [jobs EXCEPT ![g] = NoJob]

\* The rows RecoverRunningJobsBySource leaves.
Recovered(S) ==
  [g \in Gid |-> IF State(g) = "running" /\ jobs[g].source \in S
                 THEN [jobs[g] EXCEPT !.state = "queued"] ELSE jobs[g]]

RecoverRunningJobs(S) == jobs' = Recovered(S)

----------------------------------------------------------------------------
Init == jobs = [g \in Gid |-> NoJob]

Next ==
  \/ \E g \in Gid, s \in Source : CreateJob(g, s)
  \/ \E g \in Gid, st \in JobState : UpdateJob(g, st)
  \/ \E g \in Gid : CancelJob(g)
  \/ \E g \in Gid : DeleteJob(g)
  \/ \E g \in Gid : DeleteJobAny(g)
  \/ \E S \in SUBSET Source : RecoverRunningJobs(S)

Spec == Init /\ [][Next]_jobs

----------------------------------------------------------------------------
(* Properties.                                                             *)

\* Every gid holds no row or a well-formed row.
TypeOK == jobs \in [Gid -> Job \cup {NoJob}]

\* At most one row of a source and a torrent is queued or running, whatever
\* sequence of statements ran: creating, re-activating a finished row and
\* recovering after a restart all respect the partial unique index.
OneActivePerTorrent ==
  \A g, k \in Gid :
    /\ Exists(g) /\ Exists(k)
    /\ State(g) \in Active /\ State(k) \in Active
    /\ InfoHash(g) = InfoHash(k)
    /\ jobs[g].source = jobs[k].source
    => g = k

\* No two rows share an id, so "the latest job" of a torrent is one row, and
\* ids keep naming one row each although SQLite reuses the id of a deleted
\* last row.
IdsUnique ==
  \A g, k \in Gid : Exists(g) /\ Exists(k) /\ jobs[g].id = jobs[k].id => g = k

\* Once a row is canceled no statement brings it back: a late "running",
\* "failed" or "succeeded" of its run, or a recovery, never overwrites the
\* user's decision; only deletion ends it.
CanceledIsFinal ==
  [][\A g \in Gid : State(g) = "canceled" => State(g)' \in {"canceled", "none"}]_jobs
=============================================================================
