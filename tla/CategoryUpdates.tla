--------------------------- MODULE CategoryUpdates ---------------------------
(***************************************************************************)
(* The qBittorrent front end writes a job's category through UpdateJob,    *)
(* which writes the whole row: the state that was read is written back.    *)
(* Two requests do it: setCategory (qbittorrent.Controller.SetCategory)    *)
(* and adding a magnet again with another category (task.Manager.Submit).  *)
(* They run beside everything of TaskManager; the category itself is left  *)
(* out.                                                                    *)
(***************************************************************************)
EXTENDS TaskManager

CONSTANTS
  Editor,           \* concurrent requests that write a category
  CategorySource    \* the sources whose jobs are added with a category

ASSUME CategoryAssumption == CategorySource \subseteq Source

VARIABLE edit      \* what each of them has read: a gid and a state, or nothing

editVars == <<vars, edit>>

NoEdit == [gid |-> NoGid, state |-> "none"]

\* SetCategory reads the job by its gid, whatever its source.
ReadForCategory(e, g) ==
  /\ edit[e] = NoEdit
  /\ Table!Exists(g)
  /\ edit' = [edit EXCEPT ![e] = [gid |-> g, state |-> Table!State(g)]]
  /\ UNCHANGED vars

\* Submit finds that the magnet has a job, in another category.
FindForCategory(e, s, h) ==
  /\ edit[e] = NoEdit /\ available
  /\ AlreadyKnown(s, h)
  /\ \E g \in Table!LatestJob(s, h) :
       edit' = [edit EXCEPT ![e] = [gid |-> g, state |-> Table!State(g)]]
  /\ UNCHANGED vars

\* UpdateJob writes the row back, or reports that it is gone, canceled or that
\* another active job stands in the way.
WriteCategory(e) ==
  /\ edit[e] # NoEdit
  /\ \/ Table!UpdateJob(edit[e].gid, edit[e].state)
     \/ Table!UpdateOutcome(edit[e].gid, edit[e].state) # "ok" /\ UNCHANGED jobs
  /\ edit' = [edit EXCEPT ![e] = NoEdit]
  /\ UNCHANGED <<managerVars, runVars, req, envVars>>

\* A restart ends the requests; so does a client that goes away.
DropEdit(e) ==
  /\ edit[e] # NoEdit
  /\ edit' = [edit EXCEPT ![e] = NoEdit]
  /\ UNCHANGED vars

RestartAll == Restart /\ edit' = [e \in Editor |-> NoEdit]

EditInit == Init /\ edit = [e \in Editor |-> NoEdit]

EditNext ==
  \/ RestartAll
  \/ LifeStep /\ UNCHANGED edit
  \/ \E e \in Editor, g \in Gid : ReadForCategory(e, g)
  \/ \E e \in Editor, s \in CategorySource, h \in Hash : FindForCategory(e, s, h)
  \/ \E e \in Editor : WriteCategory(e) \/ DropEdit(e)

EditSpec == EditInit /\ [][EditNext]_editVars

EditFairSpec == EditSpec /\ Fairness /\ \A e \in Editor : WF_editVars(WriteCategory(e))

----------------------------------------------------------------------------
(* Properties.                                                             *)

\* What a request writes back is a state that some row can have.
EditTypeOK == edit \in [Editor -> [gid : Gid, state : Table!JobState] \cup {NoEdit}]

\* Writing back a row that was read before it failed and was added again does
\* not give the torrent a second active job.
OneActiveDespiteEdits == Table!OneActivePerTorrent

\* Writing back the state of a job that has been canceled since does not bring
\* the job back.
CanceledDespiteEdits ==
  [][\A g \in Gid : Table!State(g) = "canceled" => jobs'[g].state \in {"canceled", "none"}]_editVars

\* The row says running, and no run will ever write how it ended.
Orphaned(g) ==
  /\ Table!State(g) = "running" /\ jobs[g].source \in Resumed
  /\ \A b \in Batch : pc[b][g] \notin Working

\* A request writes back a state the row of g has left since it was read.
WritesBack(g, st) ==
  /\ Table!State(g) # st
  /\ \E e \in Editor : edit[e] = [gid |-> g, state |-> st] /\ edit'[e] = NoEdit

LostByWritingBack ==
  \A g \in Gid :
    /\ Stranded(g)' => Stranded(g) \/ Abandons(g) \/ WritesBack(g, "queued")
    /\ Orphaned(g)' => Orphaned(g) \/ WritesBack(g, "running")
    /\ Restart => ~Stranded(g)' /\ ~Orphaned(g)'

\* The stale write itself is all that category changes add to what can go
\* wrong: a row becomes running without a run only by it, queued with nobody to
\* start it by it or as before, and a restart repairs both.
LostByStaleWritesOnly == [][LostByWritingBack]_editVars

\* docs/configuration.md: ingest.job_timeout limits the whole time of a job,
\* which is marked as failed after it; so a running row does not stay running.
RunningIsBounded ==
  \A g \in Gid : (Table!State(g) = "running") ~> (Table!State(g) # "running")
=============================================================================
