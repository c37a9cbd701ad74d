------------------------- MODULE MCOfflineTasksDocs -------------------------
(***************************************************************************)
(* What the comment of offlineTaskManager.restart says, against the code.  *)
(***************************************************************************)
EXTENDS OfflineTasks

\* "A later task with the same info hash must not inherit the old task's ...
\* status" (internal/ingest/offline_tasks.go:183): once the record has been
\* started afresh for the newest 115 task of a torrent, the first status it
\* takes over is one of that task.
StatusIsNotInherited ==
  [][\A h \in Hash :
       /\ record[h].known /\ record[h].task = Blank /\ record'[h].task # Blank
       /\ ~\E c \in Caller : At(c, "restart") /\ Hc(c) = h
       => record'[h].task.epoch = epochs[h]]_vars
=============================================================================
