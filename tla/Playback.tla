------------------------------- MODULE Playback -------------------------------
(***************************************************************************)
(* Playing a file (internal/materialize, with the restorer of bootstrap and *)
(* RestoreContent of ingest): a request for a content is answered from the *)
(* cache of resolutions or waits for the one background task, the flight,  *)
(* of that content.  A flight looks for the file where it was seen last    *)
(* and, if it is gone from 115, downloads one of its torrents again under  *)
(* a row of the tasks table.  The scan of a new folder goes on after its   *)
(* flight has found the file.  Meanwhile the sweep deletes folders, users  *)
(* cancel and delete rows, files disappear from 115, the process restarts. *)
(*                                                                         *)
(* The tables are those of Catalog, and every step changes them by one of  *)
(* its statements.  The rest is the memory of the process (flight, cache,  *)
(* asked, scans, sweep) and what 115 holds (remote, offline, made).        *)
(* Left out: 115 tasks with a part of the files, tasks outside the working *)
(* directory or without a source folder, the preferred torrent of a        *)
(* request (any order of the torrents is possible here), the service       *)
(* without a restorer.                                                     *)
(***************************************************************************)
EXTENDS Catalog

CONSTANTS
  Request,    \* the requests of the clients
  Restore,    \* the source of the rows the restorer creates
  Resumed     \* the sources whose running rows the task manager recovers

NotYet == "not yet"
Over   == "over"

ASSUME PlaybackAssumption ==
  /\ Restore \in Source /\ Resumed \subseteq Source \ {Restore}
  /\ NotYet \notin Content /\ Over \notin Content

VARIABLES
  flight,     \* cache.flights: the background task of a content, or none
  cache,      \* cache.entries: the location that answers for a content, or none
  asked,      \* the content a request waits for, or that it has not come or is over
  scans,      \* the scans that go on behind a flight that has found its file
  sweep,      \* what the sweep and the users have still to delete
  polling,    \* fetchMu is held by the poller of the offline tasks or by another job
  stray,      \* history: the rows whose run ended without writing a result
  remote,     \* the files on 115
  offline,    \* the offline tasks of 115, by torrent
  made        \* how many folders 115 has made for a torrent

memory  == <<flight, cache, asked, scans, sweep, polling>>
cloud   == <<remote, offline, made>>
playVars == <<jobs, artifact, location, listed, flight, cache, asked, scans, sweep, polling,
              stray, remote, offline, made>>

NoFile    == <<>>
NoGid     == <<>>
NoFlight  == [at |-> "none"]
NoTask    == [state |-> "none"]

Flight == [at : {"lookup", "check", "restore", "named", "created", "submit", "conflict", "fetch",
                 "replace", "resubmit", "wait", "scan", "mark", "drop", "succeed", "fail", "save",
                 "touch"},
           rows : SUBSET [file : File, id : 1..MaxRow],  \* asset.Locations not yet checked
           todo : SUBSET Hash,                           \* asset.Sources not yet tried
           gid  : Gid \cup {NoGid},                      \* the row of the restore
           copy : Copy \cup {NoCopy},                    \* where the file or the result is
           artifact : ArtifactId \cup {Null},            \* what a rebuild has to mark
           late : BOOLEAN,                               \* the deadline of ctx has passed
           rebuilt : BOOLEAN]

Scan == [gid : Gid, copy : Copy, saved : BOOLEAN]
Item == [artifact : ArtifactId, copy : Copy, gone : BOOLEAN,
         by : Gid \cup {NoGid}]                          \* the task of a user, or the sweep
Task == [state : {"running", "done"}, copy : Copy]

Flying(c)     == flight[c].at # "none"
At(c, where)  == flight[c].at = where
OnTime(c, where) == At(c, where) /\ ~flight[c].late
Hit(c)        == <<flight[c].copy, c>>
Source115(c)  == InfoHash(flight[c].gid)
HasRow(c)     == Flying(c) /\ ~At(c, "named")   \* a named row is not created yet
Late(c)       == Flying(c) /\ flight[c].late
Of(k)         == {f \in File : f[1] = k}

\* What 115 holds when the task of the torrent is deleted with its files.
Without(h) == IF offline[h] = NoTask THEN remote ELSE remote \ Of(offline[h].copy)

----------------------------------------------------------------------------
(* Requests.                                                               *)

Waits(p) == asked[p] \in Content

\* A hit of the cache.  The second look, under the mutex of the flights, does
\* not touch the artifact.
Serve(p, c) ==
  /\ asked[p] = NotYet /\ cache[c] # NoFile
  /\ asked' = [asked EXCEPT ![p] = Over]
  /\ TouchAsset(c) \/ UNCHANGED <<jobs, catalog>>
  /\ UNCHANGED <<flight, cache, scans, sweep, polling, cloud, stray>>

\* startResolution: join the flight of the content or start it.
Ask(p, c) ==
  /\ asked[p] = NotYet /\ cache[c] = NoFile
  /\ asked' = [asked EXCEPT ![p] = c]
  /\ flight' = IF Flying(c) THEN flight
               ELSE [flight EXCEPT ![c] =
                       [at |-> "lookup", rows |-> {}, todo |-> {}, gid |-> NoGid,
                        copy |-> NoCopy, artifact |-> Null, late |-> FALSE, rebuilt |-> FALSE]]
  /\ UNCHANGED <<jobs, catalog, cache, scans, sweep, polling, cloud, stray>>

\* The client is gone before the answer: only its wait ends.
Leave(p) ==
  /\ Waits(p)
  /\ asked' = [asked EXCEPT ![p] = Over]
  /\ UNCHANGED <<jobs, catalog, flight, cache, scans, sweep, polling, cloud, stray>>

\* The entry of a content has outlived the sliding TTL.
Uncache(c) ==
  /\ cache[c] # NoFile
  /\ cache' = [cache EXCEPT ![c] = NoFile]
  /\ UNCHANGED <<jobs, catalog, flight, asked, scans, sweep, polling, cloud, stray>>

----------------------------------------------------------------------------
(* Flights.                                                                *)

Becomes(c, f) == flight' = [flight EXCEPT ![c] = f] /\ UNCHANGED <<cache, asked>>
Moves(c, where) == Becomes(c, [flight[c] EXCEPT !.at = where])

\* Faulty variant of Conclude: an early return skips the close.
ConcludeSilently(c) ==
  /\ flight' = [flight EXCEPT ![c] = NoFlight]
  /\ UNCHANGED asked

\* The result is published, the channel closed and the flight unregistered in
\* one critical section: whoever waits has the answer.
Conclude(c) ==
  /\ flight' = [flight EXCEPT ![c] = NoFlight]
  /\ asked' = [p \in Request |-> IF asked[p] = c THEN Over ELSE asked[p]]

Deadline(c) ==
  /\ Flying(c) /\ ~flight[c].late
  /\ Becomes(c, [flight[c] EXCEPT !.late = TRUE])
  /\ UNCHANGED <<jobs, catalog, scans, sweep, polling, cloud, stray>>

\* Faulty variant of GiveUp: the steps do not look at the deadline.
GiveUpAtEnd(c) ==
  /\ OnTime(c, "restore") /\ flight[c].todo = {}
  /\ Conclude(c)
  /\ UNCHANGED <<jobs, catalog, cache, scans, sweep, polling, cloud, stray>>

\* The deadline ends a step, or there is no torrent left to try.
GiveUp(c) ==
  /\ \/ flight[c].at \in {"lookup", "check", "restore", "named", "save", "touch"} /\ Late(c)
     \/ OnTime(c, "restore") /\ flight[c].todo = {}
  /\ Conclude(c)
  /\ UNCHANGED <<jobs, catalog, cache, scans, sweep, polling, cloud, stray>>

\* AssetBySHA1.
Lookup(c) ==
  /\ OnTime(c, "lookup")
  /\ Becomes(c, [flight[c] EXCEPT
       !.at = "check", !.todo = Sources(c),
       !.rows = {[file |-> f, id |-> location[f].id] : f \in Visible(c)}])
  /\ UNCHANGED <<jobs, catalog, scans, sweep, polling, cloud, stray>>

\* findExisting: a file that is gone is marked by the id that was read.
CheckGone(c) ==
  \E r \in flight[c].rows :
    /\ r.file \notin remote
    /\ MarkLocationDeleted(r.id)
    /\ Becomes(c, [flight[c] EXCEPT !.rows = @ \ {r}])
    /\ UNCHANGED <<scans, sweep, polling, cloud, stray>>

CheckFound(c) ==
  \E r \in flight[c].rows :
    /\ r.file \in remote
    /\ Becomes(c, [flight[c] EXCEPT !.at = "save", !.copy = r.file[1], !.rows = {}])
    /\ UNCHANGED <<jobs, catalog, scans, sweep, polling, cloud, stray>>

CheckNone(c) ==
  /\ flight[c].rows = {}
  /\ Moves(c, "restore")
  /\ UNCHANGED <<jobs, catalog, scans, sweep, polling, cloud, stray>>

Check(c) == OnTime(c, "check") /\ (CheckGone(c) \/ CheckFound(c) \/ CheckNone(c))

\* The torrent is given up: the next one is tried.
NextSource(c, h) ==
  [flight[c] EXCEPT !.at = "restore", !.todo = @ \ {h}, !.gid = NoGid, !.copy = NoCopy,
                    !.artifact = Null, !.rebuilt = FALSE]

\* offlineContentRestorer: the default gid or, if a row has it, a new one.
NameRow(c) ==
  /\ OnTime(c, "restore")
  /\ \E g \in Gid :
       /\ InfoHash(g) \in flight[c].todo
       /\ g = DefaultGid(InfoHash(g)) <=> ~Exists(DefaultGid(InfoHash(g)))
       /\ Becomes(c, [flight[c] EXCEPT !.at = "named", !.gid = g])
  /\ UNCHANGED <<jobs, catalog, scans, sweep, polling, cloud, stray>>

CreateRow(c) ==
  /\ OnTime(c, "named")
  /\ CreateJob(flight[c].gid, Restore)
  /\ Moves(c, "created")
  /\ stray' = stray \ {flight[c].gid}
  /\ UNCHANGED <<catalog, scans, sweep, polling, cloud>>

\* The gid has been taken since, or the torrent has an active row of the restorer.
RowRefused(c) ==
  /\ OnTime(c, "named") /\ CreateRefused(flight[c].gid, Restore)
  /\ Becomes(c, NextSource(c, Source115(c)))
  /\ UNCHANGED <<jobs, catalog, scans, sweep, polling, cloud, stray>>

\* RunJobWithResolver: the row becomes running.
Run(c) ==
  /\ OnTime(c, "created")
  /\ IF UpdateOutcome(flight[c].gid, "running") = "ok"
     THEN UpdateJob(flight[c].gid, "running") /\ Moves(c, "submit")
     ELSE UNCHANGED jobs /\ Becomes(c, NextSource(c, Source115(c)))
  /\ UNCHANGED <<catalog, scans, sweep, polling, cloud, stray>>

\* It cannot be written after the deadline; the row stays as it was created.
RunLate(c) ==
  /\ At(c, "created") /\ flight[c].late
  /\ stray' = stray \cup {flight[c].gid}
  /\ Conclude(c)
  /\ UNCHANGED <<jobs, catalog, cache, scans, sweep, polling, cloud>>

\* The 115 task is created; 115 refuses a second one of the torrent.
Submit(c) ==
  LET h == Source115(c) IN
  /\ OnTime(c, "submit") \/ OnTime(c, "resubmit")
  /\ offline[h] = NoTask /\ made[h] < MaxCopy
  /\ made' = [made EXCEPT ![h] = @ + 1]
  /\ offline' = [offline EXCEPT ![h] = [state |-> "running", copy |-> <<h, made[h] + 1>>]]
  /\ Moves(c, "wait")
  /\ UNCHANGED <<jobs, catalog, scans, sweep, polling, remote, stray>>

\* replaceConflictingOfflineTask: the task that exists is looked up under fetchMu,
\* a mutex that asks for no context: the deadline does not end the wait for it.
Conflict(c) ==
  /\ OnTime(c, "submit") /\ offline[Source115(c)] # NoTask
  /\ Moves(c, "conflict")
  /\ UNCHANGED <<jobs, catalog, scans, sweep, polling, cloud, stray>>

FetchMuFree == ~polling /\ \A c \in Content : ~At(c, "fetch")

LockFetch(c) ==
  /\ At(c, "conflict") /\ FetchMuFree
  /\ Moves(c, "fetch")
  /\ UNCHANGED <<jobs, catalog, scans, sweep, polling, cloud, stray>>

\* The list has been read, or 115 has refused it.
Fetched(c) ==
  /\ OnTime(c, "fetch")
  /\ Moves(c, "replace")
  /\ UNCHANGED <<jobs, catalog, scans, sweep, polling, cloud, stray>>

\* The old task is deleted by its torrent, with its files unless it could not be
\* read or its folder is deleted already; a new one is created afterwards.
Replace(c) ==
  LET h == Source115(c) IN
  /\ OnTime(c, "replace") \/ OnTime(c, "drop")
  /\ remote' \in {remote} \cup (IF At(c, "drop") THEN {} ELSE {Without(h)})
  /\ offline' = [offline EXCEPT ![h] = NoTask]
  /\ Becomes(c, [flight[c] EXCEPT !.at = "resubmit", !.copy = NoCopy])
  /\ UNCHANGED <<jobs, catalog, scans, sweep, polling, made, stray>>

\* waitForTask saves the task when its status changes, and ends when it is done.
\* The task is found by the torrent, whoever created it.
Track(c) ==
  LET h == Source115(c) IN
  /\ OnTime(c, "wait") /\ offline[h].state = "running" /\ MadeBy(flight[c].gid) = {}
  /\ SaveTask(flight[c].gid, NoCopy, NoCopy)
  /\ UNCHANGED <<memory, cloud, stray>>

Arrive(c) ==
  LET h == Source115(c) IN
  /\ OnTime(c, "wait") /\ offline[h].state = "done"
  /\ SaveTask(flight[c].gid, offline[h].copy, offline[h].copy)
  /\ Becomes(c, [flight[c] EXCEPT !.at = "scan", !.copy = offline[h].copy])
  /\ UNCHANGED <<scans, sweep, polling, cloud, stray>>

\* The scan meets the file: the flight goes on, the scan too.
Found(c) ==
  /\ OnTime(c, "scan") /\ Hit(c) \in remote
  /\ scans' = scans \cup {[gid |-> flight[c].gid, copy |-> flight[c].copy, saved |-> FALSE]}
  /\ Moves(c, "succeed")
  /\ UNCHANGED <<jobs, catalog, sweep, polling, cloud, stray>>

\* deleteOfflineTaskForRebuild, once: the folder of the row's artifact is deleted,
\* the artifact marked by the id that was read and the task deleted; where the row
\* names no folder or one of the first two fails, the task goes with its files.
Rebuild(c) ==
  /\ OnTime(c, "scan") /\ Hit(c) \notin remote /\ ~flight[c].rebuilt
  /\ \/ \E a \in MadeBy(flight[c].gid) :
          /\ artifact[a].source # NoCopy
          /\ remote' = remote \ Of(artifact[a].source)
          /\ Becomes(c, [flight[c] EXCEPT !.at = "mark", !.artifact = a, !.rebuilt = TRUE])
     \/ /\ UNCHANGED remote
        /\ Becomes(c, [flight[c] EXCEPT !.at = "replace", !.rebuilt = TRUE])
  /\ UNCHANGED <<jobs, catalog, scans, sweep, polling, offline, made, stray>>

RebuildMark(c) ==
  /\ OnTime(c, "mark")
  /\ \/ MarkArtifactDeleted(flight[c].artifact) /\ Moves(c, "drop")
     \/ UNCHANGED <<jobs, catalog>> /\ Moves(c, "replace")
  /\ UNCHANGED <<scans, sweep, polling, cloud, stray>>

\* Where a run calls 115 or the store with the context of the request, and where an
\* error ends it.
OnCloud == {"submit", "replace", "resubmit", "wait", "scan", "mark", "drop"}

\* The run fails by the deadline, a conflict after the old task was deleted, a
\* second missing result or a row that is gone.
Stumble(c) ==
  /\ \/ flight[c].at \in OnCloud \cup {"fetch"} /\ flight[c].late
     \/ OnTime(c, "resubmit") /\ offline[Source115(c)] # NoTask
     \/ OnTime(c, "wait") /\ offline[Source115(c)].state = "done" /\ ~Exists(flight[c].gid)
     \/ OnTime(c, "scan") /\ Hit(c) \notin remote /\ flight[c].rebuilt
  /\ Moves(c, "fail")
  /\ UNCHANGED <<jobs, catalog, scans, sweep, polling, cloud, stray>>

\* An error of 115 or of the store.
Trouble(c) ==
  /\ \/ At(c, "check") /\ Conclude(c) /\ UNCHANGED cache
     \/ At(c, "named") /\ Becomes(c, NextSource(c, Source115(c)))
     \/ flight[c].at \in OnCloud /\ Moves(c, "fail")
  /\ UNCHANGED <<jobs, catalog, scans, sweep, polling, cloud, stray>>

\* Faulty variant of Written: with the deadline, as the caller of the run has it.
WrittenInTime(g, st) ==
  IF \E c \in Content : Flying(c) /\ flight[c].gid = g /\ flight[c].late THEN UNCHANGED jobs
  ELSE IF UpdateOutcome(g, st) = "ok" THEN UpdateJob(g, st) ELSE UNCHANGED jobs

\* The result of the run is written without the deadline.
Written(g, st) == IF UpdateOutcome(g, st) = "ok" THEN UpdateJob(g, st) ELSE UNCHANGED jobs

\* The torrent has failed: the next one, unless the time is over.
Abandon(c) == IF flight[c].late THEN Conclude(c) /\ UNCHANGED cache
              ELSE Becomes(c, NextSource(c, Source115(c)))

Fail(c) ==
  /\ At(c, "fail")
  /\ Written(flight[c].gid, "failed")
  /\ Abandon(c)
  /\ UNCHANGED <<catalog, scans, sweep, polling, cloud, stray>>

Succeed(c) ==
  LET g == flight[c].gid IN
  /\ At(c, "succeed")
  /\ Written(g, "succeeded")
  /\ IF UpdateOutcome(g, "succeeded") = "ok" THEN Moves(c, "save")
     ELSE Abandon(c)
  /\ UNCHANGED <<catalog, scans, sweep, polling, cloud, stray>>

\* A write of the row is refused by the store: the error ends the run like any other
\* and the row stays as it is.
Unwritten(c) ==
  /\ flight[c].at \in {"created", "succeed", "fail"}
  /\ stray' = stray \cup {flight[c].gid}
  /\ Abandon(c)
  /\ UNCHANGED <<jobs, catalog, scans, sweep, polling, cloud>>

Save(c) ==
  /\ OnTime(c, "save")
  /\ IF flight[c].gid = NoGid THEN SaveFound(Hit(c)) ELSE SaveRestored(Hit(c), Torrent(Hit(c)))
  /\ Moves(c, "touch")
  /\ UNCHANGED <<scans, sweep, polling, cloud, stray>>

\* TouchAsset and cacheResolution; then the answer.
Answer(c) ==
  /\ OnTime(c, "touch")
  /\ TouchAsset(c)
  /\ cache' = [cache EXCEPT ![c] = Hit(c)]
  /\ Conclude(c)
  /\ UNCHANGED <<scans, sweep, polling, cloud, stray>>

FlightStep(c) ==
  \/ GiveUp(c) \/ Lookup(c) \/ Check(c) \/ NameRow(c) \/ CreateRow(c) \/ RowRefused(c) \/ Run(c)
  \/ RunLate(c) \/ Submit(c) \/ Conflict(c) \/ LockFetch(c) \/ Fetched(c) \/ Replace(c) \/ Track(c)
  \/ Arrive(c) \/ Found(c) \/ Rebuild(c) \/ RebuildMark(c) \/ Stumble(c) \/ Fail(c) \/ Succeed(c)
  \/ Save(c) \/ Answer(c)

----------------------------------------------------------------------------
(* What goes on beside the flights.                                        *)

\* finishBackgroundScan and finishScan: the files that were listed, which may be
\* gone by now, are saved; the row may be gone too.
EndScan(s) ==
  /\ s \in scans /\ ~s.saved
  /\ \E S \in {Of(s.copy), Of(s.copy) \cap remote} \ {{}} : SaveScan(s.gid, s.copy, s.copy, S)
  /\ scans' = (scans \ {s}) \cup {[s EXCEPT !.saved = TRUE]}
  /\ UNCHANGED <<flight, cache, asked, sweep, polling, cloud, stray>>

\* Then the 115 task of the torrent is deleted, whoever created it.
ClearTask(s) ==
  /\ s \in scans /\ s.saved
  /\ offline' = [offline EXCEPT ![InfoHash(s.gid)] = NoTask]
  /\ scans' = scans \ {s}
  /\ UNCHANGED <<jobs, catalog, flight, cache, asked, sweep, polling, remote, made, stray>>

\* An error of 115, no file listed, no row, or the end of BackgroundTimeout.
DropScan(s) ==
  /\ s \in scans
  /\ scans' = scans \ {s}
  /\ UNCHANGED <<jobs, catalog, flight, cache, asked, sweep, polling, cloud, stray>>

\* offlineTaskManager.poll and the look-ups of other jobs hold fetchMu while 115
\* answers; the poller's call has no deadline.
Poll ==
  /\ FetchMuFree
  /\ polling' = TRUE
  /\ UNCHANGED <<jobs, catalog, flight, cache, asked, scans, sweep, cloud, stray>>

PollEnds ==
  /\ polling
  /\ polling' = FALSE
  /\ UNCHANGED <<jobs, catalog, flight, cache, asked, scans, sweep, cloud, stray>>

\* The folders of these artifacts are to be deleted, one after the other.
ToSweep(A, g) == {[artifact |-> a, copy |-> artifact[a].source, gone |-> FALSE, by |-> g] :
                    a \in {b \in A : artifact[b].source # NoCopy}}

\* Cleanup reads the artifacts to delete: those nobody has used for the retention
\* or, when the cache is too large, all.
SweepStart ==
  /\ \A i \in sweep : i.by # NoGid
  /\ \E A \in {CacheArtifacts, {location[f].artifact : f \in ExpiredLocations}} :
       sweep' = sweep \cup ToSweep(A, NoGid)
  /\ UNCHANGED <<jobs, catalog, flight, cache, asked, scans, polling, cloud, stray>>

\* DeleteCompletedTaskFiles: a user deletes a finished row with its files; the row
\* goes later, by Remove.
DeleteFiles(g) ==
  /\ Exists(g) /\ State(g) = "succeeded"
  /\ sweep' = sweep \cup ToSweep(MadeBy(g), g)
  /\ UNCHANGED <<jobs, catalog, flight, cache, asked, scans, polling, cloud, stray>>

\* deleteTaskSource, or the deletion of the result folder; then the mark, by the
\* id that was read.
SweepDelete(i) ==
  /\ i \in sweep /\ \A k \in sweep : k.gone => k.by # i.by
  /\ remote' = remote \ Of(i.copy)
  /\ sweep' = (sweep \ {i}) \cup {[i EXCEPT !.gone = TRUE]}
  /\ UNCHANGED <<jobs, catalog, flight, cache, asked, scans, polling, offline, made, stray>>

\* Faulty variant of SweepMark: the locations of the artifact stay.
SweepMarkAlone(i) ==
  /\ i \in sweep /\ i.gone
  /\ artifact' = [artifact EXCEPT ![i.artifact] = NoArtifact]
  /\ sweep' = sweep \ {i}
  /\ UNCHANGED <<jobs, location, listed, flight, cache, asked, scans, polling, cloud, stray>>

SweepMark(i) ==
  /\ i \in sweep /\ i.gone
  /\ MarkArtifactDeleted(i.artifact)
  /\ sweep' = sweep \ {i}
  /\ UNCHANGED <<flight, cache, asked, scans, polling, cloud, stray>>

\* An error, or the cache has become small enough.
SweepSkip(i) ==
  /\ i \in sweep
  /\ sweep' = sweep \ {i}
  /\ UNCHANGED <<jobs, catalog, flight, cache, asked, scans, polling, cloud, stray>>

\* Manager.cancel and CleanupTimedOutTask delete the 115 task of a torrent, whoever
\* waits for it; the files too if they are told to.
TaskDeleted(h) ==
  /\ offline[h] # NoTask
  /\ offline' = [offline EXCEPT ![h] = NoTask]
  /\ remote' \in {remote, Without(h)}
  /\ UNCHANGED <<jobs, catalog, memory, made, stray>>

\* Users cancel and delete rows; Cancel and Delete do not ask who runs a row.
Cancel(g) ==
  /\ CancelJob(g)
  /\ UNCHANGED <<catalog, memory, cloud, stray>>

Remove(g) ==
  /\ DeleteRow(g)
  /\ stray' = stray \ {g}
  /\ UNCHANGED <<memory, cloud>>

Unused(a) ==
  /\ Age(a)
  /\ UNCHANGED <<memory, cloud, stray>>

\* 115 finishes a task; files are deleted there by hand.
Complete(h) ==
  /\ offline[h].state = "running"
  /\ offline' = [offline EXCEPT ![h].state = "done"]
  /\ remote' = remote \cup Of(offline[h].copy)
  /\ UNCHANGED <<jobs, catalog, memory, made, stray>>

Vanish(f) ==
  /\ f \in remote
  /\ remote' = remote \ {f}
  /\ UNCHANGED <<jobs, catalog, memory, offline, made, stray>>

\* The process ends and starts again: only the rows of Resumed are recovered.
Restart ==
  /\ RecoverRunningJobs(Resumed)
  /\ flight' = [c \in Content |-> NoFlight] /\ cache' = [c \in Content |-> NoFile]
  /\ asked' = [p \in Request |-> IF Waits(p) THEN Over ELSE asked[p]] /\ scans' = {} /\ sweep' = {}
  /\ polling' = FALSE
  /\ stray' = stray \cup (Gid \cap {flight[c].gid : c \in {d \in Content : HasRow(d)}})
  /\ UNCHANGED <<catalog, cloud>>

----------------------------------------------------------------------------
\* A library: torrents that were downloaded and scanned, by rows deleted since.
PlayInit ==
  /\ Init
  /\ MaxCopy > 0 /\ listed = [h \in Hash |-> Content]
  /\ artifact = [a \in ArtifactId |-> NoArtifact]
  /\ location = [f \in File |-> NoRow]
  /\ flight = [c \in Content |-> NoFlight] /\ cache = [c \in Content |-> NoFile]
  /\ asked = [p \in Request |-> NotYet] /\ scans = {} /\ sweep = {} /\ stray = {}
  /\ polling = FALSE
  /\ remote = {} /\ offline = [h \in Hash |-> NoTask] /\ made = [h \in Hash |-> 0]

\* What the program does when it is asked, and 115 with it.
Proceed ==
  \/ \E p \in Request, c \in Content : Serve(p, c) \/ Ask(p, c)
  \/ \E c \in Content : FlightStep(c)
  \/ \E s \in scans : EndScan(s) \/ ClearTask(s)
  \/ \E i \in sweep : SweepDelete(i) \/ SweepMark(i) \/ SweepSkip(i)
  \/ Poll \/ PollEnds
  \/ \E h \in Hash : Complete(h)

\* What comes in between.
Interfere ==
  \/ \E p \in Request : Leave(p)
  \/ \E c \in Content : Uncache(c) \/ Trouble(c) \/ Unwritten(c) \/ Deadline(c)
  \/ \E s \in scans : DropScan(s)
  \/ SweepStart
  \/ \E g \in Gid : Cancel(g) \/ Remove(g) \/ DeleteFiles(g)
  \/ \E h \in Hash : TaskDeleted(h)
  \/ \E a \in ArtifactId : Unused(a)
  \/ \E f \in File : Vanish(f)
  \/ Restart

PlayNext == Proceed \/ Interfere

PlaySpec == PlayInit /\ [][PlayNext]_playVars

\* The deadline of a flight comes, and its goroutine runs when it has come: until then
\* the flight may hang in any of its calls.  Only the wait for fetchMu outlasts the
\* deadline.  The mutex passes to whoever has waited longest, so a flight that finds it
\* free again and again gets it; and it comes free because 115 answers the poller some
\* day, which nothing in the code enforces: its call has no deadline.  The client of
\* 115 has locks that ask for no context either; TokenLease shows when its calls end.
PlayFairSpec ==
  /\ PlaySpec /\ WF_playVars(PollEnds)
  /\ \A c \in Content : /\ WF_playVars(Late(c) /\ FlightStep(c)) /\ WF_playVars(Deadline(c))
                        /\ SF_playVars(LockFetch(c))

----------------------------------------------------------------------------
(* Properties.                                                             *)

\* The tables are well-formed and so is the memory of the process.
PlayTypeOK ==
  /\ CatTypeOK
  /\ flight \in [Content -> Flight \cup {NoFlight}]
  /\ \A c \in Content : cache[c] \in {NoFile} \cup {f \in File : ContentOf(f) = c}
  /\ asked \in [Request -> Content \cup {NotYet, Over}]
  /\ scans \subseteq Scan /\ sweep \subseteq Item /\ polling \in BOOLEAN /\ stray \subseteq Gid
  /\ remote \subseteq File /\ offline \in [Hash -> Task \cup {NoTask}]
  /\ made \in [Hash -> 0..MaxCopy]

\* A row of the restorer that is queued or running has a flight that runs it and
\* will write its end, whatever fails on the way and whoever cancels or deletes rows
\* meanwhile, unless its run was cut off by a restart, by a deadline before it began
\* or by a write of the row that the store refused.  Only these block the torrent:
\* the unique index refuses every restore of it until somebody deletes the row.
RestoreRowsAreRun ==
  \A g \in Gid : Owned(g, Restore) /\ State(g) \in Active /\ g \notin stray
    => \E c \in Content : HasRow(c) /\ flight[c].gid = g

\* Whoever waits for a content waits for a flight that exists: no client is left
\* behind by a flight that ends in any of its ways, and none joins one that has.
WaitersHaveFlight == \A p \in Request : Waits(p) => Flying(asked[p])

\* What one process does to the tables, flights, scans, sweep and users together,
\* are statements of the catalog.
ImplementsCatalog == [][CatNext]_catVars

\* Every request is answered, with a file or an error, although a flight may hang in
\* any call until its deadline and whatever the other flights do to its task.  The
\* deadline is enough but for the wait for fetchMu, which ends only if 115 answers
\* whoever holds it.
RequestsAreAnswered == \A p \in Request : Waits(p) ~> ~Waits(p)
=============================================================================
