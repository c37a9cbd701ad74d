---------------------------- MODULE PlaybackProofs ----------------------------
(***************************************************************************)
(* Playback implements the catalog, and what it promises holds for any     *)
(* number of contents, torrents and requests.                              *)
(*                                                                         *)
(* The argument: the memory of the process is well-formed (MemoryOK); then *)
(* every step changes the tables by one statement of the catalog or leaves *)
(* them alone, so what CatalogProofs shows of any sequence of statements   *)
(* holds here.  A row of the restorer belongs to a flight that works on it *)
(* (RowsHaveWorker) because a flight lets go of a row only when the row is *)
(* no longer active, and that is where the unique index is needed.         *)
(***************************************************************************)
EXTENDS Playback, CatalogProofs

Working == {"created", "submit", "conflict", "fetch", "replace", "resubmit", "wait", "scan",
            "mark", "drop", "succeed", "fail"}

\* A flight knows its row while it works on it and its folder once it is there.
Fit(f) ==
  \/ f = NoFlight
  \/ /\ f \in Flight
     /\ f.at \in {"lookup", "check", "restore"} => f.gid = NoGid
     /\ f.at \in Working \cup {"named"} => f.gid \in Gid
     /\ f.at = "mark" => f.artifact \in ArtifactId
     /\ f.at \in {"scan", "succeed", "save", "touch"} => f.copy \in Copy
     /\ f.at \in {"scan", "succeed"} => f.copy[1] = InfoHash(f.gid)

FlightsOK ==
  /\ flight \in [Content -> Flight \cup {NoFlight}]
  /\ \A c \in Content : Fit(flight[c])

CloudOK ==
  /\ remote \subseteq File /\ made \in [Hash -> 0..MaxCopy]
  /\ offline \in [Hash -> Task \cup {NoTask}]
  /\ \A h \in Hash : offline[h] # NoTask => offline[h].copy[1] = h

RestOK ==
  /\ \A c \in Content : cache[c] \in {NoFile} \cup {f \in File : ContentOf(f) = c}
  /\ asked \in [Request -> Content \cup {NotYet, Over}]
  /\ scans \subseteq {s \in Scan : s.copy[1] = InfoHash(s.gid)}
  /\ sweep \subseteq Item /\ polling \in BOOLEAN /\ stray \subseteq Gid

MemoryOK == FlightsOK /\ CloudOK /\ RestOK

LEMMA MemoryMeans == CatTypeOK /\ MemoryOK => PlayTypeOK
BY DEF MemoryOK, FlightsOK, CloudOK, RestOK, PlayTypeOK

----------------------------------------------------------------------------
(* Every step is a statement of the catalog.                               *)

\* A flight at a place that has a name is a well-formed flight.
LEMMA FlightAt ==
  ASSUME FlightsOK, NEW c \in Content, flight[c].at # "none"
  PROVE  flight[c] \in Flight /\ Fit(flight[c])
BY DEF FlightsOK, NoFlight

LEMMA RowKept ==
  ASSUME TypeOK, NEW g \in Gid, NEW st \in JobState, UpdateJob(g, st)
  PROVE  Next /\ (\A k \in Gid : Exists(k) => Exists(k)')
<1>1. jobs[g] \in Job /\ jobs' = [jobs EXCEPT ![g] = [jobs[g] EXCEPT !.state = st]]
  BY DEF UpdateJob, UpdateOutcome, TypeOK, Exists, NoJob
<1>2. [jobs[g] EXCEPT !.state = st].state # "none"
  BY <1>1 DEF Job, JobState
<1> QED BY <1>1, <1>2 DEF Next, TypeOK, Exists

\* A statement on the tasks table alone that keeps its rows is one of the catalog.
LEMMA TableStatement ==
  ASSUME Next, \A k \in Gid : Exists(k) => Exists(k)', UNCHANGED catalog
  PROVE  CatNext
BY DEF CatNext

LEMMA WrittenIsStatement ==
  ASSUME TypeOK, NEW g \in Gid, NEW st \in JobState, Written(g, st), UNCHANGED catalog
  PROVE  CatNext \/ UNCHANGED catVars
BY RowKept, TableStatement DEF Written, catVars, catalog

LEMMA CreatedIsStatement ==
  ASSUME TypeOK, NEW g \in Gid, CreateJob(g, Restore), UNCHANGED catalog
  PROVE  CatNext
<1>1. Next
  BY PlaybackAssumption DEF Next
<1>2. \A k \in Gid : Exists(k) => Exists(k)'
  BY DEF CreateJob, CreateRefused, TypeOK, Exists
<1> QED BY <1>1, <1>2, TableStatement

LEMMA CanceledIsStatement ==
  ASSUME TypeOK, NEW g \in Gid, CancelJob(g), UNCHANGED catalog
  PROVE  CatNext
<1>1. jobs[g] \in Job /\ jobs' = [jobs EXCEPT ![g] = [jobs[g] EXCEPT !.state = "canceled"]]
  BY DEF CancelJob, Cancelable, State, TypeOK, NoJob
<1>2. [jobs[g] EXCEPT !.state = "canceled"].state # "none"
  BY <1>1 DEF Job
<1>3. \A k \in Gid : Exists(k) => Exists(k)'
  BY <1>1, <1>2 DEF TypeOK, Exists
<1> QED BY <1>3, TableStatement DEF Next

LEMMA RecoveredIsStatement ==
  ASSUME TypeOK, RecoverRunningJobs(Resumed), UNCHANGED catalog
  PROVE  CatNext
<1>1. \A k \in Gid : Exists(k) => Exists(k)'
  <2> SUFFICES ASSUME NEW k \in Gid, Exists(k) PROVE Exists(k)'
    OBVIOUS
  <2>1. jobs[k] \in Job
    BY DEF TypeOK, Exists, NoJob
  <2>2. [jobs[k] EXCEPT !.state = "queued"].state = "queued"
    BY <2>1 DEF Job
  <2> QED BY <2>2 DEF RecoverRunningJobs, Recovered, Exists
<1>2. Resumed \in SUBSET Source
  BY PlaybackAssumption
<1> QED BY <1>1, <1>2, TableStatement DEF Next

\* The statements a flight makes.
LEMMA FlightStatement ==
  ASSUME Sound, MemoryOK, NEW c \in Content, FlightStep(c)
  PROVE  CatNext \/ UNCHANGED catVars
<1> DEFINE f == flight[c]
<1>0. TypeOK /\ FlightsOK /\ CloudOK
  BY DEF Sound, MemoryOK
<1>a. f.at # "none" => f \in Flight /\ Fit(f)
  BY <1>0, FlightAt
<1>b. f.at \in Working \cup {"named"} => f.gid \in Gid /\ InfoHash(f.gid) \in Hash
  BY <1>a DEF Fit, NoFlight, Gid, InfoHash, Working
<1>c. \A k \in Copy : <<k, c>> \in File
  BY DEF File
<1>1. CASE \/ GiveUp(c) \/ Lookup(c) \/ NameRow(c) \/ RowRefused(c) \/ RunLate(c) \/ Submit(c)
           \/ Conflict(c) \/ LockFetch(c) \/ Fetched(c) \/ Replace(c) \/ Found(c) \/ Rebuild(c)
           \/ Stumble(c)
  BY <1>1 DEF GiveUp, Lookup, NameRow, RowRefused, RunLate, Submit, Conflict, LockFetch, Fetched,
              Replace, Found, Rebuild, Stumble, catVars, catalog
<1>2. CASE Check(c)
  <2>1. CASE CheckGone(c)
    <3>1. PICK r \in f.rows : MarkLocationDeleted(r.id)
      BY <2>1 DEF CheckGone
    <3>2. f \in Flight
      BY <1>2, <1>a DEF Check, OnTime, At
    <3>3. r.id \in 1..MaxRow
      BY <3>2 DEF Flight
    <3> QED BY <3>1, <3>3 DEF CatNext
  <2> QED BY <1>2, <2>1 DEF Check, CheckFound, CheckNone, catVars, catalog
<1>3. CASE CreateRow(c)
  <2>1. f.gid \in Gid
    BY <1>3, <1>b DEF CreateRow, OnTime, At
  <2> QED BY <1>0, <1>3, <2>1, CreatedIsStatement DEF CreateRow
<1>4. CASE Run(c)
  <2>1. f.gid \in Gid
    BY <1>4, <1>b DEF Run, OnTime, At, Working
  <2>2. CASE UpdateJob(f.gid, "running") /\ UNCHANGED catalog
    BY <1>0, <2>1, <2>2, RowKept, TableStatement DEF JobState
  <2> QED BY <1>4, <2>2 DEF Run, catVars, catalog
<1>5. CASE Track(c)
  <2>1. f.gid \in Gid /\ SaveTask(f.gid, NoCopy, NoCopy)
    BY <1>5, <1>b DEF Track, OnTime, At, Working
  <2>2. NoCopy \in Folders(InfoHash(f.gid))
    BY DEF Folders
  <2> QED BY <2>1, <2>2 DEF CatNext
<1>6. CASE Arrive(c)
  <2> DEFINE h == InfoHash(f.gid)
             k == offline[h].copy
  <2>1. f.gid \in Gid /\ h \in Hash /\ offline[h].state = "done" /\ SaveTask(f.gid, k, k)
    BY <1>6, <1>b DEF Arrive, Source115, OnTime, At, Working
  <2>2. k \in Copy /\ k[1] = h
    BY <1>0, <2>1 DEF CloudOK, Task, NoTask
  <2>3. k \in Folders(h)
    BY <2>2 DEF Copy, Folders
  <2> QED BY <2>1, <2>3 DEF CatNext
<1>7. CASE RebuildMark(c)
  <2>1. f.artifact \in ArtifactId
    BY <1>7, <1>a DEF RebuildMark, OnTime, At, Fit, NoFlight
  <2>2. CASE MarkArtifactDeleted(f.artifact)
    BY <2>1, <2>2 DEF CatNext
  <2> QED BY <1>7, <2>2 DEF RebuildMark, catVars, catalog
<1>8. CASE Fail(c)
  <2>1. f.gid \in Gid
    BY <1>8, <1>b DEF Fail, At, Working
  <2> QED BY <1>0, <1>8, <2>1, WrittenIsStatement DEF Fail, JobState
<1>9. CASE Succeed(c)
  <2>1. f.gid \in Gid
    BY <1>9, <1>b DEF Succeed, At, Working
  <2> QED BY <1>0, <1>9, <2>1, WrittenIsStatement DEF Succeed, JobState
<1>10. CASE Save(c)
  <2>1. f.copy \in Copy
    BY <1>10, <1>a DEF Save, OnTime, At, Fit, NoFlight
  <2>2. Hit(c) \in File
    BY <1>c, <2>1 DEF Hit
  <2> QED BY <1>10, <2>2 DEF Save, CatNext
<1>11. CASE Answer(c)
  BY <1>11 DEF Answer, CatNext
<1> QED BY <1>1, <1>2, <1>3, <1>4, <1>5, <1>6, <1>7, <1>8, <1>9, <1>10, <1>11 DEF FlightStep

\* The statements of scans, sweeps and users, and of a restart.
LEMMA StepIsStatement ==
  ASSUME Sound, MemoryOK, [PlayNext]_playVars
  PROVE  CatNext \/ UNCHANGED catVars
<1>0. TypeOK /\ RestOK
  BY DEF Sound, MemoryOK
<1>1. ASSUME NEW p \in Request, NEW c \in Content, Serve(p, c) \/ Ask(p, c)
      PROVE  CatNext \/ UNCHANGED catVars
  BY <1>1 DEF Serve, Ask, CatNext, catVars, catalog
<1>2. ASSUME NEW s \in scans, EndScan(s) PROVE CatNext
  <2>1. s.gid \in Gid /\ s.copy \in Copy /\ s.copy[1] = InfoHash(s.gid)
    BY <1>0, <1>2 DEF RestOK, Scan
  <2>2. PICK n \in 1..MaxCopy : s.copy = <<InfoHash(s.gid), n>>
    BY <2>1 DEF Copy
  <2>3. PICK S \in {Of(s.copy), Of(s.copy) \cap remote} : SaveScan(s.gid, s.copy, s.copy, S)
    BY <1>2 DEF EndScan
  <2>4. S \in Scanned(s.copy)
    BY <2>3 DEF Scanned, Of
  <2>5. s.copy \in Folders(InfoHash(s.gid))
    BY <2>2 DEF Folders
  <2> QED BY <2>1, <2>2, <2>3, <2>4, <2>5 DEF CatNext
<1>3. ASSUME NEW i \in sweep, SweepMark(i) PROVE CatNext
  <2>1. i.artifact \in ArtifactId
    BY <1>0, <1>3 DEF RestOK, Item
  <2> QED BY <1>3, <2>1 DEF SweepMark, CatNext
<1>4. ASSUME NEW g \in Gid, Cancel(g) PROVE CatNext
  BY <1>0, <1>4, CanceledIsStatement DEF Cancel
<1>5. ASSUME NEW g \in Gid, Remove(g) PROVE CatNext
  BY <1>5 DEF Remove, CatNext
<1>6. ASSUME NEW a \in ArtifactId, Unused(a) PROVE CatNext
  BY <1>6 DEF Unused, CatNext
<1>7. CASE Restart
  BY <1>0, <1>7, RecoveredIsStatement DEF Restart
<1>8. CASE Proceed
  <2>1. CASE (\E s \in scans : ClearTask(s)) \/ (\E i \in sweep : SweepDelete(i) \/ SweepSkip(i))
             \/ (\E h \in Hash : Complete(h)) \/ Poll \/ PollEnds
    BY <2>1 DEF ClearTask, SweepDelete, SweepSkip, Complete, Poll, PollEnds, catVars, catalog
  <2> QED BY <1>1, <1>2, <1>3, <1>8, <2>1, FlightStatement DEF Proceed
<1>9. CASE Interfere
  <2>1. CASE \E p \in Request : Leave(p)
    BY <2>1 DEF Leave, catVars, catalog
  <2>2. CASE \E c \in Content : Uncache(c) \/ Trouble(c) \/ Unwritten(c) \/ Deadline(c)
    BY <2>2 DEF Uncache, Trouble, Unwritten, Deadline, catVars, catalog
  <2>3. CASE (\E s \in scans : DropScan(s)) \/ SweepStart \/ (\E g \in Gid : DeleteFiles(g))
    BY <2>3 DEF DropScan, SweepStart, DeleteFiles, catVars, catalog
  <2>4. CASE (\E h \in Hash : TaskDeleted(h)) \/ (\E x \in File : Vanish(x))
    BY <2>4 DEF TaskDeleted, Vanish, catVars, catalog
  <2> QED BY <1>4, <1>5, <1>6, <1>7, <1>9, <2>1, <2>2, <2>3, <2>4 DEF Interfere
<1> QED BY <1>8, <1>9 DEF PlayNext, playVars, catVars

----------------------------------------------------------------------------
(* The memory of the process stays well-formed.                            *)

\* All but the place where an artifact is to be marked, which a flight reaches in one
\* way only.
Places == {"lookup", "check", "restore", "named", "created", "submit", "conflict", "fetch",
           "replace", "resubmit", "wait", "scan", "drop", "succeed", "fail", "save", "touch"}

LEMMA FlightsKept ==
  ASSUME FlightsOK, NEW c \in Content, NEW f, Fit(f), flight' = [flight EXCEPT ![c] = f]
  PROVE  FlightsOK'
<1>1. f \in Flight \cup {NoFlight}
  BY DEF Fit
<1> QED BY <1>1 DEF FlightsOK

\* A flight that moves to a place whose conditions it meets.
LEMMA Moved ==
  ASSUME NEW f \in Flight, Fit(f), NEW w \in Places,
         w \in {"lookup", "check", "restore"} => f.gid = NoGid,
         w \in Working \cup {"named"} => f.gid \in Gid,
         w \in {"scan", "succeed", "save", "touch"} => f.copy \in Copy,
         w \in {"scan", "succeed"} => f.copy[1] = InfoHash(f.gid)
  PROVE  Fit([f EXCEPT !.at = w])
<1>1. [f EXCEPT !.at = w] \in Flight
  BY DEF Flight, Places
<1>a. w # "mark"
  BY DEF Places
<1>2. /\ [f EXCEPT !.at = w].at = w
      /\ [f EXCEPT !.at = w].gid = f.gid
      /\ [f EXCEPT !.at = w].copy = f.copy
  BY DEF Flight
<1> QED BY <1>1, <1>2, <1>a DEF Fit

LEMMA NextSourceFit ==
  ASSUME NEW c \in Content, flight[c] \in Flight, NEW h
  PROVE  Fit(NextSource(c, h))
<1> DEFINE f == NextSource(c, h)
<1>1. f \in Flight
  BY DEF NextSource, Flight, NoGid, NoCopy
<1>2. f.at = "restore" /\ f.gid = NoGid
  BY DEF NextSource, Flight
<1> QED BY <1>1, <1>2 DEF Fit, Working

LEMMA ConcludeFits ==
  ASSUME FlightsOK, NEW c \in Content, Conclude(c)
  PROVE  FlightsOK'
BY FlightsKept DEF Conclude, Fit

\* Joining, leaving and answering requests.
LEMMA ConcludeAsked ==
  ASSUME asked \in [Request -> Content \cup {NotYet, Over}], NEW c \in Content, Conclude(c)
  PROVE  asked' \in [Request -> Content \cup {NotYet, Over}]
BY DEF Conclude

LEMMA FlightMemory ==
  ASSUME Sound, MemoryOK, NEW c \in Content, FlightStep(c)
  PROVE  FlightsOK'
<1> DEFINE f == flight[c]
<1>0. FlightsOK /\ CloudOK /\ RestOK
  BY DEF MemoryOK
<1>a. f.at # "none" => f \in Flight /\ Fit(f)
  BY <1>0, FlightAt
<1>1. CASE GiveUp(c) \/ RunLate(c) \/ Answer(c)
  BY <1>0, <1>1, ConcludeFits DEF GiveUp, RunLate, Answer
<1>2. CASE Lookup(c)
  <2> DEFINE w == [f EXCEPT !.at = "check", !.todo = Sources(c),
                     !.rows = {[file |-> x, id |-> location[x].id] : x \in Visible(c)}]
  <2>1. f \in Flight /\ f.gid = NoGid
    BY <1>a, <1>2 DEF Lookup, OnTime, At, Fit, NoFlight
  <2>2. \A x \in Visible(c) : x \in File /\ location[x].id \in 1..MaxRow
    BY DEF Visible, Live, Sound, Consistent, Typed, Row, NoRow
  <2>3. Sources(c) \subseteq Hash
    BY DEF Sources
  <2>r. {[file |-> x, id |-> location[x].id] : x \in Visible(c)} \in SUBSET [file : File, id : 1..MaxRow]
    BY <2>2
  <2>4. w \in Flight
    BY <2>1, <2>r, <2>3 DEF Flight
  <2>5. w.at = "check" /\ w.gid = NoGid
    BY <2>1 DEF Flight
  <2>6. Fit(w)
    BY <2>4, <2>5 DEF Fit, Working
  <2> QED BY <1>0, <1>2, <2>6, FlightsKept DEF Lookup, Becomes
<1>3. CASE Check(c)
  <2>1. f \in Flight /\ f.gid = NoGid /\ f.at = "check"
    BY <1>a, <1>3 DEF Check, OnTime, At, Fit, NoFlight
  <2>2. CASE CheckGone(c)
    <3>1. PICK r \in f.rows : flight' = [flight EXCEPT ![c] = [flight[c] EXCEPT !.rows = @ \ {r}]]
      BY <2>2 DEF CheckGone, Becomes
    <3>2. Fit([flight[c] EXCEPT !.rows = @ \ {r}])
      <4>1. [flight[c] EXCEPT !.rows = @ \ {r}] \in Flight
        BY <2>1 DEF Flight
      <4>2. /\ [flight[c] EXCEPT !.rows = @ \ {r}].at = "check"
            /\ [flight[c] EXCEPT !.rows = @ \ {r}].gid = NoGid
        BY <2>1 DEF Flight
      <4> QED BY <4>1, <4>2 DEF Fit, Working
    <3> QED BY <1>0, <3>1, <3>2, FlightsKept
  <2>3. CASE CheckFound(c)
    <3>1. PICK r \in f.rows : flight' = [flight EXCEPT ![c] =
              [flight[c] EXCEPT !.at = "save", !.copy = r.file[1], !.rows = {}]]
      BY <2>3 DEF CheckFound, Becomes
    <3> DEFINE w == [flight[c] EXCEPT !.at = "save", !.copy = r.file[1], !.rows = {}]
    <3>2. r.file[1] \in Copy
      BY <2>1 DEF Flight, File
    <3>3. w \in Flight
      BY <2>1, <3>2 DEF Flight
    <3>4. w.at = "save" /\ w.copy = r.file[1]
      BY <2>1 DEF Flight
    <3>5. Fit(w)
      BY <3>2, <3>3, <3>4 DEF Fit, Working
    <3> QED BY <1>0, <3>1, <3>5, FlightsKept
  <2>4. CASE CheckNone(c)
    <3>1. Fit([f EXCEPT !.at = "restore"])
      BY <1>a, <2>1, Moved DEF Places, Working
    <3> QED BY <1>0, <2>4, <3>1, FlightsKept DEF CheckNone, Moves, Becomes
  <2> QED BY <1>3, <2>2, <2>3, <2>4 DEF Check
<1>4. CASE NameRow(c)
  <2>1. PICK g \in Gid : flight' = [flight EXCEPT ![c] = [f EXCEPT !.at = "named", !.gid = g]]
    BY <1>4 DEF NameRow, Becomes
  <2> DEFINE w == [f EXCEPT !.at = "named", !.gid = g]
  <2>2. f \in Flight
    BY <1>a, <1>4 DEF NameRow, OnTime, At
  <2>3. w \in Flight /\ w.at = "named" /\ w.gid = g
    BY <2>2 DEF Flight
  <2>4. Fit(w)
    BY <2>3 DEF Fit, Working
  <2> QED BY <1>0, <2>1, <2>4, FlightsKept
<1>6. ASSUME f.at \in Working \cup {"named"},
             NEW w \in {"created", "submit", "conflict", "fetch", "replace", "resubmit", "wait",
                        "drop", "fail"},
             Moves(c, w)
      PROVE  FlightsOK'
  <2>1. f \in Flight /\ Fit(f) /\ f.gid \in Gid
    BY <1>a, <1>6 DEF Working, Fit, NoFlight
  <2>2. Fit([f EXCEPT !.at = w])
    BY <1>6, <2>1, Moved DEF Places, Working
  <2> QED BY <1>0, <1>6, <2>2, FlightsKept DEF Moves, Becomes
<1>7. ASSUME f.at \in Working \cup {"named"}, NEW h, Becomes(c, NextSource(c, h)) PROVE FlightsOK'
  <2>1. Fit(NextSource(c, h))
    BY <1>a, <1>7, NextSourceFit DEF Working
  <2> QED BY <1>0, <1>7, <2>1, FlightsKept DEF Becomes
<1>b. ASSUME f.at \in Working, Abandon(c) PROVE FlightsOK'
  BY <1>0, <1>7, <1>b, ConcludeFits DEF Abandon
<1>5. CASE CreateRow(c) \/ RowRefused(c)
  BY <1>6, <1>7, <1>5 DEF CreateRow, RowRefused, OnTime, At
<1>8. CASE Run(c)
  BY <1>6, <1>7, <1>8 DEF Run, OnTime, At, Working
<1>9. CASE Submit(c) \/ Conflict(c) \/ LockFetch(c) \/ Fetched(c) \/ RebuildMark(c) \/ Stumble(c)
  BY <1>6, <1>9 DEF Submit, Conflict, LockFetch, Fetched, RebuildMark, Stumble, OnCloud, OnTime, At,
                    Working
<1>10. CASE Track(c)
  BY <1>0, <1>10 DEF Track, memory, FlightsOK
<1>11. CASE Arrive(c)
  <2> DEFINE h == InfoHash(f.gid)
             k == offline[h].copy
             w == [f EXCEPT !.at = "scan", !.copy = k]
  <2>1. f \in Flight /\ f.gid \in Gid
    BY <1>a, <1>11 DEF Arrive, OnTime, At, Fit, Working, NoFlight
  <2>2. h \in Hash /\ offline[h].state = "done"
    BY <1>11, <2>1 DEF Arrive, Source115, Gid, InfoHash
  <2>3. k \in Copy /\ k[1] = h
    BY <1>0, <2>2 DEF CloudOK, Task, NoTask
  <2>4. w \in Flight /\ w.at = "scan" /\ w.copy = k /\ w.gid = f.gid
    BY <2>1, <2>3 DEF Flight
  <2>5. Fit(w)
    BY <2>1, <2>3, <2>4 DEF Fit
  <2> QED BY <1>0, <1>11, <2>5, FlightsKept DEF Arrive, Becomes, Source115
<1>12. CASE Found(c)
  <2>1. f \in Flight /\ Fit(f) /\ f.at = "scan"
    BY <1>a, <1>12 DEF Found, OnTime, At
  <2>a. f.gid \in Gid /\ f.copy \in Copy /\ f.copy[1] = InfoHash(f.gid)
    BY <2>1 DEF Fit, Working, NoFlight
  <2>2. Fit([f EXCEPT !.at = "succeed"])
    BY <2>1, <2>a, Moved DEF Places, Working
  <2> QED BY <1>0, <1>12, <2>2, FlightsKept DEF Found, Moves, Becomes
<1>13. CASE Replace(c)
  <2> DEFINE w == [f EXCEPT !.at = "resubmit", !.copy = NoCopy]
  <2>1. f \in Flight /\ f.gid \in Gid
    BY <1>a, <1>13 DEF Replace, OnTime, At, Fit, Working, NoFlight
  <2>2. w \in Flight /\ w.at = "resubmit" /\ w.gid = f.gid
    BY <2>1 DEF Flight, NoCopy
  <2>3. Fit(w)
    BY <2>1, <2>2 DEF Fit
  <2> QED BY <1>0, <1>13, <2>3, FlightsKept DEF Replace, Becomes
<1>17. CASE Rebuild(c)
  <2>1. f \in Flight /\ f.gid \in Gid
    <3>1. f.at = "scan"
      BY <1>17 DEF Rebuild, OnTime, At
    <3> QED BY <1>a, <3>1 DEF Fit, Working, NoFlight
  <2>2. ASSUME NEW a \in ArtifactId,
               Becomes(c, [f EXCEPT !.at = "mark", !.artifact = a, !.rebuilt = TRUE])
        PROVE  FlightsOK'
    <3> DEFINE w == [f EXCEPT !.at = "mark", !.artifact = a, !.rebuilt = TRUE]
    <3>1. w \in Flight /\ w.at = "mark" /\ w.gid = f.gid /\ w.artifact = a
      BY <2>1 DEF Flight
    <3>2. Fit(w)
      BY <2>1, <3>1 DEF Fit
    <3> QED BY <1>0, <2>2, <3>2, FlightsKept DEF Becomes
  <2>3. CASE Becomes(c, [f EXCEPT !.at = "replace", !.rebuilt = TRUE])
    <3> DEFINE w == [f EXCEPT !.at = "replace", !.rebuilt = TRUE]
    <3>1. w \in Flight /\ w.at = "replace" /\ w.gid = f.gid
      BY <2>1 DEF Flight
    <3>2. Fit(w)
      BY <2>1, <3>1 DEF Fit
    <3> QED BY <1>0, <2>3, <3>2, FlightsKept DEF Becomes
  <2> QED BY <1>17, <2>2, <2>3 DEF Rebuild, MadeBy
<1>14. CASE Fail(c)
  BY <1>b, <1>14 DEF Fail, At, Working
<1>15. CASE Succeed(c)
  <2>1. f \in Flight /\ Fit(f) /\ f.at = "succeed"
    BY <1>a, <1>15 DEF Succeed, At
  <2>a. f.copy \in Copy
    BY <2>1 DEF Fit, NoFlight
  <2>2. Fit([f EXCEPT !.at = "save"])
    BY <2>1, <2>a, Moved DEF Places, Working
  <2>3. CASE Moves(c, "save")
    BY <1>0, <2>2, <2>3, FlightsKept DEF Moves, Becomes
  <2> QED BY <1>b, <1>15, <2>1, <2>3 DEF Succeed, Working
<1>16. CASE Save(c)
  <2>1. f \in Flight /\ Fit(f) /\ f.at = "save"
    BY <1>a, <1>16 DEF Save, OnTime, At
  <2>a. f.copy \in Copy
    BY <2>1 DEF Fit, NoFlight
  <2>2. Fit([f EXCEPT !.at = "touch"])
    BY <2>1, <2>a, Moved DEF Places, Working
  <2> QED BY <1>0, <1>16, <2>2, FlightsKept DEF Save, Moves, Becomes
<1> QED BY <1>1, <1>2, <1>3, <1>4, <1>5, <1>8, <1>9, <1>10, <1>11, <1>12, <1>13, <1>14, <1>15, <1>16,
           <1>17 DEF FlightStep

\* What 115 holds.
LEMMA CloudStep == MemoryOK /\ [PlayNext]_playVars => CloudOK'
<1> SUFFICES ASSUME MemoryOK, [PlayNext]_playVars PROVE CloudOK'
  OBVIOUS
<1>0. FlightsOK /\ CloudOK /\ RestOK
  BY DEF MemoryOK
<1>1. CASE UNCHANGED cloud
  BY <1>0, <1>1 DEF CloudOK, cloud
<1>a. ASSUME NEW c \in Content, flight[c].at \in Working
      PROVE  flight[c] \in Flight /\ Source115(c) \in Hash
  BY <1>0, <1>a, FlightAt DEF Working, Fit, NoFlight, Source115, Gid, InfoHash
<1>2. ASSUME NEW h \in Hash, offline' = [offline EXCEPT ![h] = NoTask], made' = made,
             remote' \subseteq remote
      PROVE  CloudOK'
  BY <1>0, <1>2 DEF CloudOK
<1>3. ASSUME NEW c \in Content, Submit(c) PROVE CloudOK'
  <2> DEFINE h == Source115(c)
             t == [state |-> "running", copy |-> <<h, made[h] + 1>>]
  <2>1. h \in Hash
    BY <1>3, <1>a DEF Submit, OnTime, At, Working
  <2>2. /\ made' = [made EXCEPT ![h] = made[h] + 1] /\ offline' = [offline EXCEPT ![h] = t]
        /\ remote' = remote /\ made[h] < MaxCopy
    BY <1>3 DEF Submit
  <2>3. made[h] + 1 \in 1..MaxCopy
    BY <1>0, <2>1, <2>2, CatalogAssumption DEF CloudOK
  <2>4. t \in Task /\ t.copy[1] = h
    BY <2>1, <2>3 DEF Task, Copy
  <2>5. made' \in [Hash -> 0..MaxCopy]
    BY <1>0, <2>1, <2>2, <2>3 DEF CloudOK
  <2>6. offline' \in [Hash -> Task \cup {NoTask}]
    BY <1>0, <2>2, <2>4 DEF CloudOK
  <2>7. \A k \in Hash : offline'[k] # NoTask => offline'[k].copy[1] = k
    BY <1>0, <2>2, <2>4 DEF CloudOK
  <2> QED BY <1>0, <2>2, <2>5, <2>6, <2>7 DEF CloudOK
<1>b. ASSUME NEW h \in Hash PROVE Without(h) \subseteq remote
  BY DEF Without
<1>4. ASSUME NEW c \in Content, Replace(c) PROVE CloudOK'
  <2>1. Source115(c) \in Hash
    BY <1>4, <1>a DEF Replace, OnTime, At, Working
  <2>2. remote' \subseteq remote
    BY <1>4, <1>b, <2>1 DEF Replace
  <2> QED BY <1>2, <1>4, <2>1, <2>2 DEF Replace
<1>13. ASSUME NEW c \in Content, Rebuild(c) PROVE CloudOK'
  BY <1>0, <1>13 DEF Rebuild, CloudOK
<1>5. ASSUME NEW c \in Content, FlightStep(c) PROVE CloudOK'
  BY <1>1, <1>3, <1>4, <1>5, <1>13
     DEF FlightStep, GiveUp, Lookup, Check, CheckGone, CheckFound, CheckNone, NameRow, CreateRow,
         RowRefused, Run, RunLate, Conflict, LockFetch, Fetched, Track, Arrive, Found, RebuildMark,
         Stumble, Fail, Succeed, Save, Answer
<1>6. ASSUME NEW s \in scans, ClearTask(s) PROVE CloudOK'
  <2>1. InfoHash(s.gid) \in Hash
    BY <1>0 DEF RestOK, Scan, Gid, InfoHash
  <2> QED BY <1>2, <1>6, <2>1 DEF ClearTask
<1>7. ASSUME NEW h \in Hash, Complete(h) PROVE CloudOK'
  <2> DEFINE t == [offline[h] EXCEPT !.state = "done"]
  <2>1. offline[h] \in Task /\ offline[h].copy[1] = h
    BY <1>0, <1>7 DEF Complete, CloudOK, NoTask
  <2>2. t \in Task /\ t.copy[1] = h
    BY <2>1 DEF Task
  <2>3. offline' = [offline EXCEPT ![h] = t] /\ UNCHANGED made
    BY <1>7 DEF Complete
  <2>4. remote' \subseteq File
    BY <1>0, <1>7 DEF Complete, CloudOK, Of
  <2>5. offline' \in [Hash -> Task \cup {NoTask}]
    BY <1>0, <2>2, <2>3 DEF CloudOK
  <2>6. \A k \in Hash : offline'[k] # NoTask => offline'[k].copy[1] = k
    BY <1>0, <2>2, <2>3 DEF CloudOK
  <2> QED BY <1>0, <2>3, <2>4, <2>5, <2>6 DEF CloudOK
<1>8. ASSUME NEW i \in sweep, SweepDelete(i) PROVE CloudOK'
  BY <1>0, <1>8 DEF SweepDelete, CloudOK
<1>9. ASSUME NEW x \in File, Vanish(x) PROVE CloudOK'
  BY <1>0, <1>9 DEF Vanish, CloudOK
<1>10. ASSUME NEW h \in Hash, TaskDeleted(h) PROVE CloudOK'
  BY <1>2, <1>10, <1>b DEF TaskDeleted
<1>11. CASE Proceed
  <2>1. CASE (\E p \in Request, c \in Content : Serve(p, c) \/ Ask(p, c)) \/ (\E s \in scans : EndScan(s))
             \/ (\E i \in sweep : SweepMark(i) \/ SweepSkip(i)) \/ Poll \/ PollEnds
    BY <1>1, <2>1 DEF Serve, Ask, EndScan, SweepMark, SweepSkip, Poll, PollEnds
  <2> QED BY <1>5, <1>6, <1>7, <1>8, <1>11, <2>1 DEF Proceed
<1>12. CASE Interfere
  <2>1. CASE \/ \E p \in Request : Leave(p)
             \/ \E c \in Content : Uncache(c) \/ Trouble(c) \/ Unwritten(c) \/ Deadline(c)
             \/ \E s \in scans : DropScan(s)
    BY <1>1, <2>1 DEF Leave, Uncache, Trouble, Unwritten, Deadline, DropScan
  <2>2. CASE SweepStart \/ (\E g \in Gid : Cancel(g) \/ Remove(g) \/ DeleteFiles(g))
             \/ (\E a \in ArtifactId : Unused(a)) \/ Restart
    BY <1>1, <2>2 DEF SweepStart, Cancel, Remove, DeleteFiles, Unused, Restart
  <2> QED BY <1>9, <1>10, <1>12, <2>1, <2>2 DEF Interfere
<1> QED BY <1>1, <1>11, <1>12 DEF PlayNext, playVars, cloud

\* The flights, beside their own steps.
LEMMA FlightsStep == Sound /\ MemoryOK /\ [PlayNext]_playVars => FlightsOK'
<1> SUFFICES ASSUME Sound, MemoryOK, [PlayNext]_playVars PROVE FlightsOK'
  OBVIOUS
<1>0. FlightsOK
  BY DEF MemoryOK
<1>1. CASE UNCHANGED flight
  BY <1>0, <1>1 DEF FlightsOK
<1>2. ASSUME NEW p \in Request, NEW c \in Content, Ask(p, c) PROVE FlightsOK'
  <2> DEFINE w == [at |-> "lookup", rows |-> {}, todo |-> {}, gid |-> NoGid,
                   copy |-> NoCopy, artifact |-> Null, late |-> FALSE, rebuilt |-> FALSE]
  <2>1. w \in Flight
    BY DEF Flight
  <2>2. w.at = "lookup" /\ w.gid = NoGid
    OBVIOUS
  <2>3. Fit(w)
    BY <2>1, <2>2 DEF Fit, Working
  <2> QED BY <1>0, <1>1, <1>2, <2>3, FlightsKept DEF Ask
<1>3. ASSUME NEW c \in Content, Trouble(c) PROVE FlightsOK'
  <2>1. CASE Conclude(c)
    BY <1>0, <2>1, ConcludeFits
  <2>3. CASE At(c, "named") /\ Becomes(c, NextSource(c, Source115(c)))
    BY <1>0, <2>3, FlightAt, NextSourceFit, FlightsKept DEF At, Becomes
  <2>2. CASE flight[c].at \in OnCloud /\ Moves(c, "fail")
    <3>1. flight[c] \in Flight /\ Fit(flight[c]) /\ flight[c].gid \in Gid
      BY <1>0, <2>2, FlightAt DEF Fit, Working, NoFlight, OnCloud
    <3>2. Fit([flight[c] EXCEPT !.at = "fail"])
      BY <3>1, Moved DEF Places, Working
    <3> QED BY <1>0, <2>2, <3>2, FlightsKept DEF Moves, Becomes
  <2> QED BY <1>3, <2>1, <2>2, <2>3 DEF Trouble
<1>8. ASSUME NEW c \in Content, Unwritten(c) PROVE FlightsOK'
  BY <1>0, <1>8, FlightAt, NextSourceFit, FlightsKept, ConcludeFits DEF Unwritten, Abandon, Becomes
<1>4. ASSUME NEW c \in Content, Deadline(c) PROVE FlightsOK'
  <2> DEFINE f == flight[c]
             w == [f EXCEPT !.late = TRUE]
  <2>1. f \in Flight /\ Fit(f)
    BY <1>0, <1>4, FlightAt DEF Deadline, Flying
  <2>2. w \in Flight /\ w.at = f.at /\ w.gid = f.gid /\ w.copy = f.copy /\ w.artifact = f.artifact
    BY <2>1 DEF Flight
  <2>a. f # NoFlight
    BY <1>4 DEF Deadline, Flying, NoFlight
  <2>3. Fit(w)
    BY <2>1, <2>2, <2>a DEF Fit
  <2> QED BY <1>0, <1>4, <2>3, FlightsKept DEF Deadline, Becomes
<1>5. CASE Restart
  BY <1>5 DEF Restart, FlightsOK, Fit
<1>6. CASE Proceed
  <2>1. CASE (\E p \in Request, c \in Content : Serve(p, c)) \/ (\E s \in scans : EndScan(s) \/ ClearTask(s))
             \/ (\E i \in sweep : SweepDelete(i) \/ SweepMark(i) \/ SweepSkip(i))
             \/ (\E h \in Hash : Complete(h)) \/ Poll \/ PollEnds
    BY <1>1, <2>1 DEF Serve, EndScan, ClearTask, SweepDelete, SweepMark, SweepSkip, Complete, Poll,
                      PollEnds, memory
  <2> QED BY <1>2, <1>6, <2>1, FlightMemory DEF Proceed
<1>7. CASE Interfere
  <2>1. CASE (\E p \in Request : Leave(p)) \/ (\E c \in Content : Uncache(c))
             \/ (\E s \in scans : DropScan(s)) \/ SweepStart \/ (\E h \in Hash : TaskDeleted(h))
             \/ (\E g \in Gid : Cancel(g) \/ Remove(g) \/ DeleteFiles(g))
             \/ (\E a \in ArtifactId : Unused(a)) \/ (\E x \in File : Vanish(x))
    BY <1>1, <2>1 DEF Leave, Uncache, DropScan, SweepStart, TaskDeleted, Cancel, Remove, DeleteFiles,
                      Unused, Vanish, memory
  <2> QED BY <1>3, <1>4, <1>5, <1>7, <1>8, <2>1 DEF Interfere
<1> QED BY <1>1, <1>6, <1>7 DEF PlayNext, playVars

\* What a sweep is about to delete.
LEMMA SweptAreItems ==
  ASSUME Sound, NEW A \in SUBSET ArtifactId, \A a \in A : Recorded(a), NEW g \in Gid \cup {NoGid}
  PROVE  ToSweep(A, g) \subseteq Item
<1>1. \A a \in A : artifact[a].source \in Copy \cup {NoCopy}
  BY DEF Sound, Consistent, Typed, Artifact, NoArtifact, Recorded
<1>2. ASSUME NEW i \in ToSweep(A, g) PROVE i \in Item
  <2>1. PICK a \in A : /\ artifact[a].source # NoCopy
                       /\ i = [artifact |-> a, copy |-> artifact[a].source, gone |-> FALSE,
                               by |-> g]
    BY <1>2 DEF ToSweep
  <2>2. artifact[a].source \in Copy
    BY <1>1, <2>1
  <2> QED BY <2>1, <2>2 DEF Item
<1> QED BY <1>2

\* The cache, the requests, the scans, the sweep and the rows that were left.
LEMMA RestStep == Sound /\ MemoryOK /\ [PlayNext]_playVars => RestOK'
<1> SUFFICES ASSUME Sound, MemoryOK, [PlayNext]_playVars PROVE RestOK'
  OBVIOUS
<1> DEFINE Asked == asked \in [Request -> Content \cup {NotYet, Over}]
           Cached == \A c \in Content : cache[c] \in {NoFile} \cup {f \in File : ContentOf(f) = c}
           Scans == scans \subseteq {s \in Scan : s.copy[1] = InfoHash(s.gid)}
<1>0. FlightsOK /\ RestOK
  BY DEF MemoryOK
<1>a. \A c \in Content : flight[c].at # "none" => flight[c] \in Flight /\ Fit(flight[c])
  BY <1>0, FlightAt
<1>1. CASE UNCHANGED <<cache, asked, scans, sweep, polling, stray>>
  BY <1>0, <1>1 DEF RestOK
<1>2. ASSUME UNCHANGED <<cache, scans, sweep, polling, stray>>, NEW c \in Content, Conclude(c) PROVE RestOK'
  BY <1>0, <1>2, ConcludeAsked DEF RestOK
<1>3. ASSUME NEW c \in Content, Answer(c) PROVE RestOK'
  <2>1. flight[c].copy \in Copy
    BY <1>3, <1>a DEF Answer, OnTime, At, Fit, NoFlight
  <2>2. Hit(c) \in File /\ ContentOf(Hit(c)) = c
    BY <2>1 DEF Hit, File, ContentOf
  <2>3. Conclude(c) /\ cache' = [cache EXCEPT ![c] = Hit(c)] /\ UNCHANGED <<scans, sweep, polling, stray>>
    BY <1>3 DEF Answer
  <2>4. Cached'
    BY <1>0, <2>2, <2>3 DEF RestOK
  <2>5. Asked'
    BY <1>0, <2>3, ConcludeAsked DEF RestOK
  <2> QED BY <1>0, <2>3, <2>4, <2>5 DEF RestOK
<1>4. ASSUME NEW c \in Content, RunLate(c) PROVE RestOK'
  <2>1. flight[c].gid \in Gid
    BY <1>4, <1>a DEF RunLate, At, Fit, Working, NoFlight
  <2>2. Asked'
    BY <1>0, <1>4, ConcludeAsked DEF RestOK, RunLate
  <2> QED BY <1>0, <1>4, <2>1, <2>2 DEF RestOK, RunLate
<1>5. ASSUME NEW c \in Content, Found(c) PROVE RestOK'
  <2> DEFINE s == [gid |-> flight[c].gid, copy |-> flight[c].copy, saved |-> FALSE]
  <2>1. flight[c].gid \in Gid /\ flight[c].copy \in Copy
        /\ flight[c].copy[1] = InfoHash(flight[c].gid)
    BY <1>5, <1>a DEF Found, OnTime, At, Fit, Working, NoFlight
  <2>2. s \in {x \in Scan : x.copy[1] = InfoHash(x.gid)}
    BY <2>1 DEF Scan
  <2>3. scans' = scans \cup {s} /\ UNCHANGED <<cache, asked, sweep, polling, stray>>
    BY <1>5 DEF Found, Moves, Becomes
  <2> QED BY <1>0, <2>2, <2>3 DEF RestOK
<1>6. ASSUME NEW c \in Content, Fail(c) \/ Succeed(c) PROVE RestOK'
  BY <1>1, <1>2, <1>6 DEF Fail, Succeed, Abandon, Moves, Becomes
<1>19. ASSUME NEW c \in Content, CreateRow(c) PROVE RestOK'
  BY <1>0, <1>19 DEF CreateRow, Moves, Becomes, RestOK
<1>20. ASSUME NEW c \in Content, Unwritten(c) PROVE RestOK'
  <2>1. flight[c].gid \in Gid
    BY <1>20, <1>a DEF Unwritten, Fit, Working, NoFlight
  <2>2. Asked' /\ UNCHANGED <<cache, scans, sweep, polling>>
    BY <1>0, <1>20, ConcludeAsked DEF RestOK, Unwritten, Abandon, Becomes
  <2> QED BY <1>0, <1>20, <2>1, <2>2 DEF RestOK, Unwritten
<1>21. CASE Poll \/ PollEnds
  BY <1>0, <1>21 DEF Poll, PollEnds, RestOK
<1>7. ASSUME NEW c \in Content, FlightStep(c) PROVE RestOK'
  BY <1>1, <1>2, <1>3, <1>4, <1>5, <1>6, <1>7, <1>19
     DEF FlightStep, GiveUp, Lookup, Check, CheckGone, CheckFound, CheckNone, NameRow, RowRefused,
         Run, Submit, Conflict, LockFetch, Fetched, Replace, Track, Arrive, Rebuild, RebuildMark,
         Stumble, Save, Moves, Becomes, memory
<1>8. ASSUME NEW p \in Request, NEW c \in Content, Serve(p, c) \/ Ask(p, c) \/ Leave(p) PROVE RestOK'
  BY <1>0, <1>8 DEF Serve, Ask, Leave, RestOK
<1>9. ASSUME NEW s \in scans, EndScan(s) \/ ClearTask(s) \/ DropScan(s) PROVE RestOK'
  <2>1. s \in Scan /\ s.copy[1] = InfoHash(s.gid)
    BY <1>0 DEF RestOK
  <2>2. /\ [s EXCEPT !.saved = TRUE] \in Scan
        /\ [s EXCEPT !.saved = TRUE].copy = s.copy /\ [s EXCEPT !.saved = TRUE].gid = s.gid
    BY <2>1 DEF Scan
  <2>3. scans' \subseteq scans \cup {[s EXCEPT !.saved = TRUE]}
    BY <1>9 DEF EndScan, ClearTask, DropScan
  <2>4. UNCHANGED <<cache, asked, sweep, polling, stray>>
    BY <1>9 DEF EndScan, ClearTask, DropScan
  <2> QED BY <1>0, <2>1, <2>2, <2>3, <2>4 DEF RestOK
<1>10. ASSUME NEW i \in sweep, SweepDelete(i) \/ SweepMark(i) \/ SweepSkip(i) PROVE RestOK'
  <2>1. i \in Item
    BY <1>0 DEF RestOK
  <2>2. [i EXCEPT !.gone = TRUE] \in Item
    BY <2>1 DEF Item
  <2> QED BY <1>0, <1>10, <2>2 DEF SweepDelete, SweepMark, SweepSkip, RestOK
<1>11. CASE SweepStart
  <2>1. ToSweep(CacheArtifacts, NoGid) \subseteq Item
    BY SweptAreItems DEF CacheArtifacts
  <2>2. ToSweep({location[f].artifact : f \in ExpiredLocations}, NoGid) \subseteq Item
    BY SweptAreItems DEF ExpiredLocations, CacheArtifacts
  <2> QED BY <1>0, <1>11, <2>1, <2>2 DEF SweepStart, RestOK
<1>12. ASSUME NEW g \in Gid, DeleteFiles(g) PROVE RestOK'
  <2>1. ToSweep(MadeBy(g), g) \subseteq Item
    BY SweptAreItems DEF MadeBy
  <2> QED BY <1>0, <1>12, <2>1 DEF DeleteFiles, RestOK
<1>13. ASSUME NEW g \in Gid, Cancel(g) \/ Remove(g) PROVE RestOK'
  BY <1>0, <1>13 DEF Cancel, Remove, memory, RestOK
<1>14. ASSUME NEW c \in Content, Uncache(c) PROVE RestOK'
  BY <1>0, <1>14 DEF Uncache, RestOK
<1>15. ASSUME NEW c \in Content, Trouble(c) \/ Deadline(c) PROVE RestOK'
  BY <1>1, <1>2, <1>15 DEF Trouble, Deadline, Moves, Becomes
<1>16. CASE Restart
  <2>2. stray' \subseteq Gid
    BY <1>0, <1>16 DEF Restart, RestOK
  <2>3. Asked'
    BY <1>0, <1>16 DEF Restart, RestOK
  <2> QED BY <1>16, <2>2, <2>3 DEF Restart, RestOK
<1>17. CASE Proceed
  <2>1. CASE \E h \in Hash : Complete(h)
    BY <1>1, <2>1 DEF Complete, memory
  <2> QED BY <1>7, <1>8, <1>9, <1>10, <1>17, <1>21, <2>1 DEF Proceed
<1>18. CASE Interfere
  <2>1. CASE (\E h \in Hash : TaskDeleted(h)) \/ (\E a \in ArtifactId : Unused(a))
             \/ (\E x \in File : Vanish(x))
    BY <1>1, <2>1 DEF TaskDeleted, Unused, Vanish, memory
  <2>2. CASE \E p \in Request : Leave(p)
    BY <1>0, <2>2 DEF Leave, RestOK
  <2> QED BY <1>9, <1>11, <1>12, <1>13, <1>14, <1>15, <1>16, <1>18, <1>20, <2>1, <2>2 DEF Interfere
<1> QED BY <1>1, <1>17, <1>18 DEF PlayNext, playVars

----------------------------------------------------------------------------
(* Whoever waits has a flight.                                             *)

\* The ways a step changes a flight: it moves on, or it concludes and answers.
Going(c) == \E f : f.at # "none" /\ flight' = [flight EXCEPT ![c] = f] /\ UNCHANGED asked

LEMMA GoingKeepsWaiters ==
  ASSUME MemoryOK, WaitersHaveFlight, NEW c \in Content, Going(c)
  PROVE  WaitersHaveFlight'
BY DEF MemoryOK, FlightsOK, WaitersHaveFlight, Waits, Flying, Going

LEMMA ConcludeKeepsWaiters ==
  ASSUME MemoryOK, WaitersHaveFlight, NEW c \in Content, Conclude(c)
  PROVE  WaitersHaveFlight'
BY PlaybackAssumption DEF MemoryOK, FlightsOK, RestOK, WaitersHaveFlight, Waits, Flying, Conclude

\* A flight at a place that moves elsewhere.
LEMMA MovesGoes ==
  ASSUME FlightsOK, NEW c \in Content, flight[c].at # "none", NEW w \in Places, Moves(c, w)
  PROVE  Going(c)
<1>1. [flight[c] EXCEPT !.at = w].at = w
  BY FlightAt DEF Flight
<1> QED BY <1>1 DEF Moves, Becomes, Going, Places

LEMMA NextSourceGoes ==
  ASSUME FlightsOK, NEW c \in Content, flight[c].at # "none", NEW h, Becomes(c, NextSource(c, h))
  PROVE  Going(c)
<1>1. NextSource(c, h).at = "restore"
  BY FlightAt DEF Flight, NextSource
<1> QED BY <1>1 DEF Becomes, Going

LEMMA FlightGoes ==
  ASSUME MemoryOK, NEW c \in Content, FlightStep(c)
  PROVE  Going(c) \/ Conclude(c) \/ UNCHANGED <<flight, asked>>
<1>0. FlightsOK
  BY DEF MemoryOK
<1>1. flight[c].at # "none" => flight[c] \in Flight
  BY <1>0, FlightAt
<1> USE DEF OnTime, At
<1>2. CASE GiveUp(c) \/ RunLate(c) \/ Answer(c) \/ Track(c)
  BY <1>2 DEF GiveUp, RunLate, Answer, Track, memory
<1>a. ASSUME Abandon(c), flight[c].at # "none" PROVE Going(c) \/ Conclude(c)
  BY <1>0, <1>a, NextSourceGoes DEF Abandon
<1>3. CASE Lookup(c) \/ NameRow(c) \/ Arrive(c) \/ Replace(c) \/ Rebuild(c)
  BY <1>1, <1>3 DEF Lookup, NameRow, Arrive, Replace, Rebuild, Becomes, Going, Flight
<1>4. CASE Check(c)
  BY <1>0, <1>1, <1>4, MovesGoes
     DEF Check, CheckGone, CheckFound, CheckNone, Becomes, Going, Flight, Places
<1>5. CASE RowRefused(c) \/ Run(c) \/ Fail(c) \/ Succeed(c)
  BY <1>0, <1>a, <1>5, MovesGoes, NextSourceGoes DEF RowRefused, Run, Fail, Succeed, Places
<1>6. CASE \/ CreateRow(c) \/ Submit(c) \/ Conflict(c) \/ LockFetch(c) \/ Fetched(c) \/ Found(c)
           \/ RebuildMark(c) \/ Stumble(c) \/ Save(c)
  BY <1>0, <1>6, MovesGoes DEF CreateRow, Submit, Conflict, LockFetch, Fetched, Found, RebuildMark,
                              Stumble, OnCloud, Save, Places
<1> QED BY <1>2, <1>3, <1>4, <1>5, <1>6 DEF FlightStep

LEMMA WaitersStep == MemoryOK /\ WaitersHaveFlight /\ [PlayNext]_playVars => WaitersHaveFlight'
<1> SUFFICES ASSUME MemoryOK, WaitersHaveFlight, [PlayNext]_playVars PROVE WaitersHaveFlight'
  OBVIOUS
<1>0. FlightsOK /\ RestOK
  BY DEF MemoryOK
<1>1. CASE UNCHANGED <<flight, asked>>
  BY <1>1 DEF WaitersHaveFlight, Waits, Flying
<1>2. ASSUME NEW c \in Content, FlightStep(c) PROVE WaitersHaveFlight'
  BY <1>1, <1>2, FlightGoes, GoingKeepsWaiters, ConcludeKeepsWaiters
<1>3. ASSUME NEW c \in Content, Trouble(c) PROVE WaitersHaveFlight'
  BY <1>0, <1>3, MovesGoes, NextSourceGoes, GoingKeepsWaiters, ConcludeKeepsWaiters
     DEF Trouble, OnCloud, At, Places
<1>11. ASSUME NEW c \in Content, Unwritten(c) PROVE WaitersHaveFlight'
  BY <1>0, <1>11, NextSourceGoes, GoingKeepsWaiters, ConcludeKeepsWaiters DEF Unwritten, Abandon
<1>4. ASSUME NEW c \in Content, Deadline(c) PROVE WaitersHaveFlight'
  <2>1. flight[c] \in Flight
    BY <1>0, <1>4, FlightAt DEF Deadline, Flying
  <2>2. [flight[c] EXCEPT !.late = TRUE].at = flight[c].at
    BY <2>1 DEF Flight
  <2>3. Going(c)
    BY <1>4, <2>2 DEF Deadline, Flying, Becomes, Going
  <2> QED BY <2>3, GoingKeepsWaiters
<1>5. ASSUME NEW p \in Request, Leave(p) PROVE WaitersHaveFlight'
  BY <1>0, <1>5, PlaybackAssumption DEF Leave, RestOK, WaitersHaveFlight, Waits, Flying
<1>6. ASSUME NEW p \in Request, NEW c \in Content, Serve(p, c) PROVE WaitersHaveFlight'
  BY <1>0, <1>6, PlaybackAssumption DEF Serve, RestOK, WaitersHaveFlight, Waits, Flying
<1>7. ASSUME NEW p \in Request, NEW c \in Content, Ask(p, c) PROVE WaitersHaveFlight'
  BY <1>0, <1>7 DEF Ask, RestOK, FlightsOK, WaitersHaveFlight, Waits, Flying
<1>8. CASE Restart
  BY <1>0, <1>8, PlaybackAssumption DEF Restart, RestOK, WaitersHaveFlight, Waits
<1>9. CASE Proceed
  <2>1. CASE (\E s \in scans : EndScan(s) \/ ClearTask(s))
             \/ (\E i \in sweep : SweepDelete(i) \/ SweepMark(i) \/ SweepSkip(i))
             \/ (\E h \in Hash : Complete(h)) \/ Poll \/ PollEnds
    BY <1>1, <2>1 DEF EndScan, ClearTask, SweepDelete, SweepMark, SweepSkip, Complete, Poll, PollEnds,
                      memory
  <2> QED BY <1>2, <1>6, <1>7, <1>9, <2>1 DEF Proceed
<1>10. CASE Interfere
  <2>1. CASE (\E c \in Content : Uncache(c)) \/ (\E s \in scans : DropScan(s)) \/ SweepStart
             \/ (\E h \in Hash : TaskDeleted(h)) \/ (\E x \in File : Vanish(x))
             \/ (\E g \in Gid : Cancel(g) \/ Remove(g) \/ DeleteFiles(g))
             \/ (\E a \in ArtifactId : Unused(a))
    BY <1>1, <2>1 DEF Uncache, DropScan, SweepStart, TaskDeleted, Cancel, Remove, DeleteFiles,
                      Unused, Vanish, memory
  <2> QED BY <1>3, <1>4, <1>5, <1>8, <1>10, <1>11, <2>1 DEF Interfere
<1> QED BY <1>1, <1>9, <1>10 DEF PlayNext, playVars

----------------------------------------------------------------------------
(* The rows of the restorer.                                               *)

WorksOn(c, g) == flight[c].at \in Working /\ flight[c].gid = g

Needs(g) == Owned(g, Restore) /\ State(g) \in Active /\ g \notin stray

\* Stronger than RestoreRowsAreRun: a flight that is done with its row does not count,
\* since another flight may have created a row with the same gid.
RowsHaveWorker == \A g \in Gid : Needs(g) => \E c \in Content : WorksOn(c, g)

LEMMA WorkersKept ==
  ASSUME RowsHaveWorker,
         \A g \in Gid : Needs(g)' =>
           \/ \E c \in Content : WorksOn(c, g)'
           \/ Needs(g) /\ \A c \in Content : WorksOn(c, g) => WorksOn(c, g)'
  PROVE  RowsHaveWorker'
BY DEF RowsHaveWorker

\* One flight moves; the rows stay, or the row it worked on is not active any more.
LEMMA OneFlightMoves ==
  ASSUME RowsHaveWorker, FlightsOK, NEW c \in Content, NEW f, flight' = [flight EXCEPT ![c] = f],
         \A g \in Gid : Needs(g)' /\ ~(f.at \in Working /\ f.gid = g)
                          => Needs(g) /\ ~WorksOn(c, g)
  PROVE  RowsHaveWorker'
<1> SUFFICES ASSUME NEW g \in Gid, Needs(g)'
             PROVE  \/ \E d \in Content : WorksOn(d, g)'
                    \/ Needs(g) /\ \A d \in Content : WorksOn(d, g) => WorksOn(d, g)'
  BY WorkersKept
<1>1. flight'[c] = f /\ \A d \in Content \ {c} : flight'[d] = flight[d]
  BY DEF FlightsOK
<1>2. CASE f.at \in Working /\ f.gid = g
  BY <1>1, <1>2 DEF WorksOn
<1>3. CASE ~(f.at \in Working /\ f.gid = g)
  BY <1>1, <1>3 DEF WorksOn
<1> QED BY <1>2, <1>3

\* A row that cannot be written is not active: it is gone or canceled, or the index
\* refuses it, which is so only if another row is the active one.
LEMMA RefusedIsInactive ==
  ASSUME OneActivePerTorrent, NEW g \in Gid, NEW st, UpdateOutcome(g, st) # "ok"
  PROVE  ~(Exists(g) /\ State(g) \in Active)
BY DEF UpdateOutcome, ActiveTwin, Owned, OneActivePerTorrent, Active

\* The end of a run leaves its row inactive and the others as they were.
LEMMA WrittenEnds ==
  ASSUME TypeOK, OneActivePerTorrent, NEW g \in Gid, NEW st \in {"failed", "succeeded"},
         Written(g, st), UNCHANGED stray
  PROVE  ~Needs(g)' /\ \A k \in Gid \ {g} : Needs(k)' => Needs(k)
<1>1. CASE UpdateOutcome(g, st) = "ok"
  <2>1. jobs[g] \in Job /\ jobs' = [jobs EXCEPT ![g] = [jobs[g] EXCEPT !.state = st]]
    BY <1>1 DEF Written, UpdateJob, UpdateOutcome, TypeOK, Exists, NoJob
  <2>2. [jobs[g] EXCEPT !.state = st].state = st
    BY <2>1 DEF Job
  <2> QED BY <2>1, <2>2 DEF TypeOK, Needs, Owned, Exists, State, Active
<1>2. CASE UpdateOutcome(g, st) # "ok"
  BY <1>2, RefusedIsInactive DEF Written, Needs, Owned, Exists, State
<1> QED BY <1>1, <1>2

LEMMA RowsUnchanged ==
  ASSUME UNCHANGED <<jobs, stray>>, NEW g
  PROVE  Needs(g)' <=> Needs(g)
BY DEF Needs, Owned, Exists, State

\* A flight that did not work on a row goes on, or one that does keeps its row.
LEMMA WorkerMoves ==
  ASSUME RowsHaveWorker, FlightsOK, NEW c \in Content, NEW f, flight' = [flight EXCEPT ![c] = f],
         UNCHANGED <<jobs, stray>>,
         flight[c].at \in Working => f.at \in Working /\ f.gid = flight[c].gid
  PROVE  RowsHaveWorker'
BY OneFlightMoves, RowsUnchanged DEF WorksOn

LEMMA MovesWorks ==
  ASSUME RowsHaveWorker, FlightsOK, NEW c \in Content, flight[c].at # "none", NEW w,
         Moves(c, w), UNCHANGED <<jobs, stray>>, flight[c].at \in Working => w \in Working
  PROVE  RowsHaveWorker'
<1>1. flight[c] \in Flight
  BY FlightAt
<1>2. [flight[c] EXCEPT !.at = w].at = w /\ [flight[c] EXCEPT !.at = w].gid = flight[c].gid
  BY <1>1 DEF Flight
<1> QED BY <1>2, WorkerMoves DEF Moves, Becomes

\* A flight lets go of its row, by the next torrent or by its end.
LEMMA LetsGo ==
  ASSUME RowsHaveWorker, FlightsOK, NEW c \in Content, flight[c].at # "none", NEW g \in Gid,
         flight[c].gid = g,
         Conclude(c) \/ (\E h : Becomes(c, NextSource(c, h))) \/ Moves(c, "save"),
         ~Needs(g)', \A k \in Gid \ {g} : Needs(k)' => Needs(k)
  PROVE  RowsHaveWorker'
<1>1. flight[c] \in Flight
  BY FlightAt
<1>a. ASSUME NEW h PROVE NextSource(c, h).at = "restore"
  BY <1>1 DEF NextSource, Flight
<1>b. [flight[c] EXCEPT !.at = "save"].at = "save"
  BY <1>1 DEF Flight
<1>2. PICK f : flight' = [flight EXCEPT ![c] = f] /\ f.at \notin Working
  <2>1. CASE Conclude(c)
    <3>1. NoFlight.at \notin Working
      BY DEF NoFlight, Working
    <3>2. flight' = [flight EXCEPT ![c] = NoFlight]
      BY <2>1 DEF Conclude
    <3> HIDE DEF NoFlight
    <3> QED BY <3>1, <3>2
  <2>2. CASE \E h : Becomes(c, NextSource(c, h))
    BY <1>a, <2>2 DEF Becomes, Working
  <2>3. CASE Moves(c, "save")
    BY <1>b, <2>3 DEF Becomes, Moves, Working
  <2> QED BY <2>1, <2>2, <2>3
<1>3. \A k \in Gid : Needs(k)' => Needs(k) /\ ~WorksOn(c, k)
  BY DEF WorksOn
<1> QED BY <1>2, <1>3, OneFlightMoves

LEMMA FlightKeepsRows ==
  ASSUME Sound, OneActivePerTorrent, MemoryOK, RowsHaveWorker, NEW c \in Content, FlightStep(c)
  PROVE  RowsHaveWorker'
<1> DEFINE f == flight[c]
<1>0. FlightsOK /\ TypeOK
  BY DEF MemoryOK, Sound
<1>1. f.at # "none" => f \in Flight
  BY <1>0, FlightAt
<1>2. f.at \in Working => f.gid \in Gid
  BY <1>0, FlightAt DEF Working, Fit, NoFlight
<1> USE DEF OnTime, At
<1>3. CASE GiveUp(c) \/ Answer(c)
  <2>1. f.at \notin Working /\ flight' = [flight EXCEPT ![c] = NoFlight] /\ UNCHANGED <<jobs, stray>>
    BY <1>3 DEF GiveUp, Answer, TouchAsset, Conclude, Working
  <2> QED BY <1>0, <2>1, WorkerMoves
<1>4. CASE Lookup(c) \/ Check(c)
  <2>1. f.at \notin Working /\ UNCHANGED <<jobs, stray>>
    BY <1>4 DEF Lookup, Check, CheckGone, CheckFound, CheckNone, MarkLocationDeleted, Working
  <2>2. \E w : flight' = [flight EXCEPT ![c] = w]
    BY <1>4 DEF Lookup, Check, CheckGone, CheckFound, CheckNone, Moves, Becomes
  <2> QED BY <1>0, <2>1, <2>2, WorkerMoves
<1>5. CASE CreateRow(c)
  <2>a. PICK g \in Gid : g = f.gid
    BY <1>0, <1>5, FlightAt DEF CreateRow, Fit, NoFlight
  <2>1. /\ CreateJob(g, Restore) /\ stray' = stray \ {g}
        /\ flight' = [flight EXCEPT ![c] = [f EXCEPT !.at = "created"]]
    BY <1>5, <2>a DEF CreateRow, Moves, Becomes
  <2>2. f.at \notin Working
    BY <1>5 DEF CreateRow, Working
  <2>3. [f EXCEPT !.at = "created"].at = "created" /\ [f EXCEPT !.at = "created"].gid = g
    BY <1>1, <1>5, <2>a DEF CreateRow, Flight
  <2>4. \A k \in Gid \ {g} : jobs'[k] = jobs[k]
    BY <1>0, <2>1 DEF CreateJob, TypeOK
  <2>5. \A k \in Gid \ {g} : Needs(k)' => Needs(k)
    BY <2>1, <2>4 DEF Needs, Owned, Exists, State
  <2> QED BY <1>0, <2>1, <2>2, <2>3, <2>5, OneFlightMoves DEF WorksOn, Working
<1>6. CASE NameRow(c) \/ RowRefused(c)
  <2>1. f.at \notin Working /\ UNCHANGED <<jobs, stray>>
    BY <1>6 DEF NameRow, RowRefused, Working
  <2>2. \E w : flight' = [flight EXCEPT ![c] = w]
    BY <1>6 DEF NameRow, RowRefused, Becomes
  <2> QED BY <1>0, <2>1, <2>2, WorkerMoves
<1>7. CASE Run(c)
  <2>1. f.gid \in Gid /\ f.at = "created" /\ UNCHANGED stray
    BY <1>2, <1>7 DEF Run, Working
  <2>a. PICK g \in Gid : g = f.gid
    BY <2>1
  <2>2. CASE UpdateOutcome(f.gid, "running") = "ok"
    <3> DEFINE w == [f EXCEPT !.at = "submit"]
    <3>1. UpdateJob(f.gid, "running") /\ flight' = [flight EXCEPT ![c] = w]
      BY <1>7, <2>2 DEF Run, Moves, Becomes
    <3>2. w.at = "submit" /\ w.gid = f.gid
      BY <1>1, <2>1 DEF Flight
    <3>3. \A k \in Gid \ {f.gid} : jobs'[k] = jobs[k]
      BY <1>0, <3>1 DEF UpdateJob, TypeOK
    <3>4. \A k \in Gid \ {f.gid} : Needs(k)' => Needs(k)
      BY <2>1, <3>3 DEF Needs, Owned, Exists, State
    <3> QED BY <1>0, <3>1, <3>2, <3>4, OneFlightMoves DEF WorksOn, Working
  <2>3. CASE UpdateOutcome(f.gid, "running") # "ok"
    <3>1. UNCHANGED jobs /\ Becomes(c, NextSource(c, Source115(c)))
      BY <1>7, <2>3 DEF Run
    <3>2. ~Needs(f.gid)
      BY <2>1, <2>3, RefusedIsInactive DEF Needs, Owned
    <3>3. \A k \in Gid : Needs(k)' => Needs(k)
      BY <2>1, <3>1, RowsUnchanged
    <3>4. ~Needs(g)'
      BY <2>1, <2>a, <3>1, <3>2, RowsUnchanged
    <3> QED BY <1>0, <2>1, <2>a, <3>1, <3>3, <3>4, LetsGo
  <2> QED BY <2>2, <2>3
<1>8. CASE RunLate(c)
  <2>a. PICK g \in Gid : g = f.gid
    BY <1>2, <1>8 DEF RunLate, Working
  <2>1. f.at # "none" /\ UNCHANGED jobs /\ stray' = stray \cup {g} /\ Conclude(c)
    BY <1>8, <2>a DEF RunLate
  <2>2. ~Needs(g)' /\ \A k \in Gid : Needs(k)' => Needs(k)
    BY <2>1 DEF Needs, Owned, Exists, State
  <2> QED BY <1>0, <2>a, <2>1, <2>2, LetsGo
<1>9. CASE \/ Submit(c) \/ Conflict(c) \/ LockFetch(c) \/ Fetched(c) \/ RebuildMark(c) \/ Stumble(c)
           \/ Found(c)
  BY <1>0, <1>9, MovesWorks DEF Submit, Conflict, LockFetch, Fetched, RebuildMark, MarkArtifactDeleted,
                               Stumble, OnCloud, Found, Working
<1>10. CASE Track(c)
  BY <1>10, WorkersKept, RowsUnchanged DEF Track, SaveTask, memory, WorksOn
<1>11. CASE Arrive(c) \/ Replace(c) \/ Rebuild(c)
  <2>1. UNCHANGED <<jobs, stray>> /\ f \in Flight
    BY <1>1, <1>11 DEF Arrive, Replace, Rebuild, SaveTask
  <2>a. ASSUME NEW w, flight' = [flight EXCEPT ![c] = w], w.at \in Working, w.gid = f.gid
        PROVE  RowsHaveWorker'
    BY <1>0, <2>1, <2>a, WorkerMoves
  <2>b. {"scan", "resubmit", "mark", "replace"} \subseteq Working
    BY DEF Working
  <2>2. CASE Arrive(c)
    <3> DEFINE w == [f EXCEPT !.at = "scan", !.copy = offline[Source115(c)].copy]
    <3>1. flight' = [flight EXCEPT ![c] = w]
      BY <2>2 DEF Arrive, Becomes
    <3>2. w.at \in Working /\ w.gid = f.gid
      BY <2>1, <2>b DEF Flight
    <3> HIDE DEF w
    <3> QED BY <2>a, <3>1, <3>2
  <2>3. CASE Replace(c)
    <3> DEFINE w == [f EXCEPT !.at = "resubmit", !.copy = NoCopy]
    <3>1. flight' = [flight EXCEPT ![c] = w]
      BY <2>3 DEF Replace, Becomes
    <3>2. w.at \in Working /\ w.gid = f.gid
      BY <2>1, <2>b DEF Flight
    <3> HIDE DEF w
    <3> QED BY <2>a, <3>1, <3>2
  <2>4. ASSUME NEW a, Becomes(c, [f EXCEPT !.at = "mark", !.artifact = a, !.rebuilt = TRUE])
        PROVE  RowsHaveWorker'
    <3> DEFINE w == [f EXCEPT !.at = "mark", !.artifact = a, !.rebuilt = TRUE]
    <3>1. flight' = [flight EXCEPT ![c] = w]
      BY <2>4 DEF Becomes
    <3>2. w.at \in Working /\ w.gid = f.gid
      BY <2>1, <2>b DEF Flight
    <3> HIDE DEF w
    <3> QED BY <2>a, <3>1, <3>2
  <2>5. CASE Becomes(c, [f EXCEPT !.at = "replace", !.rebuilt = TRUE])
    <3> DEFINE w == [f EXCEPT !.at = "replace", !.rebuilt = TRUE]
    <3>1. flight' = [flight EXCEPT ![c] = w]
      BY <2>5 DEF Becomes
    <3>2. w.at \in Working /\ w.gid = f.gid
      BY <2>1, <2>b DEF Flight
    <3> HIDE DEF w
    <3> QED BY <2>a, <3>1, <3>2
  <2> QED BY <1>11, <2>2, <2>3, <2>4, <2>5 DEF Rebuild
<1>12. CASE Fail(c) \/ Succeed(c)
  <2>a. PICK g \in Gid : g = f.gid
    BY <1>2, <1>12 DEF Fail, Succeed, Working
  <2>1. f.at # "none" /\ UNCHANGED stray
    BY <1>12 DEF Fail, Succeed
  <2>2. Written(g, "failed") \/ Written(g, "succeeded")
    BY <1>12, <2>a DEF Fail, Succeed
  <2>3. Conclude(c) \/ (\E h : Becomes(c, NextSource(c, h))) \/ Moves(c, "save")
    BY <1>12 DEF Fail, Succeed, Abandon
  <2>4. ~Needs(g)' /\ \A k \in Gid \ {g} : Needs(k)' => Needs(k)
    BY <1>0, <2>1, <2>2, WrittenEnds
  <2> QED BY <1>0, <2>a, <2>1, <2>3, <2>4, LetsGo
<1>13. CASE Save(c)
  <2>1. f.at = "save" /\ UNCHANGED <<jobs, stray>> /\ Moves(c, "touch")
    BY <1>13 DEF Save, SaveFound, SaveRestored
  <2> QED BY <1>0, <2>1, MovesWorks DEF Working
<1> QED BY <1>3, <1>4, <1>5, <1>6, <1>7, <1>8, <1>9, <1>10, <1>11, <1>12, <1>13 DEF FlightStep

\* A step beside the flights does not make a row active.
LEMMA IdleRows ==
  ASSUME RowsHaveWorker, \A g \in Gid : Needs(g)' => Needs(g), UNCHANGED flight
  PROVE  RowsHaveWorker'
BY WorkersKept DEF WorksOn

LEMMA RowsStep ==
  Sound /\ OneActivePerTorrent /\ MemoryOK /\ RowsHaveWorker /\ [PlayNext]_playVars
    => RowsHaveWorker'
<1> SUFFICES ASSUME Sound, OneActivePerTorrent, MemoryOK, RowsHaveWorker, [PlayNext]_playVars
             PROVE  RowsHaveWorker'
  OBVIOUS
<1>0. FlightsOK /\ TypeOK
  BY DEF MemoryOK, Sound
<1>1. CASE UNCHANGED <<jobs, stray, flight>>
  BY <1>1, IdleRows, RowsUnchanged
<1>2. ASSUME NEW p \in Request, NEW c \in Content, Ask(p, c) PROVE RowsHaveWorker'
  BY <1>0, <1>1, <1>2, WorkerMoves DEF Ask, Flying, Working
<1>3. ASSUME NEW c \in Content, Trouble(c) PROVE RowsHaveWorker'
  <2>1. CASE At(c, "check") /\ Conclude(c)
    BY <1>0, <1>3, <2>1, WorkerMoves DEF Trouble, Conclude, At, Working
  <2>2. CASE flight[c].at \in OnCloud /\ Moves(c, "fail")
    BY <1>0, <1>3, <2>2, MovesWorks DEF Trouble, OnCloud, Working
  <2>3. CASE At(c, "named") /\ Becomes(c, NextSource(c, Source115(c)))
    BY <1>0, <1>3, <2>3, WorkerMoves DEF Trouble, Becomes, At, Working
  <2> QED BY <1>3, <2>1, <2>2, <2>3 DEF Trouble
<1>10. ASSUME NEW c \in Content, Unwritten(c) PROVE RowsHaveWorker'
  <2>a. PICK g \in Gid : g = flight[c].gid
    BY <1>0, <1>10, FlightAt DEF Unwritten, Fit, Working, NoFlight
  <2>1. flight[c].at # "none" /\ UNCHANGED jobs /\ stray' = stray \cup {g}
    BY <1>10, <2>a DEF Unwritten
  <2>2. Conclude(c) \/ (\E h : Becomes(c, NextSource(c, h)))
    BY <1>10 DEF Unwritten, Abandon
  <2>3. ~Needs(g)' /\ \A k \in Gid : Needs(k)' => Needs(k)
    BY <2>1 DEF Needs, Owned, Exists, State
  <2> QED BY <1>0, <2>a, <2>1, <2>2, <2>3, LetsGo
<1>4. ASSUME NEW c \in Content, Deadline(c) PROVE RowsHaveWorker'
  <2>1. flight[c] \in Flight
    BY <1>0, <1>4, FlightAt DEF Deadline, Flying
  <2> DEFINE w == [flight[c] EXCEPT !.late = TRUE]
  <2>2. w.at = flight[c].at /\ w.gid = flight[c].gid
    BY <2>1 DEF Flight
  <2>3. flight' = [flight EXCEPT ![c] = w] /\ UNCHANGED <<jobs, stray>>
    BY <1>4 DEF Deadline, Becomes
  <2> HIDE DEF w
  <2> QED BY <1>0, <2>2, <2>3, WorkerMoves
<1>5. ASSUME NEW g \in Gid, Cancel(g) PROVE RowsHaveWorker'
  <2>1. jobs' = [jobs EXCEPT ![g] = [jobs[g] EXCEPT !.state = "canceled"]] /\ jobs[g] \in Job
    BY <1>0, <1>5 DEF Cancel, CancelJob, Cancelable, State, TypeOK, NoJob
  <2>2. [jobs[g] EXCEPT !.state = "canceled"].state = "canceled"
    BY <2>1 DEF Job
  <2>3. ASSUME NEW k \in Gid, Needs(k)' PROVE Needs(k)
    BY <1>0, <1>5, <2>1, <2>2, <2>3 DEF Needs, Owned, Exists, State, Active, Cancel, TypeOK
  <2> QED BY <1>5, <2>3, IdleRows DEF Cancel, memory
<1>6. ASSUME NEW g \in Gid, Remove(g) PROVE RowsHaveWorker'
  <2>1. jobs' = [jobs EXCEPT ![g] = NoJob] /\ stray' = stray \ {g} /\ UNCHANGED flight
    BY <1>6 DEF Remove, DeleteRow, DeleteJob, DeleteJobAny, memory
  <2>2. ASSUME NEW k \in Gid, Needs(k)' PROVE Needs(k)
    BY <1>0, <2>1, <2>2 DEF Needs, Owned, Exists, State, NoJob, TypeOK
  <2> QED BY <2>1, <2>2, IdleRows
<1>7. CASE Restart
  <2>1. \A g \in Gid : Owned(g, Restore)' /\ State(g)' \in Active => Owned(g, Restore) /\ State(g) \in Active
    BY <1>7, PlaybackAssumption
       DEF Restart, RecoverRunningJobs, Recovered, Owned, Exists, State, Active
  <2>2. ASSUME NEW g \in Gid PROVE ~Needs(g)'
    <3>1. SUFFICES ASSUME Needs(g)' PROVE FALSE
      OBVIOUS
    <3>2. Needs(g)
      BY <1>7, <2>1, <3>1 DEF Needs, Restart
    <3>3. PICK c \in Content : WorksOn(c, g)
      BY <3>2 DEF RowsHaveWorker
    <3>4. HasRow(c)
      BY <3>3 DEF WorksOn, HasRow, At, Flying, Working
    <3>5. g \in stray'
      BY <1>7, <3>3, <3>4 DEF Restart, WorksOn
    <3> QED BY <3>1, <3>5 DEF Needs
  <2> QED BY <2>2 DEF RowsHaveWorker
<1>8. CASE Proceed
  <2>1. CASE (\E p \in Request, c \in Content : Serve(p, c)) \/ (\E s \in scans : EndScan(s) \/ ClearTask(s))
             \/ (\E i \in sweep : SweepDelete(i) \/ SweepMark(i) \/ SweepSkip(i))
             \/ (\E h \in Hash : Complete(h)) \/ Poll \/ PollEnds
    BY <1>1, <2>1 DEF Serve, TouchAsset, EndScan, SaveScan, ClearTask, SweepDelete, SweepMark,
                      MarkArtifactDeleted, SweepSkip, Complete, Poll, PollEnds, memory
  <2> QED BY <1>2, <1>8, <2>1, FlightKeepsRows DEF Proceed
<1>9. CASE Interfere
  <2>1. CASE (\E p \in Request : Leave(p)) \/ (\E c \in Content : Uncache(c))
             \/ (\E s \in scans : DropScan(s)) \/ SweepStart \/ (\E h \in Hash : TaskDeleted(h))
             \/ (\E g \in Gid : DeleteFiles(g)) \/ (\E a \in ArtifactId : Unused(a))
             \/ (\E x \in File : Vanish(x))
    BY <1>1, <2>1 DEF Leave, Uncache, DropScan, SweepStart, TaskDeleted, DeleteFiles, Unused, Age,
                      Vanish, memory
  <2> QED BY <1>3, <1>4, <1>5, <1>6, <1>7, <1>9, <1>10, <2>1 DEF Interfere
<1> QED BY <1>1, <1>8, <1>9 DEF PlayNext, playVars

----------------------------------------------------------------------------
\* The inductive invariant.
PlayInv == Sound /\ OneActivePerTorrent /\ MemoryOK /\ WaitersHaveFlight /\ RowsHaveWorker

LEMMA PlayInvInit == PlayInit => PlayInv
<1> SUFFICES ASSUME PlayInit PROVE PlayInv
  OBVIOUS
<1>1. TypeOK /\ IdsUnique /\ OneActivePerTorrent /\ RowsHaveWorker
  BY TypeInit DEF PlayInit, Init, IdsUnique, OneActivePerTorrent, RowsHaveWorker, Needs, Owned,
                  Exists, NoJob
<1>2. \A a \in ArtifactId : artifact[a].state = "none"
  BY DEF PlayInit, NoArtifact
<1>3. \A f \in File : location[f].state = "none"
  BY DEF PlayInit, NoRow
<1>4. Typed(artifact, location) /\ listed \in [Hash -> SUBSET Content]
  BY DEF PlayInit, Typed
<1>5. Consistent(artifact, location)
  BY <1>2, <1>3, <1>4 DEF Consistent, Agreeing, Made, Numbered
<1>6. FlightsOK
  BY DEF PlayInit, FlightsOK, Fit
<1>7. CloudOK
  BY CatalogAssumption DEF PlayInit, CloudOK
<1>8. RestOK
  BY DEF PlayInit, RestOK
<1>9. WaitersHaveFlight
  BY PlaybackAssumption DEF PlayInit, WaitersHaveFlight, Waits
<1> QED BY <1>1, <1>4, <1>5, <1>6, <1>7, <1>8, <1>9 DEF PlayInv, Sound, MemoryOK

LEMMA CatStepKeeps ==
  ASSUME Sound, OneActivePerTorrent, CatNext \/ UNCHANGED catVars
  PROVE  Sound' /\ OneActivePerTorrent'
<1>1. Sound'
  BY SoundStep
<1>2. [Next]_jobs
  BY CatStepIsNext
<1> QED BY <1>1, <1>2, OneActiveStep DEF Sound

LEMMA PlayInvStep == PlayInv /\ [PlayNext]_playVars => PlayInv'
<1> SUFFICES ASSUME PlayInv, [PlayNext]_playVars PROVE PlayInv'
  OBVIOUS
<1>1. CatNext \/ UNCHANGED catVars
  BY StepIsStatement DEF PlayInv
<1>2. Sound' /\ OneActivePerTorrent'
  BY <1>1, CatStepKeeps DEF PlayInv
<1>3. MemoryOK'
  BY FlightsStep, CloudStep, RestStep DEF PlayInv, MemoryOK
<1> QED BY <1>2, <1>3, WaitersStep, RowsStep DEF PlayInv

LEMMA PlayInvAlways == PlaySpec => []PlayInv
BY PlayInvInit, PlayInvStep, PTL DEF PlaySpec

\* The tables and the memory of the process keep their types.
THEOREM PlayTypeCorrect == PlaySpec => []PlayTypeOK
<1>1. PlayInv => PlayTypeOK
  BY SoundMeans, MemoryMeans DEF PlayInv
<1> QED BY <1>1, PlayInvAlways, PTL

\* Flights, scans, sweeps, users and restarts change the tables by statements of the
\* catalog only.
THEOREM PlaybackImplementsCatalog == PlaySpec => ImplementsCatalog
<1>1. PlayInv /\ [PlayNext]_playVars => [CatNext]_catVars
  BY StepIsStatement DEF PlayInv
<1> QED BY <1>1, PlayInvAlways, PTL DEF PlaySpec, ImplementsCatalog

\* So the catalog stays consistent while files are played: a folder that is deleted
\* never holds a file of another torrent, and a row number names one location.
THEOREM CatalogAgreesInPlayback == PlaySpec => [](RowsAgree /\ MakersAgree /\ RowIdsUnique)
<1>1. PlayInv => RowsAgree /\ MakersAgree /\ RowIdsUnique
  BY SoundMeans DEF PlayInv
<1> QED BY <1>1, PlayInvAlways, PTL

\* Two flights never hold an active row of the restorer for one torrent.
THEOREM OneRestorePerTorrent == PlaySpec => []OneActivePerTorrent
<1>1. PlayInv => OneActivePerTorrent
  BY DEF PlayInv
<1> QED BY <1>1, PlayInvAlways, PTL

\* Whoever waits for a file waits for a flight that exists.
THEOREM WaitersAlwaysHaveFlight == PlaySpec => []WaitersHaveFlight
<1>1. PlayInv => WaitersHaveFlight
  BY DEF PlayInv
<1> QED BY <1>1, PlayInvAlways, PTL

\* A row of the restorer blocks its torrent only while a flight works on it, unless a
\* restart, a deadline or a refused write has cut its run off.
THEOREM RestoresAlwaysRun == PlaySpec => []RestoreRowsAreRun
<1>1. PlayInv => RestoreRowsAreRun
  BY DEF PlayInv, RowsHaveWorker, RestoreRowsAreRun, Needs, WorksOn, Working, HasRow, At, Flying
<1> QED BY <1>1, PlayInvAlways, PTL
=============================================================================
