----------------------------- MODULE TaskManager -----------------------------
(***************************************************************************)
(* internal/task.Manager: the queue of accepted jobs, the worker that      *)
(* turns a batch of gids into concurrent runs, the runs themselves, and    *)
(* the API requests that add, cancel and delete jobs while they go on.     *)
(*                                                                         *)
(* Threads: API requests (Client), one worker goroutine, and one goroutine *)
(* per dispatched batch and per job of it.  Batch is a pool of slots for   *)
(* live runBatch calls; a run is a slot and a gid.  Every database call,   *)
(* every mutex section and every channel operation is a step of its own,   *)
(* so everything a goroutine has read may be stale when it acts on it.     *)
(*                                                                         *)
(* 115 itself is not here: preparing and resolving answer either way.      *)
(***************************************************************************)
EXTENDS Naturals, Sequences, FiniteSets

CONSTANTS
  Hash, Source, MaxDraw, MaxId,   \* see JobTable
  Resumed,    \* the sources NewManagerForSources resumes
  Client,     \* concurrent API requests
  Batch,      \* slots for dispatched batches (bounds the live runBatch calls)
  QueueCap,   \* capacity of the queue channel (maxConcurrentDownloads)
  MaxItems    \* bound on the magnets of one request

ASSUME ManagerAssumption ==
  /\ MaxDraw \in Nat /\ MaxId \in Nat /\ QueueCap \in Nat \ {0} /\ MaxItems \in Nat
  /\ Resumed \subseteq Source

VARIABLES
  jobs,       \* the tasks table
  queue,      \* Manager.queue: a channel of batches of gids
  queued,     \* Manager.queued: the gids marked as waiting
  held,       \* the batch the worker has received and not dispatched yet
  prep,       \* per batch: prepareOnce and prepareErr
  pc,         \* per batch and gid: where that run is
  ctx,        \* per batch and gid: the context of that run
  running,    \* Manager.running: whose cancel function is registered for a gid
  req,        \* the API requests in progress
  available,  \* Provider.Available()
  stopping    \* Manager.ctx is done: the server has been told to stop

managerVars == <<queue, queued, held>>
runVars     == <<prep, pc, ctx, running>>
envVars     == <<available, stopping>>
vars == <<jobs, queue, queued, held, prep, pc, ctx, running, req, available, stopping>>

Table == INSTANCE JobTable WITH jobs <- jobs
Gid   == Table!Gid

RunPc == {"idle", "read", "ready", "registered", "resolve", "preparing", "saved",
          "succeeded", "failed", "cleanup", "leaving"}

\* The run has written "running" and has still to write how it ended.
Working == {"resolve", "preparing", "saved", "succeeded", "failed"}

NoSource  == "none"
NoGid     == <<>>

\* A request about one gid, and a free slot for requests.
About(g, o, p) == [op |-> o, pc |-> p, src |-> NoSource, todo |-> <<>>,
                   picked |-> {}, made |-> {}, gid |-> g]
NoRequest == About(NoGid, "none", "idle")

----------------------------------------------------------------------------
(* Requests that add jobs: Submit with one magnet, SubmitMany with several. *)

At(c, p) == req[c].pc = p
Goto(c, p) == req' = [req EXCEPT ![c].pc = p]
Return(c)  == req' = [req EXCEPT ![c] = NoRequest]

\* The same code serves one magnet (Submit) and a list (SubmitMany).  Both
\* refuse while 115 is unavailable.
Submit(c, s, magnets) ==
  /\ At(c, "idle") /\ available
  /\ req' = [req EXCEPT ![c] = [About(NoGid, "add", "lookup") EXCEPT !.src = s, !.todo = magnets]]
  /\ UNCHANGED <<jobs, managerVars, runVars, envVars>>

\* LatestJob: a job that has not failed and is not canceled answers the magnet.
AlreadyKnown(s, h) ==
  \E g \in Table!LatestJob(s, h) : Table!State(g) \notin {"failed", "canceled"}

\* The next magnet, or the quota check if any job is new, or the end.
AfterItem(r) ==
  LET rest == Tail(r.todo)
  IN  IF rest # <<>> THEN [r EXCEPT !.todo = rest, !.pc = "lookup"]
      ELSE IF r.picked # {} THEN [r EXCEPT !.todo = rest, !.pc = "quota"]
      ELSE NoRequest

LookupJob(c) ==
  /\ At(c, "lookup")
  /\ req' = [req EXCEPT ![c] = IF AlreadyKnown(@.src, Head(@.todo))
                               THEN AfterItem(@) ELSE [@ EXCEPT !.pc = "pickgid"]]
  /\ UNCHANGED <<jobs, managerVars, runVars, envVars>>

\* AssignNewGID: 64 random bits name nothing that is still in use.
Unused(g) ==
  /\ g[2] # 0 /\ ~Table!Exists(g) /\ g \notin queued
  /\ \A b \in Batch : pc[b][g] = "idle"
  /\ \A c \in Client : g \notin req[c].picked \cup req[c].made /\ g # req[c].gid

\* ensureUniqueGID, then seenGIDs: the default gid unless a row has it or an
\* earlier magnet of this request took it.
PickGid(c) ==
  /\ At(c, "pickgid")
  /\ LET h == Head(req[c].todo)
         d == Table!DefaultGid(h)
     IN \E g \in Gid :
          /\ Table!InfoHash(g) = h
          /\ IF Table!Exists(d) \/ d \in req[c].picked THEN Unused(g) ELSE g = d
          /\ req' = [req EXCEPT ![c] = AfterItem([req[c] EXCEPT !.picked = @ \cup {g}])]
  /\ UNCHANGED <<jobs, managerVars, runVars, envVars>>

\* checkOfflineQuota, once for the request.
CheckQuota(c) ==
  /\ At(c, "quota")
  /\ \/ Goto(c, "create")
     \/ Return(c)
  /\ UNCHANGED <<jobs, managerVars, runVars, envVars>>

\* One CreateJob per new job (their order is left out); the first that fails
\* ends the request and the rows already created stay.
CreateRow(c) ==
  /\ At(c, "create")
  /\ \E g \in req[c].picked :
       \/ /\ Table!CreateJob(g, req[c].src)
          /\ req' = [req EXCEPT ![c] = [req[c] EXCEPT
                       !.picked = @ \ {g}, !.made = @ \cup {g},
                       !.pc = IF req[c].picked = {g} THEN "mark" ELSE "create"]]
       \/ /\ Table!CreateRefused(g, req[c].src)
          /\ Return(c)
          /\ UNCHANGED jobs
  /\ UNCHANGED <<managerVars, runVars, envVars>>

\* Faulty variant of MarkQueued: a gid that is already on its way is sent again.
MarkAgain(c) ==
  /\ At(c, "mark")
  /\ queued' = queued \cup req[c].made
  /\ Goto(c, "send")
  /\ UNCHANGED <<jobs, queue, held, runVars, envVars>>

\* enqueueMany under queuedMu: gids that are not waiting yet are marked.
MarkQueued(c) ==
  /\ At(c, "mark")
  /\ LET pending == req[c].made \ queued
     IN  /\ queued' = queued \cup pending
         /\ req' = [req EXCEPT ![c] = IF pending = {} THEN NoRequest
                                      ELSE [@ EXCEPT !.made = pending, !.pc = "send"]]
  /\ UNCHANGED <<jobs, queue, held, runVars, envVars>>

\* The select of enqueueMany: send, or give up and unmark because the channel
\* is full or the manager's context is done.  The rows stay queued.
SendBatch(c) ==
  /\ At(c, "send")
  /\ \/ /\ Len(queue) < QueueCap
        /\ queue' = Append(queue, req[c].made)
        /\ UNCHANGED queued
     \/ /\ Len(queue) >= QueueCap \/ stopping
        /\ queued' = queued \ req[c].made
        /\ UNCHANGED queue
  /\ Return(c)
  /\ UNCHANGED <<jobs, held, runVars, envVars>>

----------------------------------------------------------------------------
(* Requests that cancel or delete a job.                                   *)

Cancel(c, g) ==
  /\ At(c, "idle")
  /\ req' = [req EXCEPT ![c] = About(g, "cancel", "cancelread")]
  /\ UNCHANGED <<jobs, managerVars, runVars, envVars>>

Delete(c, g) ==
  /\ At(c, "idle")
  /\ req' = [req EXCEPT ![c] = About(g, "delete", "deleteread")]
  /\ UNCHANGED <<jobs, managerVars, runVars, envVars>>

\* DeleteWithFiles decides by the state it reads now what it will do later.
DeleteRead(c) ==
  /\ At(c, "deleteread")
  /\ LET st == Table!State(req[c].gid)
     IN  \/ st = "none" /\ Return(c)
         \/ st \in Table!Active /\ Goto(c, "cancelread")
         \/ st = "succeeded" /\ Goto(c, "deleteany")
         \/ st \in {"failed", "canceled"} /\ Goto(c, "deleterow")
  /\ UNCHANGED <<jobs, managerVars, runVars, envVars>>

\* cancel reads the row again and refuses a finished one.
CancelRead(c) ==
  /\ At(c, "cancelread")
  /\ IF Table!State(req[c].gid) \in {"queued", "running", "failed", "canceled"}
     THEN Goto(c, "cancelrow") ELSE Return(c)
  /\ UNCHANGED <<jobs, managerVars, runVars, envVars>>

CancelRow(c) ==
  /\ At(c, "cancelrow")
  /\ \/ Table!CancelJob(req[c].gid) /\ Goto(c, "stoprun")
     \/ Table!State(req[c].gid) = "canceled" /\ Goto(c, "stoprun") /\ UNCHANGED jobs
     \/ Table!State(req[c].gid) \in {"none", "succeeded"} /\ Return(c) /\ UNCHANGED jobs
  /\ UNCHANGED <<managerVars, runVars, envVars>>

\* The registered cancel function is called; then 115 is asked to drop the
\* task, whose failure is only logged.
StopRun(c) ==
  /\ At(c, "stoprun")
  /\ ctx' = [b \in Batch |-> [g \in Gid |->
               IF g = req[c].gid /\ b \in running[g] /\ ctx[b][g] = "live"
               THEN "canceled" ELSE ctx[b][g]]]
  /\ IF req[c].op = "delete" THEN Goto(c, "deleterow") ELSE Return(c)
  /\ UNCHANGED <<jobs, managerVars, prep, pc, running, envVars>>

DeleteRow(c) ==
  /\ At(c, "deleterow")
  /\ Table!DeleteJob(req[c].gid) \/ (~Table!Deletable(req[c].gid) /\ UNCHANGED jobs)
  /\ Return(c)
  /\ UNCHANGED <<managerVars, runVars, envVars>>

DeleteAny(c) ==
  /\ At(c, "deleteany")
  /\ Table!DeleteJobAny(req[c].gid) \/ (~Table!Exists(req[c].gid) /\ UNCHANGED jobs)
  /\ Return(c)
  /\ UNCHANGED <<managerVars, runVars, envVars>>

\* The client goes away: its next database call fails and the request ends.
\* enqueueMany does not use the request's context.
Disconnect(c) ==
  /\ req[c].pc \notin {"idle", "mark", "send", "stoprun"}
  /\ Return(c)
  /\ UNCHANGED <<jobs, managerVars, runVars, envVars>>

----------------------------------------------------------------------------
(* The worker.                                                             *)

\* A select with two ready cases takes either, so a worker that could stop may
\* also go on.
WorkerReceive ==
  /\ held = {} /\ queue # <<>>
  /\ held' = Head(queue)
  /\ queue' = Tail(queue)
  /\ UNCHANGED <<jobs, queued, runVars, req, envVars>>

Free(b) == \A g \in Gid : pc[b][g] = "idle"

\* Faulty variant of WorkerDispatch: the batch starts and stays marked.
DispatchWithoutUnmark(b) ==
  /\ held # {} /\ available /\ Free(b)
  /\ pc' = [pc EXCEPT ![b] = [g \in Gid |-> IF g \in held THEN "read" ELSE "idle"]]
  /\ held' = {}
  /\ UNCHANGED <<jobs, queue, queued, prep, ctx, running, req, envVars>>

\* Waits until 115 is available, unmarks the batch and starts runBatch.
WorkerDispatch(b) ==
  /\ held # {} /\ available /\ Free(b)
  /\ queued' = queued \ held
  /\ pc' = [pc EXCEPT ![b] = [g \in Gid |-> IF g \in held THEN "read" ELSE "idle"]]
  /\ held' = {}
  /\ UNCHANGED <<jobs, queue, prep, ctx, running, req, envVars>>

----------------------------------------------------------------------------
(* runBatch and its runs.                                                  *)

Move(b, g, p) == pc' = [pc EXCEPT ![b][g] = p]

\* A run is over; the last one of a batch lets go of what its runs shared.
Leave(b, g) ==
  /\ Move(b, g, "idle")
  /\ prep' = [prep EXCEPT ![b] = IF \A k \in Gid \ {g} : pc[b][k] = "idle" THEN "none" ELSE @]
  /\ ctx' = [ctx EXCEPT ![b][g] = "live"]

\* runBatch reads the rows one by one and keeps those still queued.
ReadJob(b, g) ==
  /\ pc[b][g] = "read"
  /\ IF Table!State(g) = "queued" /\ ~stopping THEN Move(b, g, "ready") ELSE Move(b, g, "idle")
  /\ UNCHANGED <<jobs, managerVars, prep, ctx, running, req, envVars>>

\* Faulty variant of Register: the run's context is not the manager's child.
RegisterDetached(b, g) ==
  /\ pc[b][g] = "ready" /\ \A k \in Gid : pc[b][k] # "read"
  /\ running' = [running EXCEPT ![g] = {b}]
  /\ ctx' = [ctx EXCEPT ![b][g] = "live"]
  /\ Move(b, g, "registered")
  /\ UNCHANGED <<jobs, managerVars, prep, req, envVars>>

\* When all rows are read every kept job gets a goroutine, which first
\* registers its cancel function under the gid.
Register(b, g) ==
  /\ pc[b][g] = "ready" /\ \A k \in Gid : pc[b][k] # "read"
  /\ running' = [running EXCEPT ![g] = {b}]
  /\ ctx' = [ctx EXCEPT ![b][g] = IF stopping THEN "canceled" ELSE "live"]
  /\ Move(b, g, "registered")
  /\ UNCHANGED <<jobs, managerVars, prep, req, envVars>>

\* UpdateJob(running) under the run's own context.  A run whose deadline passed
\* even before that leaves its row queued and still cleans up at 115.
MarkRunning(b, g) ==
  /\ pc[b][g] = "registered"
  /\ \/ /\ ctx[b][g] = "live"
        /\ Table!UpdateJob(g, "running")
        /\ Move(b, g, "resolve")
     \/ /\ ctx[b][g] # "live" \/ Table!UpdateOutcome(g, "running") # "ok"
        /\ Move(b, g, IF ctx[b][g] = "expired" THEN "cleanup" ELSE "leaving")
        /\ UNCHANGED jobs
  /\ UNCHANGED <<managerVars, prep, ctx, running, req, envVars>>

\* The deadline of job_timeout passes.
Expire(b, g) ==
  /\ pc[b][g] \in Working \cup {"registered"} /\ ctx[b][g] = "live"
  /\ ctx' = [ctx EXCEPT ![b][g] = "expired"]
  /\ UNCHANGED <<jobs, managerVars, prep, pc, running, req, envVars>>

\* Faulty variant of BeginPrepare: a mutex instead of a Once.
PrepareWithoutOnce(b, g) ==
  /\ pc[b][g] = "resolve" /\ prep[b] # "busy"
  /\ prep' = [prep EXCEPT ![b] = "busy"]
  /\ Move(b, g, "preparing")
  /\ UNCHANGED <<jobs, managerVars, ctx, running, req, envVars>>

\* prepareOnce: the first run to get there submits the whole batch, the
\* others wait inside the Once.
BeginPrepare(b, g) ==
  /\ pc[b][g] = "resolve" /\ prep[b] = "none"
  /\ prep' = [prep EXCEPT ![b] = "busy"]
  /\ Move(b, g, "preparing")
  /\ UNCHANGED <<jobs, managerVars, ctx, running, req, envVars>>

\* Faulty variant of EndPrepare: a failed preparation never releases the Once.
EndPrepareOnSuccess(b, g) ==
  /\ pc[b][g] = "preparing"
  /\ ctx[b][g] = "live" /\ prep' = [prep EXCEPT ![b] = "ok"]
  /\ Move(b, g, "resolve")
  /\ UNCHANGED <<jobs, managerVars, ctx, running, req, envVars>>

\* Quota check and batch submission use the context of that one run.
EndPrepare(b, g) ==
  /\ pc[b][g] = "preparing"
  /\ \/ ctx[b][g] = "live" /\ prep' = [prep EXCEPT ![b] = "ok"]
     \/ prep' = [prep EXCEPT ![b] = "failed"]
  /\ Move(b, g, "resolve")
  /\ UNCHANGED <<jobs, managerVars, ctx, running, req, envVars>>

\* ResolvePrepared up to SaveScan, all of it with the run's context, or the shared
\* error of the preparation.
Resolve(b, g) ==
  /\ pc[b][g] = "resolve"
  /\ \/ prep[b] = "ok" /\ ctx[b][g] = "live" /\ Move(b, g, "saved")
     \/ prep[b] \in {"ok", "failed"} /\ Move(b, g, "failed")
  /\ UNCHANGED <<jobs, managerVars, prep, ctx, running, req, envVars>>

\* The rest of finishScan, which can succeed although the context is done: that the
\* 115 task could not be deleted is only logged, and files that are published
\* already need no call.
FinishScan(b, g) ==
  /\ pc[b][g] = "saved"
  /\ Move(b, g, "succeeded") \/ Move(b, g, "failed")
  /\ UNCHANGED <<jobs, managerVars, prep, ctx, running, req, envVars>>

\* Faulty variant of Finish: the final UpdateJob uses the run's own context.
FinishInContext(b, g) ==
  /\ pc[b][g] \in {"succeeded", "failed"}
  /\ IF ctx[b][g] = "live" /\ Table!UpdateOutcome(g, pc[b][g]) = "ok"
     THEN Table!UpdateJob(g, pc[b][g]) ELSE UNCHANGED jobs
  /\ Move(b, g, "leaving")
  /\ UNCHANGED <<managerVars, prep, ctx, running, req, envVars>>

\* Faulty variant of Finish: the UPDATE has no condition on the state it finds.
FinishOverwrites(b, g) ==
  /\ pc[b][g] \in {"succeeded", "failed"}
  /\ jobs' = IF Table!Exists(g) THEN [jobs EXCEPT ![g].state = pc[b][g]] ELSE jobs
  /\ Move(b, g, "leaving")
  /\ UNCHANGED <<managerVars, prep, ctx, running, req, envVars>>

\* The final UpdateJob ignores the run's context.  A canceled row ends the
\* run; any other error of a run whose deadline has passed leads to the
\* timeout cleanup, as does a failure recorded after the deadline.
Finish(b, g) ==
  /\ pc[b][g] \in {"succeeded", "failed"}
  /\ LET outcome == Table!UpdateOutcome(g, pc[b][g])
         error   == outcome # "ok" \/ pc[b][g] = "failed"
     IN  /\ IF outcome = "ok" THEN Table!UpdateJob(g, pc[b][g]) ELSE UNCHANGED jobs
         /\ IF outcome # "canceled" /\ error /\ ctx[b][g] = "expired"
            THEN Move(b, g, "cleanup") ELSE Move(b, g, "leaving")
  /\ UNCHANGED <<managerVars, prep, ctx, running, req, envVars>>

\* CleanupTimedOutTask, whatever 115 answers.
Cleanup(b, g) ==
  /\ pc[b][g] = "cleanup"
  /\ Move(b, g, "leaving")
  /\ UNCHANGED <<jobs, managerVars, prep, ctx, running, req, envVars>>

\* The deferred calls: whatever is registered under the gid is removed.
EndRun(b, g) ==
  /\ pc[b][g] = "leaving"
  /\ running' = [running EXCEPT ![g] = {}]
  /\ Leave(b, g)
  /\ UNCHANGED <<jobs, managerVars, req, envVars>>

----------------------------------------------------------------------------
(* The process.                                                            *)

\* UpdateTokens made 115 usable; nothing makes it unusable while running.
BecomeAvailable ==
  /\ ~available
  /\ available' = TRUE
  /\ UNCHANGED <<jobs, managerVars, runVars, req, stopping>>

\* SIGINT or SIGTERM cancels the manager's context and with it every run's.
Shutdown ==
  /\ ~stopping
  /\ stopping' = TRUE
  /\ ctx' = [b \in Batch |-> [g \in Gid |->
               IF pc[b][g] \notin {"idle", "read", "ready"} /\ ctx[b][g] = "live"
               THEN "canceled" ELSE ctx[b][g]]]
  /\ UNCHANGED <<jobs, managerVars, prep, pc, running, req, available>>

Fresh ==
  /\ held' = {}
  /\ prep' = [b \in Batch |-> "none"]
  /\ pc' = [b \in Batch |-> [g \in Gid |-> "idle"]]
  /\ ctx' = [b \in Batch |-> [g \in Gid |-> "live"]]
  /\ running' = [g \in Gid |-> {}]
  /\ req' = [c \in Client |-> NoRequest]
  /\ available' \in BOOLEAN
  /\ stopping' = FALSE

\* Faulty variant of Restart: the queued rows are listed before the interrupted
\* ones are queued again.
RestartListsFirst ==
  /\ Table!RecoverRunningJobs(Resumed)
  /\ queued' = {g \in Gid : jobs[g].state = "queued" /\ jobs[g].source \in Resumed}
  /\ queue' = IF queued' = {} THEN <<>> ELSE <<queued'>>
  /\ Fresh

\* The process ends, at any point and whether or not it was asked to, and a
\* new one starts: interrupted jobs are queued again and every queued job of
\* the resumed sources is sent as one batch.
Restart ==
  /\ Table!RecoverRunningJobs(Resumed)
  /\ queued' = {g \in Gid : jobs'[g].state = "queued" /\ jobs'[g].source \in Resumed}
  /\ queue' = IF queued' = {} THEN <<>> ELSE <<queued'>>
  /\ Fresh

----------------------------------------------------------------------------
Magnets == UNION {[1..n -> Hash] : n \in 1..MaxItems}

Init ==
  /\ Table!Init
  /\ queue = <<>> /\ queued = {} /\ held = {}
  /\ prep = [b \in Batch |-> "none"]
  /\ pc = [b \in Batch |-> [g \in Gid |-> "idle"]]
  /\ ctx = [b \in Batch |-> [g \in Gid |-> "live"]]
  /\ running = [g \in Gid |-> {}]
  /\ req = [c \in Client |-> NoRequest]
  /\ available \in BOOLEAN
  /\ stopping = FALSE

AddStep(c) ==
  \/ LookupJob(c) \/ PickGid(c) \/ CheckQuota(c)
  \/ CreateRow(c) \/ MarkQueued(c) \/ SendBatch(c)

CancelStep(c) ==
  \/ DeleteRead(c) \/ CancelRead(c) \/ CancelRow(c)
  \/ StopRun(c) \/ DeleteRow(c) \/ DeleteAny(c)

RequestStep(c) == AddStep(c) \/ CancelStep(c) \/ Disconnect(c)

NewRequest(c) ==
  \/ \E s \in Source, m \in Magnets : Submit(c, s, m)
  \/ \E g \in Gid : Cancel(c, g) \/ Delete(c, g)

RunStep(b, g) ==
  \/ ReadJob(b, g) \/ Register(b, g) \/ MarkRunning(b, g)
  \/ BeginPrepare(b, g) \/ EndPrepare(b, g) \/ Resolve(b, g) \/ FinishScan(b, g)
  \/ Finish(b, g) \/ Cleanup(b, g) \/ EndRun(b, g)

\* Everything but the end of the process.
LifeStep ==
  \/ \E c \in Client : NewRequest(c) \/ RequestStep(c)
  \/ WorkerReceive
  \/ \E b \in Batch : WorkerDispatch(b)
  \/ \E b \in Batch, g \in Gid : RunStep(b, g) \/ Expire(b, g)
  \/ BecomeAvailable
  \/ Shutdown

Next == LifeStep \/ Restart

Spec == Init /\ [][Next]_vars

\* The Go scheduler runs every goroutine that can run, database calls return,
\* calls to 115 return at the latest when job_timeout ends their context, and
\* 115 becomes available; users owe nothing, a worker told to stop owes nothing,
\* and the process is not restarted for ever.
Fairness ==
  /\ \A c \in Client : WF_vars(AddStep(c) \/ CancelStep(c))
  /\ WF_vars(~stopping /\ WorkerReceive)
  /\ WF_vars(\E b \in Batch : ~stopping /\ WorkerDispatch(b))
  /\ \A b \in Batch, g \in Gid : WF_vars(RunStep(b, g))
  /\ WF_vars(BecomeAvailable)
  /\ <>[][~Restart]_vars

FairSpec == Spec /\ Fairness

----------------------------------------------------------------------------
(* Properties.                                                             *)

AddPc     == {"lookup", "pickgid", "quota", "create", "mark", "send"}
RemovePc  == {"deleteread", "cancelread", "cancelrow", "stoprun", "deleterow", "deleteany"}
RequestPc == {"idle"} \cup AddPc \cup RemovePc

Request == [op : {"none", "add", "cancel", "delete"}, pc : RequestPc,
            src : Source \cup {NoSource}, todo : Seq(Hash),
            picked : SUBSET Gid, made : SUBSET Gid, gid : Gid \cup {NoGid}]

\* What a request needs is there when it needs it, and no longer.
RequestOK(r) ==
  /\ r.pc = "idle" => r.made = {}
  /\ r.pc \in AddPc => r.src \in Source
  /\ r.pc \in {"lookup", "pickgid"} => r.todo # <<>>
  /\ r.pc \in RemovePc => r.gid \in Gid

\* Every variable has the shape its declaration says.
TypeOK ==
  /\ Table!TypeOK
  /\ queue \in Seq(SUBSET Gid)
  /\ queued \in SUBSET Gid
  /\ held \in SUBSET Gid
  /\ prep \in [Batch -> {"none", "busy", "ok", "failed"}]
  /\ pc \in [Batch -> [Gid -> RunPc]]
  /\ ctx \in [Batch -> [Gid -> {"live", "canceled", "expired"}]]
  /\ running \in [Gid -> SUBSET Batch]
  /\ req \in [Client -> Request] /\ \A c \in Client : RequestOK(req[c])
  /\ available \in BOOLEAN
  /\ stopping \in BOOLEAN

\* Where a gid marked in Manager.queued can be: in the channel, with the
\* worker, or with a request that has marked it and not sent it yet.
InChannel == UNION {queue[i] : i \in 1..Len(queue)}
Sending(c) == IF At(c, "send") THEN req[c].made ELSE {}
Marked    == UNION {Sending(c) : c \in Client}

InOnePlace ==
  /\ \A i, j \in 1..Len(queue) : i # j => queue[i] \cap queue[j] = {}
  /\ held \cap InChannel = {}
  /\ \A c \in Client : Sending(c) \cap (InChannel \cup held) = {}
  /\ \A c, d \in Client : c # d => Sending(c) \cap Sending(d) = {}

\* Manager.queued names exactly the gids on their way to a batch, each in one
\* place: none is lost when the channel is full or the context is done (it
\* could never be queued again), none stays marked after its batch started,
\* none is on its way twice.
QueuedMapExact == queued = InChannel \cup held \cup Marked /\ InOnePlace

\* Every row of a resumed source that says running has a run behind it that
\* will still write how it ended, whatever was canceled, deleted, added again
\* or restarted meanwhile.
NoOrphanRunning ==
  \A g \in Gid : Table!State(g) = "running" /\ jobs[g].source \in Resumed
                  => \E b \in Batch : pc[b][g] \in Working

\* One run prepares a batch that is being prepared, and what came of it stays.
OnceOf(b) ==
  /\ prep[b] = "busy" <=> \E g \in Gid : pc[b][g] = "preparing"
  /\ \A g, k \in Gid : pc[b][g] = "preparing" /\ pc[b][k] = "preparing" => g = k
ResultStays(b) ==
  prep[b] \in {"ok", "failed"} => prep'[b] = prep[b] \/ \A g \in Gid : pc'[b][g] = "idle"

\* prepareOnce: while a batch is prepared exactly one run is at it, and its result
\* is that of every run of the batch until the last has ended: no run prepares
\* again, neither beside the first nor after it.
OnePreparer == [](\A b \in Batch : OnceOf(b)) /\ [][\A b \in Batch : ResultStays(b)]_vars

\* A canceled row stays canceled until it is deleted, although the run it
\* belonged to goes on for a while and then writes its own end.
CanceledIsFinal ==
  [][\A g \in Gid : Table!State(g) = "canceled" => jobs'[g].state \in {"canceled", "none"}]_jobs

\* Something will still act on the queued row of g: it is marked as waiting, a
\* request has created it and not enqueued it yet, or a run is about to start it.
CaredFor(g) ==
  \/ g \in queued
  \/ \E c \in Client : g \in req[c].made
  \/ \E b \in Batch : pc[b][g] \in {"read", "ready", "registered"}

\* The row says queued, and nothing in this process will ever start it.
Stranded(g) ==
  /\ Table!State(g) = "queued" /\ jobs[g].source \in Resumed
  /\ ~CaredFor(g)

\* The ways to give up a queued row: its request ends between CreateJob and
\* enqueueMany; the channel is full or the manager stops; the batch is read
\* while it stops; or the run's context was done before it wrote "running".
Abandons(g) ==
  \/ \E c \in Client : g \in req[c].made /\ req[c].pc \notin {"mark", "send"} /\ req'[c].pc = "idle"
  \/ \E c \in Client : At(c, "send") /\ g \in req[c].made /\ (Len(queue) >= QueueCap \/ stopping)
  \/ \E b \in Batch : pc[b][g] = "read" /\ stopping
  \/ \E b \in Batch : pc[b][g] = "registered" /\ ctx[b][g] # "live"

StrandsByAbandoning ==
  \A g \in Gid : /\ Stranded(g)' => Stranded(g) \/ Abandons(g)
                 /\ Restart => ~Stranded(g)'

\* A queued row is stranded by one of those four only, whatever is canceled,
\* deleted, added again or timed out meanwhile, and a restart picks up every
\* stranded row (enqueueMany, runBatch, run, NewManagerForSources).
StrandedOnlyThen == [][StrandsByAbandoning]_vars

\* The run has stored what 115 has for its torrent.
StoredPc == {"saved", "succeeded"}
Stored(b, g) == pc[b][g] \in StoredPc

StartsNothing ==
  stopping /\ stopping' =>
    /\ \A g \in Gid : jobs'[g].state = "running" => Table!State(g) = "running"
    /\ \A b \in Batch, g \in Gid : Stored(b, g)' => Stored(b, g)

\* Once the manager has been told to stop no job starts and no run stores a scan,
\* not even in a batch that was read before: its runs get contexts that are done
\* (runJob, resolve).  So a row becomes succeeded only by a run that has stored its
\* scan before.
NothingStartsAfterStop == [][StartsNothing]_vars

\* Whatever the threads do, the tasks table only ever changes by one of its
\* statements: the manager implements the table's own specification.
ImplementsTable == Table!Spec

\* A gid that was marked gets its batch started (or is given up).
MarkedIsDispatched == \A g \in Gid : (g \in queued) ~> (g \notin queued \/ stopping)

\* Every run ends and frees what it holds, also when the preparation its
\* batch shares fails or is canceled.
RunsEnd == \A b \in Batch, g \in Gid : (pc[b][g] # "idle") ~> (pc[b][g] = "idle")

\* A running row does not stay so for ever.
RunningEnds == \A g \in Gid : (Table!State(g) = "running") ~> (Table!State(g) # "running")
=============================================================================
