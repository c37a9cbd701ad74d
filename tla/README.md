# A verification model of magnet-to-strm

magnet-to-strm accepts magnet links (aria2 JSON-RPC, qBittorrent API, HTTP API,
command line), has the 115 cloud download them, records what arrived in SQLite,
writes one `.strm` file per video, and serves the videos over WebDAV by asking
115 for a download URL. Missing cloud files are restored from their magnet when
they are played.

The TLA+ modules here model the parts of it whose correctness depends on the
order of events: several goroutines, several requests, several processes on one
database, a remote service that answers late, and restarts. TLC checks them on
small instances; TLAPS checks proofs for all instances.

## The system

| component | state | operations | talks to |
|---|---|---|---|
| task manager (`internal/task`) | `queue` channel, `queued` and `running` maps, worker, batches | submit, cancel, delete, run, resume after restart | job store, job runner, 115 |
| job runner (`internal/ingest`, `RunJobWithResolver`) | the job it was given | write `running`, resolve, write the end | job store, ingest pipeline |
| job store (`internal/storage/sqlite/ingest.go`) | table `tasks` with its unique indexes | create, update, cancel, delete, recover, latest | – |
| ingest pipeline (`internal/ingest/service.go`) | none of its own (a recycle-bin flag) | prepare a batch, wait, scan, publish, rebuild, clean up | poller, 115, catalog, STRM store |
| offline task poller (`internal/ingest/offline_tasks.go`) | a record per torrent (task, deadline, waiters), a wake-up channel, one fetch at a time | query, create, cancel, wait, invalidate, restart, poll | 115 |
| content catalog (`internal/storage/sqlite`) | torrents, contents, remote locations, managed artifacts | save scan, mark deleted, touch, list expired | – |
| materializer (`internal/materialize`) | resolution flights, resolution cache, recycle-bin flight | resolve a played file, sweep the cache | catalog, restorer, 115 |
| restorer and wiring (`internal/bootstrap`) | – | run a restore job | job store, pipeline |
| 115 client and tokens (`internal/provider/p115`, `storage/sqlite/credentials.go`) | tokens in memory and in SQLite, lease, rate limiter | before/after a call, refresh, update | 115, credential rows shared by processes |
| WebDAV handler (`internal/transport/webdav`) | download URL cache and flights | serve a file, retry an expired URL | materializer, 115 |
| STRM store (`internal/strm`) | files | atomic write, replace prefix | – |
| aria2, qBittorrent, HTTP and configuration APIs | – | translate to the task manager | task manager, tokens |
| command line, setup server, rclone supervisor, configuration, migrations, logging, web UI | files, child process | start, stop | everything |

What is hard in it:

- **Interleaving.** API requests, one worker, one goroutine per batch and per
  job work on the same rows; every decision is taken on a row read earlier.
- **Identity reused.** A job's gid is the prefix of the info hash, so deleting a
  job and adding its magnet again gives the new row the gid an old run still has.
- **Shared work.** The runs of a batch share one preparation (`sync.Once`) made
  with the context of whichever run gets there first; waiters share one poller;
  players share one restore.
- **Stopping.** The process can end between any two steps. A graceful stop
  cancels every run, and each run still writes its end.
- **Things outside disappear.** Files vanish from 115 between the look at them
  and their use; an info hash names whatever task 115 has for it now.
- **Several processes** refresh the same 115 tokens under a database lease.

What makes each component correct:

- *job store*: one active row per source and torrent; ids name one row; canceled
  is final.
- *task manager*: the queued map and the queue agree; what is accepted is
  dispatched; a running row has a run behind it; a batch is prepared once; a run
  ends; a canceled job stays canceled.
- *poller*: no waiter is forgotten by the poller or left behind by its call; the
  poller never sleeps past a deadline; a new task does not get the old one's
  status (it can, see below).
- *tokens*: one refresh at a time over all processes, always under the lease; no
  deadlock between refresh, limiter and update; no slot lost. (That a refresh
  token is sent once and that the stored pair is the newest do not hold, see
  below.)
- *materializer and restorer*: one restore row per torrent at a time, and a run
  behind each; every client is answered, whatever becomes of the flight it waits
  for. (That what is played exists, and that the sweep deletes nothing in use, do
  not hold, see below.)
- *WebDAV*: one call to 115 per address; nobody waits for a flight that has
  ended; a refused address is replaced and never tried again, a good one is
  never thrown away.
- *catalog*: rows that name each other are of one torrent, although SQLite uses
  ids again. (That a content has one live location per torrent does not hold, see
  below.)

`PROJECT.json` lists every hazard with its line and the properties aimed at it.

## The modules

**`JobTable`** is the abstract specification of the job store: the `tasks` table
as a function from gids to rows and one action per SQL statement
(`CreateJob`, `UpdateJob`, `CancelJob`, `DeleteJob`, `DeleteJobAny`,
`RecoverRunningJobs`). A gid is a pair of a torrent and a draw; draw 0 is the
default gid (the first 16 digits of the info hash), the others are the random
gids of `AssignNewGID`. The `UNIQUE` columns and the partial unique index
`idx_tasks_active_source_torrent` are `CreateRefused` and `ActiveTwin`.

**`TaskManager`** is `internal/task.Manager` with the job runner. It uses the
statements of `JobTable` through `Table == INSTANCE JobTable` and is shown to
implement it.

| code | model |
|---|---|
| `Manager.queue`, `queued`, the batch the worker holds | `queue`, `queued`, `held` |
| `prepareOnce`, `prepareErr` of a `runBatch` call | `prep[b]` |
| a goroutine of `runBatch`/`runJob`, its context | `pc[b][g]`, `ctx[b][g]` |
| `Manager.running` | `running[g]`: whose cancel function is there |
| a call of `Submit`, `SubmitMany`, `Cancel`, `Delete` | `req[c]`, with what it has read |
| `Provider.Available()`, `Manager.ctx` done | `available`, `stopping` |

`Submit`/`SubmitMany` are `Submit`, `LookupJob` and `PickGid` for every magnet,
`CheckQuota`, `CreateRow` for every new one, `MarkQueued` and `SendBatch`.
`Cancel` and `DeleteWithFiles` are `CancelRead`, `CancelRow`, `StopRun` and
`DeleteRead`, `DeleteRow`, `DeleteAny`. The worker is `WorkerReceive` and
`WorkerDispatch`; a run is `ReadJob`, `Register`, `MarkRunning`, `BeginPrepare`
and `EndPrepare` (in one run of the batch), `Resolve` up to the stored scan,
`FinishScan`, `Finish`, `Cleanup` and `EndRun`. `Expire` is the run's deadline, `Disconnect` the end of a request's
context, `Shutdown` the signal, `Restart` a crash or stop at any point followed
by `newManager`. Every database statement, mutex section and channel operation
is a step of its own.

**`CategoryUpdates`** extends it with the two requests that write a whole row
back after reading it: `SetCategory` of the qBittorrent interface, and `Submit`
of a known magnet with another category.

**`OfflineTasks`** is the `offlineTaskManager` of `internal/ingest` with the
callers that use it, the calls of `Service.resolve`, against an external 115
whose tasks finish, vanish and are created again.

| code | model |
|---|---|
| `offlineTaskManager.tasks` | `record[h]`: `task`, ticks `left` until `nextPollAt`, `waiters` |
| `wake` (capacity 1), a waiter channel (capacity 1) | `wake`, `call[c].box` |
| the goroutine of `run` and `poll`, its timer | `poller` |
| the holder of `fetchMu` and how far its `fetch` is | `fetch` |
| a call of `resolve`, what it holds | `call[c]`; its `stage` tells the first creation, the one that replaces a conflicting task and the rebuild apart |
| 115: the task list, `Task.LastUpdate` | `remote`, `epochs`, `clock` |

A `resolve` is `Begin`, `Create` (with the signal of `invalidate`), `Restart`
and `Signal`, or after a conflict `Lookup` and `LookupDone` and, when it
restores, `Delete` and another `Create`; then `Wait`, `Receive` or `GiveUp`,
`Unregister`, as often as the task is not done; `Scan`, which can lead back to
`Delete` once; and `Drop`. The poller is `Choose`, `WakeUp`, `PollLock`,
`PollUnlock` and `Deliver`, a fetch `ListPage` and `ApplyPage` page by page or
`ListFails`. Time is `Tick`. Every section under `mu`, every call to 115 and
every channel operation is a step.

**`TokenLease`** is the locking and refreshing part of `p115.Client`, for several
processes with one database, against an external 115 whose refresh tokens work
once.

| code | model |
|---|---|
| the row of `credentials`, a `Credential` | `cred`: the pairs its two tokens came in, and what is known of the expiry |
| the row of `leases` | `lease`: its owner until its time has passed, `"gone"` for a process that has ended |
| `Client.available`, and whether the process runs | `status[p]` |
| `Client.credential`, the tokens inside `Client.sdk` | `mem[p]` |
| the callback of `SetOnRefreshToken` in `Client.sdk` | `hooked[p]` |
| `apiLimiter.concurrent` | `slots[p]` |
| a goroutine in `before` ... `after` or in `UpdateTokens` | `call[t]`; `requestMu` and `refreshMu` are held by whom `pc` says |

A call is `BeginCall`, `ReadLock`, `TakeSlot` or `GiveUp`, `Check` (with
`refreshMu`), and if the token is about to expire `Acquire`, then `Poll` or
`Send`, `Callback`, `Save` and `Release`, or `Cool` after a failure; `After`
ends it. An update is `BeginUpdate`, `Announce` and `WriteLock` (Go's `RWMutex`
keeps new readers out for a waiting writer), `Tokens`, `Store`, `Judge`, `Keep`,
`Expire`, `GiveBack` and the same refresh; the SDK it makes reports to nobody until
the update has succeeded (`Reports`). Every database statement and request
can fail, answers of 115 get lost, `LeaseExpires` and `Crash` come at any time.

**`LeaseService`** is what the row of `leases` promises its users, without
goroutines, locks or tokens: a client refreshes in time, late or not at all (`use`),
and a lease is taken, prolonged and given up by its owner only. `TokenLease`
implements it (`ImplementsLease`): a client's `use` is that of the goroutine of it
that refreshes, if any does (`UseOf`), and a second one of the same client would be
a step the service does not have. `Take` is `Acquire`, `Finish` the several ends of
`Release`, `CoolDown` is `Cool`, `EndCoolDown` is `GiveBack`.

**`Catalog`** extends `JobTable` by the tables that say what the cloud holds, with
one action per method of `ingest.Repository` and `materialize.Repository` (each
is one transaction).

| code | model |
|---|---|
| `managed_artifacts` | `artifact[a]`: torrent, creating task, result and source folder, whether nobody used it for the retention |
| `remote_locations` | `location[f]`, by file (`UNIQUE(provider, remote_file_id)`); `"deleted"` is a row with `deleted_at` |
| `torrent_files` with `removed_at IS NULL` | `listed[h]` |
| `INTEGER PRIMARY KEY` without `AUTOINCREMENT` | `IsNextId`, `IsNextArtifact`, `NewIds`: the largest id plus one |
| `ON DELETE SET NULL`, `ON DELETE CASCADE` | `Forget`, `DropArtifacts` |

`upsertManagedArtifact` is `UpsertTarget` with `Upserted`, `upsertRemoteLocation`
is `Replaced`, the last statement of `SaveScan` is `Leftover`. `SaveLocation` is
`SaveRestored` or `SaveFound`, with and without a source torrent. A file is a
content within a copy; a copy is a folder that 115 has made for a torrent.

**`Playback`** extends `Catalog` by the materializer, the restorer and the scan
that goes on behind a restore. It is the composition of four components over the
same tables, and is shown to change them by statements of `Catalog` only
(`ImplementsCatalog`).

| code | model |
|---|---|
| `ResolutionCache.flights`, the goroutine of a flight and where `resolve` is | `flight[c]` |
| `ResolutionCache.entries` | `cache[c]` |
| a call of `ResolveFrom` | `asked[p]` |
| `finishBackgroundScan` goroutines | `scans` |
| the candidates of `Cleanup`, of `cleanupOverCapacity`, and the folders of `DeleteCompletedTaskFiles` for users | `sweep`, by whom it is deleted (`by`) |
| `fetchMu`, held by the poller or another job | `polling` (a flight holds it at `"fetch"`) |
| 115: files, offline tasks | `remote`, `offline`, `made` |

A flight is `Ask`, `Lookup`, `CheckGone` for each location that is gone, and
`CheckFound` or `CheckNone`; then for each torrent in turn `NameRow`, `CreateRow` or
`RowRefused`, `Run`, `Submit`, or where 115 has a task of the torrent already
`Conflict`, `LockFetch`, `Fetched`, `Replace` and `Submit`; `Track`, `Arrive`,
`Found`, or once `Rebuild`, `RebuildMark` and `Replace`; `Succeed` or `Fail`; and
`Save`, `Answer`. `Deadline` is `OperationTimeout`; `GiveUp`, `RunLate`, `Stumble`,
`Trouble` and `Unwritten` (the store refuses a write of the row) are the ways it and
errors end a flight. Beside it go `Poll` and `PollEnds` (whoever else holds
`fetchMu`), `EndScan` and `ClearTask`, the sweep, users that cancel
and delete rows (`Cancel`, `Remove`, `TaskDeleted`, `DeleteFiles`), 115 (`Complete`,
`Vanish`) and `Restart`. The waiting for 115 is coarser than in `OfflineTasks`: a
call of `waitForTask` sees the task of its torrent when it sees it.

**`DownloadURLs`** is the download half of the WebDAV handler, **`AddressCache`**
what it promises: one fetch at a time for a key, an address stays until it is
refused, what was refused does not come back.

| code | model |
|---|---|
| `downloadURLCache.entries`, `flights` | `entries`, `flights` (a flight is its leader) |
| a request in `download`, its attempt | `reqs[r]`; `first` is the address refused at the first attempt |
| the addresses 115 gives out | numbers, a new one for every call (`issued`) |

`Hit`, `Join` and `Lead` are the first critical section of `cachedDownloadURL`,
`Fetched` and `FetchFails` the second one, in which the leader hands its result to
all who joined. `Unusable`, `Served` and `Refused` are what an address turns out
to be, `Evict` is `invalidateDownloadURL` with the second attempt or its end.

**`MCTaskManager`, `MCCategoryUpdates`, `MCOfflineTasks`, `MCTokenLease`,
`MCCatalog`, `MCPlayback`, `MCDownloadURLs`** instantiate them for TLC.
**`MCTaskManagerDocs`** and **`MCOfflineTasksDocs`** hold sentences of the
documentation and of comments against the models.

Operators introduced as "faulty variant of" an action are plausible bugs of that
action. They belong to no specification; they are substituted for the action to
see that a property notices.

## The runs

| run | what it asks | bounds |
|---|---|---|
| `manager` | `TypeOK`, `QueuedMapExact`, `NoOrphanRunning`, `CanceledIsFinal`, `ImplementsTable`, `StrandedOnlyThen`, `NothingStartsAfterStop` | 1 torrent and gid, 2 requests, 2 live batches, a queue of 1 |
| `batch` | `OnePreparer`, `MarkedIsDispatched`, `RunningEnds`, `RunsEnd` for batches of two jobs and a queue that can be full | 2 torrents, 1 request, 1 live batch, one life of the process without deletions |
| `category` | `OneActiveDespiteEdits`, `CanceledDespiteEdits`, `LostByStaleWritesOnly` | 1 torrent, 2 gids, 1 source, 1 request, 1 batch, 1 category writer |
| `category_stuck` | refuted: `RunningIsBounded` | 1 of each |
| `docs_stranded` | refuted: `QueuedIsExecuted` | 1 torrent, 2 gids, 2 magnets in a request |
| `offline` | `OfflineTypeOK` (no waiter outlives its call's wait), `NeverOversleeps`, `ListenersAreRegistered`, `WaitersAreAnswered` | 1 torrent, a call that resolves beside one that restores, 1 task created on 115, deadlines of 1 and 2 ticks |
| `token` | `RefreshesUnderLease`, `OneRefresher`, `ImplementsLease`, `FreshPairs`, `RowLostOnlyThen` | 2 processes, 1 goroutine that calls, 1 that updates with refresh tokens, 3 pairs of tokens |
| `token_liveness` | `SlotsCounted`, `CallsEnd` | 1 process that can crash and start again, 2 calls, 1 update, 1 slot, 2 pairs |
| `catalog` | `IdsUnique`, `RowsAgree`, `MakersAgree`, `RowIdsUnique` | 2 torrents with 1 content and 1 folder each, ids up to 2 |
| `playback` | `OneActivePerTorrent`, `RestoreRowsAreRun`, `WaitersHaveFlight`, `ImplementsCatalog`, `RequestsAreAnswered` | 1 torrent with 2 contents, 2 folders in all, 2 requests, 2 gids, 1 event in between or flights that hang |
| `download` | `OneCallPerKey`, `JoinedFlightsAreLed`, `LinksWereRefused`, `RetryUsesNewer`, `ImplementsCache`, `DownloadsEnd` | 2 keys, 3 requests, one malformed address |
| `docs_stale_epoch` | refuted: `StatusIsNotInherited` | 1 torrent, 2 calls, 2 tasks created |

Why these bounds are enough: what goes wrong in the manager goes wrong between
two actors on one gid (two requests, a request and a run, an old run and its
successor after the gid was reused), or between the runs of one batch. `manager`
has two of every actor on one gid, `batch` has two jobs in one batch, `category`
has two gids for one torrent. With one gid the queue of `manager` is never full when
a request sends to it: its refusal is met there by stopping, and a full queue is
covered by the proofs of `QueuedMapExact` and `StrandedOnlyThen`, for any capacity. `MaxId` bounds
`tasks.id`, `MaxDraw` the random gids in use at once, `Batch` the live
`runBatch` calls, `MaxItems` the magnets of a request, `QueueCap` the channel
(128 in the code). In the poller everything goes through the record of one
torrent: two calls share its waiters and race with the poller, the fetch lock
and each other's deletions, two tasks on 115 are an old one and its successor,
and two different deadlines let one move forward while the poller sleeps on the
other (`MaxEpoch`, `MaxWait`). Torrents meet only in the choice of the earliest
deadline and in the pages of a fetch; for these the proofs of the safety
properties hold for any number. `MaxUpd` bounds 115's clock: with 1 all tasks
have the same `LastUpdate`, which is where `newerOfflineTask` has to compare the
rest.
The lease is contended by two processes (`token`), and by a process and its dead
predecessor (`token_liveness`), the locks of a client by two calls and an update
for one slot. `MaxPair` bounds the pairs 115 issues. With
2, a token is rotated once, and is spent for everybody who still has it; what
becomes of a new pair until the next one takes a third. In `token`, which has
three, users enter nothing but refresh tokens (`RefreshTokensOnly` in
`MCTokenLease`): an access token entered beside it changes none of the orders its
properties are about. `token_liveness` has two, and every kind of update. The
proofs have neither bound.
The type invariants of `CategoryUpdates`, `TokenLease`, `Catalog`, `Playback` and
`DownloadURLs` are in no run: they are proved for all instances, and what breaks
them breaks one of the properties that are.
What the statements of the catalog can confuse are two torrents and the ids that
one gives back and the other takes (`catalog`; `Plain` in `MCCatalog` names what
its run leaves out to stay small). Two folders for one torrent, and two contents
whose flights share its 115 task, are in `playback`: 115 makes at most `MaxCopy`
folders, so the torrent is downloaded at most twice, and the program runs on by
itself in one of two ways: with one event of `Interfere` at any point (`MaxEvent`: a
client that leaves, a cache entry that expires, an error, a sweep, a user, a file
that vanishes, a restart; the deadline of a flight that cannot go on always comes),
or with none but flights that may hang in any call until their deadlines
(`Hanging`). Somebody else holds `fetchMu` where a flight is about to wait for it
(`PollsInTheWay`). Longer chains of events, and any number of torrents and contents, are
covered by the proofs of the safety properties. In `download` a request calls 115
at most twice, so nothing is bounded but the sets; three requests are a leader, a
follower and one that is late.
Deadlock is not checked in these runs: a server with nothing to do stops.

Fairness: every request, the worker and every run is weakly fair: the Go
scheduler runs what can run, database calls return, and calls to 115 return at
the latest when the run's `job_timeout` ends its context. The last is an assumption
where a call waits for a mutex that asks for no context (`fetchMu`, and `requestMu`
and `refreshMu` of the client): there it returns only if 115 answers whoever holds
the mutex. In particular `RunsEnd` assumes that a preparation returns; one that did
not would hold all runs of its batch inside the `Once`. `BecomeAvailable` is
fair: a liveness claim about queued jobs presupposes that 115 is configured in
the end. Users owe nothing (no fairness for new requests or disconnects), a
worker that has been told to stop owes nothing, and the process is not restarted
for ever. In `OfflineTasks` every call, the poller and the fetch are weakly
fair, and time passes. The lock `fetchMu` is taken with strong fairness: Go's
mutex hands itself over to a waiter that has starved for a millisecond. 115
answers, and from some time on without errors (`<>[][~ListFails]_vars`): a
waiter is told nothing while the list cannot be read. Callers do not have to
give up, and 115 does not have to finish anything. In `TokenLease` statements
and requests return (weak fairness), and whoever waits for `requestMu`,
`refreshMu` or a slot gets it if it becomes free again and again (strong
fairness: Go's mutexes and channels serve who has waited long). No lease has to
expire: `ensureFresh` stops waiting for another process after fifteen seconds.
In `Playback` a flight owes nothing before its deadline: it may hang in any call.
The deadline comes (`OperationTimeout` is `ingest.job_timeout`, which is positive),
and the goroutine of a flight whose deadline has passed is weakly fair. One wait
outlasts the deadline: `fetch` takes `fetchMu` whatever the context of its caller
says (offline_tasks.go:285), and the poller holds it during a call to 115 that has
no deadline (offline_tasks.go:251; the HTTP client has no timeout, token.go:219).
That `RequestsAreAnswered` holds needs that this call returns (`WF` of `PollEnds`),
which is an assumption about 115 that the code does not enforce, and that the mutex
goes to who has waited long (`SF` of `LockFetch`); without either TLC finds a request
that waits for ever. `requestMu` and `refreshMu` of the 115 client ask for no context
either: that a call gets past them is assumed here and is `CallsEnd` in `TokenLease`,
again from the assumption that requests return. The scans, the sweep and the clients
owe nothing. In `DownloadURLs` a request goes on: 115 and the download server answer,
or their calls fail (`Progress`); clients need neither come nor leave.

### What the runs refute

- `category_stuck`: a category request that has read a running row writes it
  back after the run has finished; the row says running and nothing will end it.
  (The same stale write can also set a re-added job to `succeeded`.)
- `docs_stranded`: `SubmitMany` stops at the first row that cannot be created.
  The rows before it stay queued without being enqueued, and answer later
  submissions of their magnets, until a restart. How else a queued row is left to
  nobody is stated and proved by `StrandedOnlyThen`.
- `docs_stale_epoch`: the comment of `restart` promises that a new task does not
  inherit the old one's status. A page listed before the old task was deleted is
  applied after the record was started afresh, and since `restart` has set
  `LastUpdate` to zero it counts as newer. The caller that has just created the
  new task can be told that it is done, with the result of the old one; what
  saves it is the rebuild in `resolve`, once. `poll` has the same window between
  its fetch and its delivery.

The following are behaviours of the models (or of the code next to them) that no
run refutes, since nothing in the repository says they should not be, or what it
says is not precise enough to be stated:

- `ensureFresh` judges and refreshes the token it has in memory. A process that
  has not refreshed for long takes the free lease and sends a refresh token that
  another process has rotated; 115 refuses, and the refusal keeps the lease for
  ten minutes (`Send` with a spent token, then `Cool`). The same process may try
  again at once, since its own lease does not stop it (`Grants`). What it cannot do
  is use up a pair that another process has just got (`FreshPairs`).
- `UpdateTokens` reads the row without the lease (`Tokens`) and writes it later
  (`Store`, `Expire`). A refresh of another process in between is overwritten
  with the spent token, or its `Save` overwrites what the user has entered; if
  the update waits in `Poll` meanwhile it then reports success. These writes, an
  answer of 115 that gets lost, a save that fails or comes after the lease, and a
  crash are all that can leave a row whose refresh token is spent
  (`RowLostOnlyThen`); whoever starts from it is refused, until a user enters new
  tokens or a process that remembers a later pair refreshes with that.
- A graceful stop cancels the runs, and each writes `failed`, but one that has
  stored its scan can still succeed (`FinishScan`: that the 115 task could not be
  deleted is only logged, and publishing asks for no context where every file is
  published). Only rows that still say running are queued again. docs/architecture.md:23 speaks of unfinished
  running jobs, which may or may not mean these.
- A restore row left queued or running by a restart, by a deadline that passed
  before its run began, or by a write that the store refused, is in `stray`: nothing recovers it, and the unique index
  refuses every restore of its torrent until somebody deletes the row.
- The sweep decides on rows it has read and deletes folders one after the other
  (`SweepStart`, `SweepDelete`): a content played in between loses its file,
  although docs/operations.md:27 keeps what is still in use. The resolution cache
  does not notice (`Serve`), and its sliding lifetime can keep the dead answer as
  long as it is asked for.
- `SaveFound` makes the row live again that it has found, also when a scan has
  replaced it meanwhile: a content then has two live locations of one torrent
  (docs/design.md:19 says one). Its torrent's older folders are not deleted when a
  scan drops their artifacts (`Leftover`).
- `findExisting` and the sweep mark rows by ids they have read before they asked
  115. Ids are unique at any time (`RowIdsUnique`), but one that was deleted and
  given to another row since is marked in its place.
- The end of a scan deletes the 115 task of the torrent, whoever made it
  (`ClearTask`), and a second restore replaces the folder the first one is still
  scanning (`Replace`). Both restores end, by their deadline at the latest.
- A follower of an address flight fails when the client of its leader is gone
  (`FetchFails`), although its own client still waits. With the materializer's
  flights this was avoided: they have a context of their own.
- docs/design.md:14 has a search for the file by name before a restore; the code
  has none.

## The proofs

`JobTableProofs` proves `TypeOK`, `OneActivePerTorrent` and `IdsUnique` as
invariants and `CanceledIsFinal` as an action property of `JobTable`, from
`TableAssumption` (the bounds are natural numbers) alone. Each is inductive
given `TypeOK`.

`TaskManagerProofs`, from `ManagerAssumption`:

- `RefinesStep`: every step of the manager is a statement of the table or leaves
  it alone. So the manager implements `JobTable!Spec` (`ManagerImplementsTable`)
  and inherits its theorems (`OneActivePerTorrent`, `CanceledStaysCanceled`):
  `SameTable` links the copy of the table the proofs are about with the
  manager's. The step needs `TypeOK`, which includes what a request carries
  where (`RequestOK`).
- `NoOrphans`: `NoOrphanRunning` is inductive as it stands. A row becomes
  running in the step that makes a run `Working`; a run leaves `Working` by
  `Finish`, which takes the row out of `running` whatever it finds there, also
  when the row is a successor's.
- `OnePreparerAlways`: inductive; `prep[b]` is busy exactly while the one run
  that made it so is preparing, and what came of it stays while any run of the
  batch goes on, so none prepares again.
- `QueuedMapAlwaysExact`: `queued` equals the union of what is in the channel,
  with the worker and with sending requests only if these are disjoint (else
  unmarking one would unmark another), so disjointness is part of the invariant
  (`InOnePlace`; `Exact` is the same gid by gid).
- `StrandsOnlyThen`: who cares for a queued row is handed on from the request that
  made it to the queued map, to the batch and to the run. The step from the map to
  the batch is where `Exact` is needed (what the worker unmarks is what its batch
  holds, and nobody else's). A run whose context is live always gets its row marked
  as running: the unique index cannot refuse the update, because the row is active
  already and `OneActivePerTorrent` leaves no other (`StrandedByRun`). Requests
  make, cancel and delete rows only (`RowOfRequest`), and a restart queues every row
  it has recovered (`RestartStrandsNone`).
- `StopStartsNothing` from `StoppedRuns`: while the manager stops, no run that has
  registered has a live context, neither one that was there nor one that begins
  afterwards. Such a run marks no row as running and stores no scan; a run that has
  stored its scan before the stop may still succeed, which the property allows.

`CategoryUpdatesProofs` proves that the stale writes of category requests are
`UpdateJob` statements too, so that the table's promises survive them
(`OneActiveWithEdits`, `CanceledWithEdits`), and that they keep the queued map exact
(`EditsKeepExact`). `StaleWritesLoseRows` says the rest: the manager's steps lose a
row as they do without edits (`StrandedStep`, `BackedStep`), and a write back loses
the row it writes to, if its state has changed, and no other (`WriteLoses`).

`OfflineTasksProofs`, from `OfflineAssumption`:

- `OfflineTypesCorrect`: the types, and that a waiter is registered with the
  record of its call's torrent only while the call waits. The second needs that
  calls keep their torrent (`KeepsTorrent`) and leave the set of waiters before
  they go anywhere else (`CallMoves`, `WaitersStay`).
- `PollerNeverOversleeps`: inductive given the types. A step that brings a
  deadline forward or adds a waiter is a step to `signal` (`CallsSignal`), and a
  call leaves `signal` only by filling `wake`; the poller goes to sleep with the
  earliest deadline (`SleepStep`), and time shortens timer and deadlines alike.
- `ListenersStayRegistered` from `WaitersKnown`: a call is registered from `Wait`
  on, through the signal, until `Unregister`; a call that leaves does not come back
  to listening on its way; and a record that is not open has no waiters, since
  opening it would drop them. `ListensFrom` lists where a call comes to listen from,
  `OthersStay` what a step of one call leaves of the others' registrations.

`TokenLeaseProofs`, from `LeaseAssumption` (which includes that owner names are
not `"none"` or `"gone"`, and that the goroutines are finitely many): `LeaseInv`
is inductive, and `LeaseTypesHold`, `SlotsAreCounted`, `RefreshesAreLeased` and
`OnlyOneRefreshes` follow from it. A refresh keeps its lease because only its own
process could take the row away, and there every goroutine that touches the row
holds `refreshMu`. The model, like the code, has two ways to hold it: a call
takes it (`Check`), an update is alone in the client once the readers have left
(`WriteLock`). `Locks` says that these exclude each other; it needs `Roles`
(calls and updates have places of their own), and preserving it is `LockStep`:
what a goroutine did not hold before a step was free. That slots are counted is
a matter of cardinalities (`SlotTaken`, `SlotReturned`), and makes the type of
`slots` inductive.

- `TokensUseLease`: every step is one of `LeaseService` or leaves lease and `use`
  alone. `UseOf(p)` speaks of all goroutines of a client, so each step first has to
  show that the one that moves is the only one that can refresh (`Alone`, from
  `Locks`); then `use` becomes what that one's `pc` says (`UseBecomesMode`) and is
  kept for the others (`UsesChange`). Besides `LeaseInv` it needs `LateInv`: who does
  not refresh is not late. `LeaseIsExclusive` follows from the service alone.
- `NewPairsAreUnspent` and `RowsLostOnlyThen` from `PairInv` (what is spent, stored
  or held anywhere has been issued, so a new pair is one nobody has) and
  `NewPairInv`, which adds to `FreshPairs` that nobody is about to send the new pair:
  a poll or a start may well get hold of it once it is in the row, but to send it a
  goroutine needs the lease, which the one that stores it still has, and `refreshMu`,
  which keeps out those of its own client (`Alone`). `Carries` says what a step does
  with the pairs, `RowLossStep` goes through the steps that end `Storing` or write
  the row.

`CatalogProofs`, from `CatalogAssumption`: `Sound` is inductive. A statement like
`SaveScan` changes both tables in several parts, so the invariants are first
stated of any two tables (`Consistent`), each part is shown to keep them
(`UpsertKeeps`, `ReplacedKeeps`, `DropKeeps`, `MarkKeeps`), and the statements
follow. That a location of a deleted artifact cannot remain to name its successor
is `DropKeeps` (the cascade); that a task which reuses an id finds no artifact of
its predecessor is `MakersAgree`, which needs `IdsUnique` and `Forget`. The
restore's artifact is right because `LatestArtifact` is of the torrent
(`SaveRestoredSound`), a row found again because its artifact was kept alive by
it (`SaveFoundSound`). `CatalogImplementsTable` forgets the catalog.

`PlaybackProofs`, from `PlaybackAssumption`: `StepIsStatement` maps every step to
a statement of the catalog, so the catalog's invariants hold
(`CatalogAgreesInPlayback`) and `PlaybackImplementsCatalog`. `PlayInv` adds the
types of the memory, `WaitersHaveFlight` and `RowsHaveWorker`, which says of every
active restore row that is not `stray` that some flight is working on it: a flight
takes a row in `CreateRow` and lets go of it only by writing its end (`Succeed`,
`Fail`) or by leaving it behind as `stray` (`RunLate`, `Unwritten`). A second flight may come to name the
same gid after somebody has deleted the row, so the invariant asks for a worker,
not for a single one.

`DownloadURLsProofs`, from `DownloadAssumption`: `DownInv` is inductive. Besides
the properties it says that the address cached last is the last one given out
(`LastIsCached`), that an address in use is one (`UsesAreReal`) and that the
first refused one was given out and is no longer cached (`FirstIsPast`);
`RetryUsesNewer` follows from these, since what the second attempt finds or
fetches came later. `HandlerImplementsCache` maps a step to that of
`AddressCache` with the same effect.

Only model-checked: the liveness properties `MarkedIsDispatched`, `RunningEnds`,
`RunsEnd`, `WaitersAreAnswered`, `CallsEnd`, `RequestsAreAnswered` and
`DownloadsEnd` (TLAPS cannot prove liveness under fairness). Every other property of
a passing run has a theorem. The refuted properties are shown by counterexamples.

## What is left out

- In the modelled parts: database errors other than those the SQL itself can
  give, except where `TokenLease` and `Playback` (`Trouble`, `Unwritten`) have them; the texts, times, progress and category of a row; the value of the
  offline quota (`CheckQuota` and `EndPrepare` may refuse); the outcome of 115
  calls (either way); the order of the rows one request creates; the disabled
  manager, which only refuses. In `OfflineTasks`: the cached `snapshot` of the task list
  (read only when a caller passes a `maxAge`, and none does), tasks that change
  page while a fetch walks the list, the progress of a task; that 115 reports a
  task as failed ends a call like an error does. Batches reach the poller through
  `PrepareMagnets`, which is not modelled. Records cannot be removed, in the
  model as in the code. In `TokenLease`: the rate of calls, empty tokens, the
  import of tokens from old configuration files, the values of times (a token
  whose expiry is known may or may not be about to expire), and what the SDK does
  when 115 rejects an access token in the middle of a call.
  In `Catalog` and `Playback`: columns nobody branches on, rows without a gid, the
  STRM root and seeding marks, 115 tasks with a part of the files or without a
  source folder, files whose content has changed at the same place, the preferred
  torrent of a request, the recycle bin. In `DownloadURLs`: `PROPFIND`, headers,
  the restart (it empties the cache), the resolution before the download.
- Not modelled: the publication of STRM and NFO files and the STRM store (what
  matters there is that rename is atomic, which a model would have to assume), the
  preparation of batches by `PrepareOfflineTasks` beyond its success or failure,
  the mapping of states and the selection of jobs in the three interfaces
  (functions of the tables), the configuration files, migrations, the rclone
  supervisor, logging and the web UI (sequential code, process and file I/O).
  `PROJECT.json` has a note for each. Hazards too small for a model of their own:
  the merging of recycle-bin requests (a pending flag makes its goroutine go round
  again), the retry of task lookups without a pause (`findTaskWithRetry` is called
  with an interval of zero), the quota that is compared once per request.

## Plan

What was planned is done for the manager, the poller, the tokens, the catalog,
playback and downloads. What would add most from here:

1. `PrepareOfflineTasks` between `TaskManager` and `OfflineTasks`: the 115 tasks
   of a batch whose jobs are canceled meanwhile, and the clean-up that deletes the
   task of a torrent another source is using.
2. The publication of a scan with its seeding marks, interrupted and repeated.
3. A finer composition of `Playback` with `OfflineTasks`, in which a restore waits
   through the poller.
