---------------------------- MODULE OfflineTasks ----------------------------
(***************************************************************************)
(* internal/ingest: the offlineTaskManager, one polling goroutine shared   *)
(* by everyone who waits for a 115 offline task, and its callers: the      *)
(* resolve function of the ingest service, which creates a task, or reuses *)
(* or replaces the one 115 already has, waits for it, scans its result and *)
(* drops it, or builds it again when the result is missing.                *)
(*                                                                         *)
(* 115 is external: a table of tasks that change, vanish and come back on  *)
(* their own.  A step is one call to 115 or one section under the mutex.   *)
(* The snapshot map is left out: it is only read for a positive maxAge,    *)
(* which no caller passes.  Time is left as ticks until a deadline.        *)
(***************************************************************************)
EXTENDS Naturals, FiniteSets

CONSTANTS
  Hash,       \* torrents
  Caller,     \* concurrent calls of resolve
  Op,         \* their kinds: "resolve", and "restore" with forceCreate
  MaxEpoch,   \* bound on the tasks 115 creates for one torrent
  MaxUpd,     \* bound on 115's clock (Task.LastUpdate)
  MaxWait     \* the longest polling interval, in ticks; the shortest is 1

ASSUME OfflineAssumption ==
  Op \subseteq {"resolve", "restore"} /\ MaxEpoch \in Nat /\ MaxUpd \in Nat \ {0} /\ MaxWait \in Nat \ {0}

VARIABLES
  remote,     \* 115: the task of each torrent
  epochs,     \* 115: how many tasks each torrent has had
  clock,      \* 115: the time it last stamped a task with
  record,     \* offlineTaskManager.tasks
  wake,       \* offlineTaskManager.wake: a channel of capacity one
  poller,     \* the goroutine of run and poll
  fetch,      \* the fetch that holds fetchMu
  call        \* the calls of resolve

remoteVars == <<remote, epochs, clock>>
vars == <<remote, epochs, clock, record, wake, poller, fetch, call>>

\* A 115 task: which of its torrent's tasks it is, its LastUpdate and whether
\* it is done.  Blank is Task{InfoHash: h}, and in remote: no task.
Task  == [epoch : 0..MaxEpoch, upd : 0..MaxUpd, done : BOOLEAN]
Blank == [epoch |-> 0, upd |-> 0, done |-> FALSE]

\* newerOfflineTask.  Tasks that are done differ in their ResultID.
Newer(a, b) ==
  a.upd > b.upd \/ (a.upd = b.upd /\ (a.done # b.done \/ (a.done /\ a.epoch # b.epoch)))

Present == {h \in Hash : remote[h] # Blank}

\* What a waiter channel carries (taskPollResult).
Answer == [err : BOOLEAN, found : BOOLEAN, task : Task]
Found(t) == [err |-> FALSE, found |-> TRUE, task |-> t]

NoRecord == [known |-> FALSE, task |-> Blank, left |-> 0, waiters |-> {}]
NoTimer  == MaxWait + 1
NoFetch  == [by |-> "nobody", phase |-> "none", pending |-> {},
             listed |-> {}, page |-> <<>>, last |-> FALSE, found |-> <<>>, failed |-> FALSE]
Asking   == [NoFetch EXCEPT !.phase = "list"]
Idle     == [pc |-> "idle", then |-> "idle", op |-> "resolve", stage |-> "first",
             h |-> "none", task |-> Blank, box |-> {}]
Awake    == [pc |-> "choose", timer |-> NoTimer, targets |-> {}, found |-> <<>>, failed |-> FALSE]

----------------------------------------------------------------------------
(* 115.                                                                    *)

Stamp == clock' \in {clock, clock + 1} \cap 0..MaxUpd

\* A task finishes.
Complete(h) ==
  /\ h \in Present /\ ~remote[h].done
  /\ Stamp
  /\ remote' = [remote EXCEPT ![h] = [@ EXCEPT !.done = TRUE, !.upd = clock']]
  /\ UNCHANGED <<epochs, record, wake, poller, fetch, call>>

\* 115 forgets a task, or a user's cancel or the clean-up after a timeout has
\* it deleted, which ends with a signal.
Vanish(h) ==
  /\ h \in Present
  /\ remote' = [remote EXCEPT ![h] = Blank]
  /\ wake' \in {wake, TRUE}
  /\ UNCHANGED <<epochs, clock, record, poller, fetch, call>>

----------------------------------------------------------------------------
(* The callers.                                                            *)

At(c, p)   == call[c].pc = p
Hc(c)      == call[c].h
Go(c, p)   == call' = [call EXCEPT ![c].pc = p]
Stop(c)    == call' = [call EXCEPT ![c] = Idle]

\* Unlock, then signal, then go on at p.
SignalThen(c, p, t) ==
  call' = [call EXCEPT ![c].pc = "signal", ![c].then = p, ![c].task = t]

\* A resolve begins.
Begin(c, h, op) ==
  /\ At(c, "idle")
  /\ call' = [call EXCEPT ![c] = [Idle EXCEPT !.pc = "create", !.h = h, !.op = op]]
  /\ UNCHANGED <<remoteVars, record, wake, poller, fetch>>

\* AddOfflineTasks creates the task, reports a conflict or fails (115 may have
\* created the task all the same); an answer is followed by invalidate, whose
\* signal is all that is left of it.  Only the first creation of a resolve
\* accepts a conflict.
Create(c) ==
  /\ At(c, "create")
  /\ \/ /\ Stop(c)
        /\ wake' \in {wake, TRUE}
        /\ UNCHANGED remoteVars
     \/ /\ Hc(c) \notin Present /\ epochs[Hc(c)] < MaxEpoch
        /\ Stamp
        /\ epochs' = [epochs EXCEPT ![Hc(c)] = @ + 1]
        /\ remote' = [remote EXCEPT ![Hc(c)] =
                        [epoch |-> epochs'[Hc(c)], upd |-> clock', done |-> FALSE]]
        /\ \/ Go(c, "restart") /\ wake' = TRUE
           \/ Stop(c) /\ UNCHANGED wake
     \/ /\ Hc(c) \in Present
        /\ IF call[c].stage = "first" THEN Go(c, "lookup") ELSE Stop(c)
        /\ wake' = TRUE
        /\ UNCHANGED remoteVars
  /\ UNCHANGED <<record, poller, fetch>>

\* Faulty variant of Restart: nobody is told.
RestartSilently(c) ==
  /\ At(c, "restart")
  /\ record' = [record EXCEPT ![Hc(c)] =
                  IF @.known THEN [@ EXCEPT !.task = Blank, !.left = 1] ELSE @]
  /\ call' = [call EXCEPT ![c].pc = "wait", ![c].task = Blank]
  /\ UNCHANGED <<remoteVars, wake, poller, fetch>>

\* restart: a record that outlived its waiters starts afresh.
Restart(c) ==
  /\ At(c, "restart")
  /\ record' = [record EXCEPT ![Hc(c)] =
                  IF @.known THEN [@ EXCEPT !.task = Blank, !.left = 1] ELSE @]
  /\ SignalThen(c, "wait", Blank)
  /\ UNCHANGED <<remoteVars, wake, poller, fetch>>

Signal(c) ==
  /\ At(c, "signal")
  /\ wake' = TRUE
  /\ IF call[c].then = "idle" THEN Stop(c)
     ELSE call' = [call EXCEPT ![c] = [@ EXCEPT !.pc = call[c].then, !.then = "idle"]]
  /\ UNCHANGED <<remoteVars, record, poller, fetch>>

\* query after a conflict: it needs fetchMu.
Lookup(c) ==
  /\ At(c, "lookup") /\ fetch = NoFetch
  /\ fetch' = [Asking EXCEPT !.by = c, !.pending = {Hc(c)}]
  /\ Go(c, "asking")
  /\ UNCHANGED <<remoteVars, record, wake, poller>>

\* resolve reuses the task it finds and asks again after an error, at once; a
\* restore deletes the task whatever it found.  A done context ends both.
LookupDone(c) ==
  /\ At(c, "asking") /\ fetch.by = c /\ fetch.phase = "done"
  /\ \/ /\ call[c].op = "restore"
        /\ call' = [call EXCEPT ![c].pc = "delete", ![c].stage = "replaced"]
     \/ /\ call[c].op = "resolve" /\ ~fetch.failed
        /\ IF Hc(c) \in DOMAIN fetch.found
           THEN call' = [call EXCEPT ![c].pc = "wait", ![c].task = fetch.found[Hc(c)]]
           ELSE Stop(c)
     \/ /\ call[c].op = "resolve" /\ fetch.failed
        /\ Go(c, "lookup")
     \/ fetch.failed /\ Stop(c)
  /\ fetch' = NoFetch
  /\ UNCHANGED <<remoteVars, record, wake, poller>>

\* cancel, on the way to creating the task again.
Delete(c) ==
  /\ At(c, "delete")
  /\ \/ /\ remote' = [remote EXCEPT ![Hc(c)] = Blank]
        /\ SignalThen(c, "create", Blank)
     \/ /\ Stop(c)
        /\ UNCHANGED remote
  /\ UNCHANGED <<epochs, clock, record, wake, poller, fetch>>

\* waitForTask: a task that is done is scanned, for another one wait registers
\* a new waiter channel with the torrent's record.  It ends when 115 says the
\* task has failed or the task cannot be saved.
Wait(c) ==
  /\ At(c, "wait")
  /\ LET t == call[c].task
         r == record[Hc(c)]
     IN  \/ Stop(c) /\ UNCHANGED record
         \/ /\ t.done
            /\ call' = [call EXCEPT ![c].pc = "scan", ![c].task = Blank]
            /\ UNCHANGED record
         \/ /\ ~t.done
            /\ record' = [record EXCEPT ![Hc(c)] =
                 IF ~r.known THEN [known |-> TRUE, task |-> t, left |-> 1, waiters |-> {c}]
                 ELSE [r EXCEPT !.task = IF Newer(t, @) THEN t ELSE @,
                                !.waiters = @ \cup {c}]]
            /\ call' = [call EXCEPT ![c].pc = "signal", ![c].then = "listen", ![c].task = Blank]
  /\ UNCHANGED <<remoteVars, wake, poller, fetch>>

\* An answer without a task is dropped and the caller goes on listening.
Receive(c) ==
  /\ At(c, "listen")
  /\ \E a \in call[c].box :
       call' = [call EXCEPT ![c] =
                  IF a.err \/ ~a.found THEN [@ EXCEPT !.box = {}]
                  ELSE [@ EXCEPT !.box = {}, !.pc = "unregister", !.then = "wait", !.task = a.task]]
  /\ UNCHANGED <<remoteVars, record, wake, poller, fetch>>

\* The caller's context is done.
GiveUp(c) ==
  /\ At(c, "listen")
  /\ call' = [call EXCEPT ![c] = [@ EXCEPT !.pc = "unregister", !.then = "idle", !.box = {}]]
  /\ UNCHANGED <<remoteVars, record, wake, poller, fetch>>

\* Faulty variant of Unregister: the waiter stays in the record.
LeaveWaiter(c) ==
  /\ At(c, "unregister")
  /\ call' = [call EXCEPT ![c].pc = "signal", ![c].box = {}]
  /\ UNCHANGED <<remoteVars, record, wake, poller, fetch>>

\* Faulty variant of Unregister: whoever leaves takes the others with it.
ForgetWaiters(c) ==
  /\ At(c, "unregister")
  /\ record' = [record EXCEPT ![Hc(c)].waiters = {}]
  /\ call' = [call EXCEPT ![c].pc = "signal", ![c].box = {}]
  /\ UNCHANGED <<remoteVars, wake, poller, fetch>>

\* The deferred removeWaiter.
Unregister(c) ==
  /\ At(c, "unregister")
  /\ record' = [record EXCEPT ![Hc(c)].waiters = @ \ {c}]
  /\ call' = [call EXCEPT ![c].pc = "signal", ![c].box = {}]
  /\ UNCHANGED <<remoteVars, wake, poller, fetch>>

\* The scan of the result succeeds, finds the result missing (the task is
\* built again once) or fails.
Scan(c) ==
  /\ At(c, "scan")
  /\ \/ Go(c, "drop")
     \/ /\ call[c].stage # "rebuilt"
        /\ call' = [call EXCEPT ![c].pc = "delete", ![c].stage = "rebuilt"]
     \/ Stop(c)
  /\ UNCHANGED <<remoteVars, record, wake, poller, fetch>>

\* finishScan: the files are saved, the 115 task is deleted if 115 lets it.
Drop(c) ==
  /\ At(c, "drop")
  /\ \/ /\ remote' = [remote EXCEPT ![Hc(c)] = Blank]
        /\ SignalThen(c, "idle", Blank)
     \/ /\ Stop(c)
        /\ UNCHANGED remote
  /\ UNCHANGED <<epochs, clock, record, wake, poller, fetch>>

----------------------------------------------------------------------------
(* fetch: one page after the other until every target has been seen.       *)

Merge(f, g) == [h \in DOMAIN f \cup DOMAIN g |-> IF h \in DOMAIN g THEN g[h] ELSE f[h]]

\* ListOfflineTasks returns a page with some tasks the fetch has not seen.
ListPage ==
  /\ fetch.phase = "list"
  /\ LET rest == Present \ fetch.listed
     IN \E S \in SUBSET rest :
          /\ S = {} => rest = {}
          /\ fetch' = [fetch EXCEPT !.phase = "apply", !.listed = @ \cup S,
                                    !.page = [h \in S |-> remote[h]], !.last = rest = S]
  /\ UNCHANGED <<remoteVars, record, wake, poller, call>>

ListFails ==
  /\ fetch.phase = "list"
  /\ fetch' = [fetch EXCEPT !.phase = "done", !.failed = TRUE]
  /\ UNCHANGED <<remoteVars, record, wake, poller, call>>

\* The page is applied under the mutex: records take what is newer and their
\* waiters are told.  The next page follows unless nothing is wanted any more.
ApplyPage ==
  /\ fetch.phase = "apply"
  /\ LET page  == fetch.page
         Fresh(h) == h \in DOMAIN page /\ record[h].known /\ Newer(page[h], record[h].task)
         pending == fetch.pending \ DOMAIN page
     IN  /\ record' = [h \in Hash |-> IF Fresh(h) THEN [record[h] EXCEPT !.task = page[h]]
                                      ELSE record[h]]
         /\ call' = [c \in Caller |->
              LET h == Hc(c)
              IN  IF h \in Hash /\ Fresh(h) /\ c \in record[h].waiters /\ call[c].box = {}
                  THEN [call[c] EXCEPT !.box = {Found(page[h])}] ELSE call[c]]
         /\ fetch' = [fetch EXCEPT
              !.found = Merge(@, [h \in DOMAIN page \cap fetch.pending |-> page[h]]),
              !.pending = pending, !.page = <<>>,
              !.phase = IF pending = {} \/ fetch.last THEN "done" ELSE "list"]
  /\ UNCHANGED <<remoteVars, wake, poller>>

----------------------------------------------------------------------------
(* The poller.                                                             *)

Waited == {h \in Hash : record[h].waiters # {}}
Due    == {h \in Waited : record[h].left = 0}

\* nextTargets: only records with waiters count.
Choose ==
  /\ poller.pc = "choose"
  /\ \/ /\ Due # {}
        /\ poller' = [Awake EXCEPT !.pc = "want", !.targets = Due]
     \/ /\ Waited = {}
        /\ poller' = [Awake EXCEPT !.pc = "asleep"]
     \/ /\ Due = {}
        /\ \E h \in Waited :
             /\ \A k \in Waited : record[h].left <= record[k].left
             /\ poller' = [Awake EXCEPT !.pc = "asleep", !.timer = record[h].left]
  /\ UNCHANGED <<remoteVars, record, wake, fetch, call>>

WakeUp ==
  /\ poller.pc = "asleep"
  /\ \/ poller.timer = 0 /\ UNCHANGED wake
     \/ wake /\ wake' = FALSE
  /\ poller' = Awake
  /\ UNCHANGED <<remoteVars, record, fetch, call>>

PollLock ==
  /\ poller.pc = "want" /\ fetch = NoFetch
  /\ fetch' = [Asking EXCEPT !.by = "poller", !.pending = poller.targets]
  /\ poller' = [poller EXCEPT !.pc = "fetching"]
  /\ UNCHANGED <<remoteVars, record, wake, call>>

\* fetch returns and releases fetchMu; the mutex is taken again later.
PollUnlock ==
  /\ poller.pc = "fetching" /\ fetch.by = "poller" /\ fetch.phase = "done"
  /\ poller' = [poller EXCEPT !.pc = "deliver", !.found = fetch.found, !.failed = fetch.failed]
  /\ fetch' = NoFetch
  /\ UNCHANGED <<remoteVars, record, wake, call>>

\* What poll tells the waiters of h.
PollAnswer(h) ==
  [err |-> poller.failed, found |-> h \in DOMAIN poller.found,
   task |-> IF h \in DOMAIN poller.found THEN poller.found[h] ELSE Blank]

\* Faulty variant of Deliver: only tasks newer than the record are told.
DeliverNews ==
  /\ poller.pc = "deliver"
  /\ LET News == {h \in DOMAIN poller.found : Newer(poller.found[h], record[h].task)}
     IN  /\ \E n \in 1..MaxWait :
              record' = [h \in Hash |->
                IF h \in poller.targets
                THEN [record[h] EXCEPT !.left = n, !.task = IF h \in News THEN poller.found[h] ELSE @]
                ELSE record[h]]
         /\ call' = [c \in Caller |->
              LET h == Hc(c)
              IN  IF h \in News /\ c \in record[h].waiters /\ call[c].box = {}
                  THEN [call[c] EXCEPT !.box = {PollAnswer(h)}] ELSE call[c]]
  /\ poller' = Awake
  /\ UNCHANGED <<remoteVars, wake, fetch>>

\* poll takes over what was found, newer or not, and tells every waiter; the
\* next deadline depends on the time since the record was started.
Deliver ==
  /\ poller.pc = "deliver"
  /\ \E wait \in [poller.targets -> 1..MaxWait] :
       record' = [h \in Hash |->
         IF h \in poller.targets
         THEN [record[h] EXCEPT !.left = wait[h],
                                !.task = IF h \in DOMAIN poller.found THEN poller.found[h] ELSE @]
         ELSE record[h]]
  /\ call' = [c \in Caller |->
       LET h == Hc(c)
       IN  IF h \in poller.targets /\ c \in record[h].waiters /\ call[c].box = {}
           THEN [call[c] EXCEPT !.box = {PollAnswer(h)}] ELSE call[c]]
  /\ poller' = Awake
  /\ UNCHANGED <<remoteVars, wake, fetch>>

Less(n) == IF n = 0 \/ n > MaxWait THEN n ELSE n - 1

Tick ==
  /\ (\E h \in Hash : record[h].left > 0) \/ poller.timer \in 1..MaxWait
  /\ record' = [h \in Hash |-> [record[h] EXCEPT !.left = Less(@)]]
  /\ poller' = [poller EXCEPT !.timer = Less(@)]
  /\ UNCHANGED <<remoteVars, wake, fetch, call>>

----------------------------------------------------------------------------
Init ==
  /\ remote = [h \in Hash |-> Blank]
  /\ epochs = [h \in Hash |-> 0]
  /\ clock = 1
  /\ record = [h \in Hash |-> NoRecord]
  /\ wake = FALSE
  /\ poller = Awake
  /\ fetch = NoFetch
  /\ call = [c \in Caller |-> Idle]

CallStep(c) ==
  \/ Create(c) \/ Restart(c) \/ Signal(c) \/ LookupDone(c) \/ Delete(c)
  \/ Wait(c) \/ Receive(c) \/ Unregister(c) \/ Scan(c) \/ Drop(c)

PollerStep == Choose \/ WakeUp \/ PollUnlock \/ Deliver
FetchStep  == ListPage \/ ListFails \/ ApplyPage

Next ==
  \/ \E h \in Hash : Complete(h) \/ Vanish(h)
  \/ \E c \in Caller, h \in Hash, op \in Op : Begin(c, h, op)
  \/ \E c \in Caller : CallStep(c) \/ Lookup(c) \/ GiveUp(c)
  \/ FetchStep \/ PollerStep \/ PollLock
  \/ Tick

Spec == Init /\ [][Next]_vars

\* Every goroutine that can run runs, a waiting Lock of fetchMu gets it after
\* some time (Go's mutex does not starve), 115 answers and from some time on
\* without errors, and time passes.  No caller has to give up.
Fairness ==
  /\ \A c \in Caller : WF_vars(CallStep(c)) /\ SF_vars(Lookup(c))
  /\ WF_vars(FetchStep) /\ WF_vars(PollerStep) /\ SF_vars(PollLock)
  /\ WF_vars(Tick)
  /\ <>[][~ListFails]_vars

FairSpec == Spec /\ Fairness

----------------------------------------------------------------------------
(* Properties.                                                             *)

CallPc == {"idle", "create", "restart", "signal", "lookup", "asking", "delete", "wait",
           "listen", "unregister", "scan", "drop"}

\* What a page or a fetch has found: tasks of some torrents.
Listing == UNION {[S -> Task] : S \in SUBSET Hash}

Record == [known : BOOLEAN, task : Task, left : 0..MaxWait, waiters : SUBSET Caller]
Poller == [pc : {"choose", "asleep", "want", "fetching", "deliver"}, timer : 0..NoTimer,
           targets : SUBSET Hash, found : Listing, failed : BOOLEAN]
Fetch  == [by : Caller \cup {"poller", "nobody"}, phase : {"none", "list", "apply", "done"},
           pending : SUBSET Hash, listed : SUBSET Hash, page : Listing, last : BOOLEAN,
           found : Listing, failed : BOOLEAN]
Call   == [pc : CallPc, then : {"idle", "create", "wait", "listen"},
           op : {"resolve", "restore"}, stage : {"first", "replaced", "rebuilt"},
           h : Hash \cup {"none"}, task : Task, box : SUBSET Answer]

\* A waiter is registered where its call says it waits.
Registered(h, c) ==
  /\ Hc(c) = h
  /\ At(c, "listen") \/ At(c, "unregister") \/ (At(c, "signal") /\ call[c].then = "listen")

\* Every variable has the shape its declaration says, a call that has begun is
\* about a torrent, and no waiter outlives its call's wait.
OfflineTypeOK ==
  /\ remote \in [Hash -> Task] /\ epochs \in [Hash -> 0..MaxEpoch] /\ clock \in 1..MaxUpd
  /\ record \in [Hash -> Record]
  /\ wake \in BOOLEAN
  /\ poller \in Poller
  /\ fetch \in Fetch
  /\ call \in [Caller -> Call]
  /\ \A c \in Caller : At(c, "idle") \/ Hc(c) \in Hash
  /\ \A h \in Hash : \A c \in record[h].waiters : Registered(h, c)

\* Someone has changed a record and has not signalled yet.
Signalling == \E c \in Caller : At(c, "signal")

\* A poller that sleeps wakes up in time for every record somebody waits for:
\* its timer is set no later than the earliest deadline, although records and
\* waiters come and restarts move deadlines forward while it sleeps, unless a
\* wake-up is on its way.
NeverOversleeps ==
  poller.pc = "asleep" /\ ~wake /\ ~Signalling =>
    \A h \in Waited : poller.timer <= record[h].left

\* Who listens is known to the poller, whoever else registers, restarts or
\* leaves at the same record meanwhile (wait, removeWaiter).
ListenersAreRegistered == \A c \in Caller : At(c, "listen") => c \in record[Hc(c)].waiters

\* Nobody waits for ever for a task that 115 has: no wake-up is lost, and a
\* full waiter channel or another caller's fetch only delays the answer.
WaitersAreAnswered ==
  \A c \in Caller : At(c, "listen") ~> (~At(c, "listen") \/ Hc(c) \notin Present)
=============================================================================
