-------------------------- MODULE TaskManagerProofs --------------------------
(***************************************************************************)
(* Proofs about TaskManager, for any sets of torrents, sources, requests   *)
(* and batch slots and any capacities.                                     *)
(***************************************************************************)
EXTENDS TaskManager, TLAPS

T == INSTANCE JobTableProofs

USE DEF Gid

(***************************************************************************)
(* Every step of the manager is a statement of the tasks table or leaves   *)
(* it alone.                                                               *)
(***************************************************************************)
LEMMA RefinesStep == TypeOK /\ [Next]_vars => [Table!Next]_jobs
<1> SUFFICES ASSUME TypeOK, Next PROVE [Table!Next]_jobs
  BY DEF vars
<1>1. ASSUME NEW c \in Client, NewRequest(c) PROVE UNCHANGED jobs
  BY <1>1 DEF NewRequest, Submit, Cancel, Delete
<1>2. ASSUME NEW c \in Client, CreateRow(c) PROVE [Table!Next]_jobs
  <2>1. req[c] \in Request /\ RequestOK(req[c]) /\ req[c].pc = "create"
    BY <1>2 DEF TypeOK, CreateRow, At
  <2>2. req[c].src \in Source /\ req[c].picked \subseteq Gid
    BY <2>1 DEF RequestOK, AddPc, Request
  <2>3. \/ \E g \in Gid : Table!CreateJob(g, req[c].src)
        \/ UNCHANGED jobs
    BY <1>2, <2>2 DEF CreateRow
  <2> QED BY <2>2, <2>3 DEF Table!Next
<1>3. ASSUME NEW c \in Client, AddStep(c), ~CreateRow(c) PROVE UNCHANGED jobs
  BY <1>3 DEF AddStep, LookupJob, PickGid, CheckQuota, MarkQueued, SendBatch
<1>4. ASSUME NEW c \in Client, CancelStep(c) PROVE [Table!Next]_jobs
  <2>1. req[c].pc \in RemovePc => req[c].gid \in Gid
    BY DEF TypeOK, RequestOK
  <2>2. CASE CancelRow(c)
    BY <2>1, <2>2 DEF CancelRow, At, RemovePc, Table!Next
  <2>3. CASE DeleteRow(c)
    BY <2>1, <2>3 DEF DeleteRow, At, RemovePc, Table!Next
  <2>4. CASE DeleteAny(c)
    BY <2>1, <2>4 DEF DeleteAny, At, RemovePc, Table!Next
  <2>5. CASE DeleteRead(c) \/ CancelRead(c) \/ StopRun(c)
    BY <2>5 DEF DeleteRead, CancelRead, StopRun
  <2> QED BY <1>4, <2>2, <2>3, <2>4, <2>5 DEF CancelStep
<1>5. ASSUME NEW c \in Client, Disconnect(c) PROVE UNCHANGED jobs
  BY <1>5 DEF Disconnect
<1>6. ASSUME NEW b \in Batch, NEW g \in Gid, RunStep(b, g) PROVE [Table!Next]_jobs
  <2>1. CASE MarkRunning(b, g)
    BY <2>1 DEF MarkRunning, Table!Next, Table!JobState
  <2>2. CASE Finish(b, g)
    <3>1. pc[b][g] \in Table!JobState
      BY <2>2 DEF Finish, Table!JobState
    <3>2. Table!UpdateJob(g, pc[b][g]) \/ UNCHANGED jobs
      BY <2>2 DEF Finish
    <3> QED BY <3>1, <3>2 DEF Table!Next
  <2>3. CASE \/ ReadJob(b, g) \/ Register(b, g) \/ BeginPrepare(b, g) \/ EndPrepare(b, g)
             \/ Resolve(b, g) \/ FinishScan(b, g) \/ Cleanup(b, g) \/ EndRun(b, g)
    BY <2>3 DEF ReadJob, Register, BeginPrepare, EndPrepare, Resolve, FinishScan, Cleanup, EndRun
  <2> QED BY <1>6, <2>1, <2>2, <2>3 DEF RunStep
<1>7. CASE Restart
  <2>1. Table!RecoverRunningJobs(Resumed)
    BY <1>7 DEF Restart
  <2>2. Resumed \in SUBSET Source
    BY ManagerAssumption
  <2> QED BY <2>1, <2>2 DEF Table!Next
<1>8. CASE \/ WorkerReceive \/ \E b \in Batch : WorkerDispatch(b)
           \/ \E b \in Batch, g \in Gid : Expire(b, g)
           \/ BecomeAvailable \/ Shutdown
  BY <1>8 DEF WorkerReceive, WorkerDispatch, Expire, BecomeAvailable, Shutdown
<1> QED
  BY <1>1, <1>2, <1>3, <1>4, <1>5, <1>6, <1>7, <1>8
     DEF Next, LifeStep, RequestStep

(***************************************************************************)
(* The copy of the table the proofs of JobTableProofs are about is the one *)
(* of TaskManager.                                                         *)
(***************************************************************************)
LEMMA SameTable ==
  /\ T!Gid = Table!Gid
  /\ T!Init <=> Table!Init
  /\ T!Next <=> Table!Next
  /\ T!TypeOK <=> Table!TypeOK
  /\ T!TypeOK' <=> Table!TypeOK'
  /\ T!OneActivePerTorrent <=> Table!OneActivePerTorrent
<1> USE DEF Table!Gid, T!Gid, Table!InfoHash, T!InfoHash, Table!JobState, T!JobState,
            Table!Active, T!Active, Table!Job, T!Job, Table!NoJob, T!NoJob,
            Table!Exists, T!Exists, Table!State, T!State, Table!Owned, T!Owned
<1>1. T!Gid = Table!Gid /\ (T!Init <=> Table!Init)
  BY DEF Table!Init, T!Init
<1>2. (T!TypeOK <=> Table!TypeOK) /\ (T!TypeOK' <=> Table!TypeOK')
  BY DEF Table!TypeOK, T!TypeOK
<1>3. T!OneActivePerTorrent <=> Table!OneActivePerTorrent
  BY DEF Table!OneActivePerTorrent, T!OneActivePerTorrent
<1>4. T!Next <=> Table!Next
  BY DEF Table!Next, T!Next, Table!ActiveTwin, T!ActiveTwin, Table!IsNextId, T!IsNextId,
         Table!CreateJob, T!CreateJob, Table!CreateRefused, T!CreateRefused,
         Table!UpdateJob, T!UpdateJob, Table!UpdateOutcome, T!UpdateOutcome,
         Table!CancelJob, T!CancelJob, Table!Cancelable, T!Cancelable,
         Table!DeleteJob, T!DeleteJob, Table!Deletable, T!Deletable,
         Table!DeleteJobAny, T!DeleteJobAny,
         Table!RecoverRunningJobs, T!RecoverRunningJobs, Table!Recovered, T!Recovered
<1> QED
  BY <1>1, <1>2, <1>3, <1>4

\* The rows stay well-formed, by the proof about the table.
LEMMA TableTypeStep == TypeOK /\ [Next]_vars => Table!TypeOK'
<1>1. MaxDraw \in Nat /\ MaxId \in Nat
  BY ManagerAssumption
<1>2. T!TypeOK /\ [T!Next]_jobs => T!TypeOK'
  BY T!TypeStep, <1>1
<1> QED
  BY RefinesStep, SameTable, <1>2 DEF TypeOK

----------------------------------------------------------------------------
(* The types of the requests.                                              *)

LEMMA MagnetsAreLists == \A m \in Magnets : m \in Seq(Hash) /\ m # <<>>
<1> SUFFICES ASSUME NEW n \in 1..MaxItems, NEW m \in [1..n -> Hash]
             PROVE  m \in Seq(Hash) /\ m # <<>>
  BY DEF Magnets
<1> QED
  BY ManagerAssumption

\* What follows a magnet is a well-formed request too.
LEMMA AfterItemOK ==
  ASSUME NEW r \in Request, r.src \in Source, r.todo # <<>>
  PROVE  AfterItem(r) \in Request /\ RequestOK(AfterItem(r))
<1>1. Tail(r.todo) \in Seq(Hash)
  BY DEF Request
<1> QED
  BY <1>1 DEF AfterItem, Request, RequestOK, RequestPc, AddPc, RemovePc, NoRequest, About

LEMMA RequestTypeStep ==
  ASSUME TypeOK, NEW c \in Client, NewRequest(c) \/ RequestStep(c)
  PROVE  req' \in [Client -> Request] /\ \A d \in Client : RequestOK(req'[d])
<1>0. /\ req \in [Client -> Request] /\ req[c] \in Request /\ RequestOK(req[c])
      /\ \A d \in Client : RequestOK(req[d])
  BY DEF TypeOK
<1> SUFFICES \E r \in Request : RequestOK(r) /\ req' = [req EXCEPT ![c] = r]
  BY <1>0
<1>n. NoRequest \in Request /\ RequestOK(NoRequest)
  BY DEF NoRequest, About, Request, RequestOK, RequestPc, AddPc, RemovePc
<1>1. CASE Return(c)
  BY <1>1, <1>n DEF Return
<1>2. ASSUME NEW s \in Source, NEW m \in Magnets, Submit(c, s, m)
      PROVE  \E r \in Request : RequestOK(r) /\ req' = [req EXCEPT ![c] = r]
  BY <1>2, MagnetsAreLists
     DEF Submit, NoRequest, About, Request, RequestOK, RequestPc, AddPc, RemovePc
<1>3. ASSUME NEW g \in Gid, Cancel(c, g) \/ Delete(c, g)
      PROVE  \E r \in Request : RequestOK(r) /\ req' = [req EXCEPT ![c] = r]
  <2>1. ASSUME NEW o \in {"cancel", "delete"}, NEW p \in RemovePc
        PROVE  About(g, o, p) \in Request /\ RequestOK(About(g, o, p))
    <3>1. p \in RequestPc /\ p \notin AddPc /\ p \notin {"lookup", "pickgid"}
      BY DEF RequestPc, AddPc, RemovePc
    <3> QED
      BY <3>1 DEF About, Request, RequestOK
  <2>2. \E o \in {"cancel", "delete"}, p \in RemovePc : req' = [req EXCEPT ![c] = About(g, o, p)]
    BY <1>3 DEF Cancel, Delete, RemovePc
  <2> QED BY <2>1, <2>2
<1>4. CASE LookupJob(c)
  <2>1. req[c].src \in Source /\ req[c].todo # <<>>
    BY <1>0, <1>4 DEF LookupJob, At, RequestOK, AddPc
  <2>2. LET r == [req[c] EXCEPT !.pc = "pickgid"] IN r \in Request /\ RequestOK(r)
    BY <1>0, <2>1 DEF Request, RequestOK, RequestPc, AddPc, RemovePc
  <2> QED
    BY <1>0, <1>4, <2>1, <2>2, AfterItemOK DEF LookupJob
<1>5. CASE PickGid(c)
  <2>1. req[c].src \in Source /\ req[c].todo # <<>>
    BY <1>0, <1>5 DEF PickGid, At, RequestOK, AddPc
  <2>2. PICK g \in Gid : req' = [req EXCEPT ![c] = AfterItem([req[c] EXCEPT !.picked = @ \cup {g}])]
    BY <1>5 DEF PickGid
  <2> DEFINE r == [req[c] EXCEPT !.picked = @ \cup {g}]
  <2>3. r \in Request /\ r.src \in Source /\ r.todo # <<>>
    BY <1>0, <2>1 DEF Request
  <2>4. AfterItem(r) \in Request /\ RequestOK(AfterItem(r))
    BY <2>3, AfterItemOK
  <2>5. req' = [req EXCEPT ![c] = AfterItem(r)]
    BY <2>2
  <2> HIDE DEF r
  <2> QED
    BY <2>4, <2>5
<1>6. CASE CheckQuota(c)
  <2>1. req[c].src \in Source
    BY <1>0, <1>6 DEF CheckQuota, At, RequestOK, AddPc
  <2>2. LET r == [req[c] EXCEPT !.pc = "create"] IN r \in Request /\ RequestOK(r)
    BY <1>0, <2>1 DEF Request, RequestOK, RequestPc, AddPc, RemovePc
  <2> QED
    BY <1>0, <1>1, <1>6, <2>2 DEF CheckQuota, Goto
<1>7. CASE CreateRow(c)
  <2>1. req[c].src \in Source
    BY <1>0, <1>7 DEF CreateRow, At, RequestOK, AddPc
  <2>2. ASSUME NEW g \in req[c].picked
        PROVE  LET r == [req[c] EXCEPT !.picked = @ \ {g}, !.made = @ \cup {g},
                           !.pc = IF req[c].picked = {g} THEN "mark" ELSE "create"]
               IN  r \in Request /\ RequestOK(r)
    BY <1>0, <2>1 DEF Request, RequestOK, RequestPc, AddPc, RemovePc
  <2>3. CASE Return(c)
    BY <2>3, <1>1
  <2>4. CASE ~Return(c)
    <3>1. PICK g \in req[c].picked :
            req' = [req EXCEPT ![c] = [req[c] EXCEPT !.picked = @ \ {g}, !.made = @ \cup {g},
                      !.pc = IF req[c].picked = {g} THEN "mark" ELSE "create"]]
      BY <1>7, <2>4 DEF CreateRow
    <3> DEFINE r == [req[c] EXCEPT !.picked = @ \ {g}, !.made = @ \cup {g},
                       !.pc = IF req[c].picked = {g} THEN "mark" ELSE "create"]
    <3>2. r \in Request /\ RequestOK(r)
      BY <2>2
    <3>3. req' = [req EXCEPT ![c] = r]
      BY <3>1
    <3> HIDE DEF r
    <3> QED
      BY <3>2, <3>3
  <2> QED BY <2>3, <2>4
<1>8. CASE MarkQueued(c)
  <2>1. req[c].src \in Source
    BY <1>0, <1>8 DEF MarkQueued, At, RequestOK, AddPc
  <2>2. LET r == [req[c] EXCEPT !.made = req[c].made \ queued, !.pc = "send"]
        IN  r \in Request /\ RequestOK(r)
    BY <1>0, <2>1 DEF Request, RequestOK, RequestPc, AddPc, RemovePc
  <2> QED
    BY <1>0, <1>n, <1>8, <2>2 DEF MarkQueued
<1>9. ASSUME NEW p \in RemovePc, req[c].pc \in RemovePc, Goto(c, p)
      PROVE  \E r \in Request : RequestOK(r) /\ req' = [req EXCEPT ![c] = r]
  <2>1. req[c].gid \in Gid
    BY <1>0, <1>9 DEF RequestOK
  <2>2. LET r == [req[c] EXCEPT !.pc = p] IN r \in Request /\ RequestOK(r)
    BY <1>0, <2>1, <1>9 DEF Request, RequestOK, RequestPc, AddPc, RemovePc
  <2> QED
    BY <1>0, <1>9, <2>2 DEF Goto
<1>10. CASE CancelStep(c)
  <2>1. req[c].pc \in RemovePc
    BY <1>10 DEF CancelStep, DeleteRead, CancelRead, CancelRow, StopRun, DeleteRow, DeleteAny,
                 At, RemovePc
  <2>2. Return(c) \/ \E p \in RemovePc : Goto(c, p)
    BY <1>10 DEF CancelStep, DeleteRead, CancelRead, CancelRow, StopRun, DeleteRow, DeleteAny,
                 RemovePc
  <2> QED
    BY <1>1, <1>9, <2>1, <2>2
<1>11. CASE SendBatch(c) \/ Disconnect(c)
  BY <1>1, <1>11 DEF SendBatch, Disconnect
<1> QED
  BY <1>2, <1>3, <1>4, <1>5, <1>6, <1>7, <1>8, <1>10, <1>11
     DEF NewRequest, RequestStep, AddStep

----------------------------------------------------------------------------
(* TypeOK.                                                                 *)

LEMMA TypeInit == Init => TypeOK
<1> SUFFICES ASSUME Init PROVE TypeOK
  OBVIOUS
<1>1. Table!TypeOK
  BY DEF Init, Table!Init, Table!TypeOK
<1>2. NoRequest \in Request /\ RequestOK(NoRequest)
  BY DEF NoRequest, About, Request, RequestOK, RequestPc, AddPc, RemovePc
<1>3. queue \in Seq(SUBSET Gid) /\ queued \in SUBSET Gid /\ held \in SUBSET Gid
  BY DEF Init
<1>4. /\ prep \in [Batch -> {"none", "busy", "ok", "failed"}]
      /\ pc \in [Batch -> [Gid -> RunPc]]
      /\ ctx \in [Batch -> [Gid -> {"live", "canceled", "expired"}]]
      /\ running \in [Gid -> SUBSET Batch]
  BY DEF Init, RunPc
<1>5. req \in [Client -> Request] /\ \A c \in Client : RequestOK(req[c])
  BY <1>2 DEF Init
<1> QED
  BY <1>1, <1>3, <1>4, <1>5 DEF Init, TypeOK

\* A request leaves everything but rows, queue, marks and contexts alone.
LEMMA TypeOfRequestStep ==
  ASSUME TypeOK, NEW c \in Client, NewRequest(c) \/ RequestStep(c), Table!TypeOK'
  PROVE  TypeOK'
<1>1. req' \in [Client -> Request] /\ \A d \in Client : RequestOK(req'[d])
  BY RequestTypeStep
<1>2. /\ queue' \in Seq(SUBSET Gid) /\ queued' \in SUBSET Gid
      /\ UNCHANGED <<held, prep, pc, running, available, stopping>>
  <2>0. req[c].made \in SUBSET Gid
    BY DEF TypeOK, Request
  <2> USE DEF TypeOK, managerVars, runVars, envVars
  <2>1. CASE NewRequest(c)
    BY <2>1 DEF NewRequest, Submit, Cancel, Delete
  <2>2. CASE MarkQueued(c)
    BY <2>0, <2>2 DEF MarkQueued
  <2>3. CASE SendBatch(c)
    <3>1. Append(queue, req[c].made) \in Seq(SUBSET Gid)
      BY <2>0
    <3> QED
      BY <3>1, <2>3 DEF SendBatch
  <2>4. CASE LookupJob(c) \/ PickGid(c) \/ CheckQuota(c) \/ CreateRow(c)
    BY <2>4 DEF LookupJob, PickGid, CheckQuota, CreateRow
  <2>5. CASE CancelStep(c)
    BY <2>5 DEF CancelStep, DeleteRead, CancelRead, CancelRow, StopRun, DeleteRow, DeleteAny
  <2>6. CASE Disconnect(c)
    BY <2>6 DEF Disconnect
  <2> QED
    BY <2>1, <2>2, <2>3, <2>4, <2>5, <2>6 DEF RequestStep, AddStep
<1>3. ctx' \in [Batch -> [Gid -> {"live", "canceled", "expired"}]]
  <2> USE DEF TypeOK, managerVars, runVars, envVars
  <2>1. CASE StopRun(c)
    BY <2>1 DEF StopRun
  <2>2. CASE UNCHANGED ctx
    BY <2>2
  <2>3. StopRun(c) \/ UNCHANGED ctx
    BY DEF NewRequest, Submit, Cancel, Delete, RequestStep, AddStep, CancelStep, Disconnect,
           LookupJob, PickGid, CheckQuota, CreateRow, MarkQueued, SendBatch,
           DeleteRead, CancelRead, CancelRow, DeleteRow, DeleteAny
  <2> QED
    BY <2>1, <2>2, <2>3
<1> QED
  BY <1>1, <1>2, <1>3 DEF TypeOK

LEMMA TypeOfRunStep ==
  ASSUME TypeOK, NEW b \in Batch, NEW g \in Gid, RunStep(b, g) \/ Expire(b, g), Table!TypeOK'
  PROVE  TypeOK'
<1> USE DEF managerVars, envVars
<1>1. UNCHANGED <<queue, queued, held, req, available, stopping>>
  BY DEF RunStep, Expire, ReadJob, Register, MarkRunning, BeginPrepare, EndPrepare,
         Resolve, FinishScan, Finish, Cleanup, EndRun
<1>2. running' \in [Gid -> SUBSET Batch]
  <2>1. Register(b, g) \/ EndRun(b, g) \/ UNCHANGED running
    BY DEF RunStep, Expire, ReadJob, MarkRunning, BeginPrepare, EndPrepare,
           Resolve, FinishScan, Finish, Cleanup
  <2> QED
    BY <2>1 DEF TypeOK, Register, EndRun
<1>3. prep' \in [Batch -> {"none", "busy", "ok", "failed"}]
  <2>1. BeginPrepare(b, g) \/ EndPrepare(b, g) \/ Leave(b, g) \/ UNCHANGED prep
    BY DEF RunStep, Expire, ReadJob, Register, MarkRunning, Resolve, FinishScan, Finish, Cleanup,
           EndRun
  <2> QED
    BY <2>1 DEF TypeOK, BeginPrepare, EndPrepare, Leave
<1>4. ctx' \in [Batch -> [Gid -> {"live", "canceled", "expired"}]]
  <2>1. UNCHANGED ctx \/ \E x \in {"live", "canceled", "expired"} : ctx' = [ctx EXCEPT ![b][g] = x]
    BY DEF RunStep, ReadJob, Register, MarkRunning, Expire, BeginPrepare, EndPrepare, Resolve,
           FinishScan,
           Finish, Cleanup, EndRun, Leave
  <2>2. CASE UNCHANGED ctx
    BY <2>2 DEF TypeOK
  <2>3. ASSUME NEW x \in {"live", "canceled", "expired"}, ctx' = [ctx EXCEPT ![b][g] = x]
        PROVE  ctx' \in [Batch -> [Gid -> {"live", "canceled", "expired"}]]
    BY <2>3 DEF TypeOK
  <2> QED
    BY <2>1, <2>2, <2>3
<1>5. pc' \in [Batch -> [Gid -> RunPc]]
  <2>1. UNCHANGED pc \/ \E p \in RunPc : Move(b, g, p)
    BY DEF RunStep, Expire, ReadJob, Register, MarkRunning, BeginPrepare, EndPrepare,
           Resolve, FinishScan, Finish, Cleanup, EndRun, Leave, RunPc
  <2>2. pc \in [Batch -> [Gid -> RunPc]]
    BY DEF TypeOK
  <2>3. ASSUME NEW p \in RunPc, Move(b, g, p)
        PROVE  pc' \in [Batch -> [Gid -> RunPc]]
    BY <2>2, <2>3 DEF Move
  <2> QED
    BY <2>1, <2>2, <2>3
<1> QED
  BY <1>1, <1>2, <1>3, <1>4, <1>5 DEF TypeOK

LEMMA TypeStep == TypeOK /\ [Next]_vars => TypeOK'
<1> SUFFICES ASSUME TypeOK, [Next]_vars PROVE TypeOK'
  OBVIOUS
<1>0. Table!TypeOK'
  BY TableTypeStep
<1> USE DEF managerVars, runVars, envVars
<1>1. ASSUME NEW c \in Client, NewRequest(c) \/ RequestStep(c) PROVE TypeOK'
  BY <1>0, <1>1, TypeOfRequestStep
<1>2. CASE WorkerReceive
  BY <1>0, <1>2 DEF TypeOK, WorkerReceive
<1>3. ASSUME NEW b \in Batch, WorkerDispatch(b) PROVE TypeOK'
  BY <1>0, <1>3 DEF TypeOK, WorkerDispatch, RunPc
<1>4. ASSUME NEW b \in Batch, NEW g \in Gid, RunStep(b, g) \/ Expire(b, g) PROVE TypeOK'
  BY <1>0, <1>4, TypeOfRunStep
<1>5. CASE BecomeAvailable
  BY <1>0, <1>5 DEF TypeOK, BecomeAvailable
<1>6. CASE Shutdown
  BY <1>0, <1>6 DEF TypeOK, Shutdown
<1>7. CASE Restart
  <2>1. NoRequest \in Request /\ RequestOK(NoRequest)
    BY DEF NoRequest, About, Request, RequestOK, RequestPc, AddPc, RemovePc
  <2>2. queued' \in SUBSET Gid
    BY <1>7 DEF Restart
  <2>4. queue' = <<>> \/ queue' = <<queued'>>
    BY <1>7 DEF Restart
  <2>5. <<queued'>> \in Seq(SUBSET Gid) /\ <<>> \in Seq(SUBSET Gid)
    BY <2>2
  <2>3. Fresh
    BY <1>7 DEF Restart
  <2> QED
    BY <1>0, <2>1, <2>2, <2>3, <2>4, <2>5 DEF TypeOK, Fresh, RunPc
<1>8. CASE UNCHANGED vars
  BY <1>0, <1>8 DEF vars, TypeOK
<1> QED
  BY <1>1, <1>2, <1>3, <1>4, <1>5, <1>6, <1>7, <1>8 DEF Next, LifeStep

\* Every variable keeps the shape TypeOK gives it, in every interleaving.
THEOREM TypeCorrect == Spec => []TypeOK
<1>1. TypeOK /\ [Next]_vars => TypeOK'
  BY TypeStep
<1> QED
  BY TypeInit, <1>1, PTL DEF Spec

----------------------------------------------------------------------------
(* What the manager inherits from the table.                               *)

\* The manager implements the specification of the tasks table
\* (ImplementsTable).
THEOREM ManagerImplementsTable == Spec => ImplementsTable
<1>1. Init => Table!Init
  BY DEF Init
<1>2. TypeOK /\ [Next]_vars => [Table!Next]_jobs
  BY RefinesStep
<1> QED
  BY <1>1, <1>2, TypeCorrect, PTL DEF Spec, ImplementsTable, Table!Spec

\* Whatever requests, runs and restarts interleave, a torrent has one active
\* row per source: the theorem about the table, for the manager.
THEOREM OneActivePerTorrent == Spec => []Table!OneActivePerTorrent
<1>1. MaxDraw \in Nat /\ MaxId \in Nat
  BY ManagerAssumption
<1>2. T!Spec => []T!OneActivePerTorrent
  BY T!TableOneActive, <1>1
<1>3. /\ Table!Init => T!Init
      /\ [Table!Next]_jobs => [T!Next]_jobs
      /\ T!OneActivePerTorrent => Table!OneActivePerTorrent
  BY SameTable
<1> QED
  BY <1>2, <1>3, ManagerImplementsTable, PTL DEF ImplementsTable, Table!Spec, T!Spec

\* A canceled row stays canceled until it is deleted (CanceledIsFinal).
THEOREM CanceledStaysCanceled == Spec => CanceledIsFinal
<1>1. TypeOK /\ [Next]_vars
        => [\A g \in Gid : Table!State(g) = "canceled" => jobs'[g].state \in {"canceled", "none"}]_jobs
  <2> SUFFICES ASSUME TypeOK, [Next]_vars, NEW g \in Gid, Table!State(g) = "canceled"
               PROVE  jobs'[g].state \in {"canceled", "none"}
    OBVIOUS
  <2>1. MaxDraw \in Nat /\ MaxId \in Nat
    BY ManagerAssumption
  <2>2. T!TypeOK /\ [T!Next]_jobs
    BY RefinesStep, SameTable DEF TypeOK
  <2>3. T!State(g) = "canceled" /\ g \in T!Gid
    BY SameTable DEF T!State, Table!State
  <2>4. T!State(g)' \in {"canceled", "none"}
    BY T!CanceledStep, <2>1, <2>2, <2>3
  <2> QED
    BY <2>4 DEF T!State
<1> QED
  BY <1>1, TypeCorrect, PTL DEF Spec, CanceledIsFinal

----------------------------------------------------------------------------
(* NoOrphanRunning is inductive: a row becomes running in the step that    *)
(* makes a run of it Working, and a run leaves Working by Finish, which    *)
(* takes the row out of "running" whatever it finds.                       *)

Backed(g) == \E b \in Batch : pc[b][g] \in Working

LEMMA BackedByOthers ==
  ASSUME TypeOK, NEW b \in Batch, NEW g \in Gid, NEW k \in Gid, NEW p \in RunPc,
         Move(b, g, p), pc[b][g] \notin Working \/ p \in Working, Backed(k)
  PROVE  Backed(k)'
BY DEF TypeOK, Move, Backed

\* One row at a time: what other rows say does not matter.
LEMMA BackedStep ==
  ASSUME TypeOK, [Next]_vars, NEW k \in Gid,
         Table!State(k) = "running" /\ jobs[k].source \in Resumed => Backed(k),
         jobs'[k].state = "running", jobs'[k].source \in Resumed
  PROVE  Backed(k)'
<1> USE DEF managerVars, runVars, envVars
<1>0. ASSUME jobs'[k] = jobs[k] PROVE Backed(k)
  BY <1>0 DEF Table!State
<1>u. ASSUME jobs'[k] = jobs[k], UNCHANGED pc PROVE Backed(k)'
  BY <1>0, <1>u DEF Backed
<1>t. jobs \in [Gid -> Table!Job \cup {Table!NoJob}]
  BY DEF TypeOK, Table!TypeOK
<1>1. ASSUME NEW c \in Client, NewRequest(c) \/ RequestStep(c) PROVE Backed(k)'
  <2>1. UNCHANGED pc
    BY <1>1 DEF NewRequest, Submit, Cancel, Delete, RequestStep, AddStep, CancelStep, Disconnect,
           LookupJob, PickGid, CheckQuota, CreateRow, MarkQueued, SendBatch,
           DeleteRead, CancelRead, CancelRow, StopRun, DeleteRow, DeleteAny
  <2>2. CASE CreateRow(c)
    <3>1. UNCHANGED jobs \/ \E g \in req[c].picked : Table!CreateJob(g, req[c].src)
      BY <2>2 DEF CreateRow
    <3>2. req[c].picked \subseteq Gid
      BY DEF TypeOK, Request
    <3>3. ASSUME NEW g \in Gid, Table!CreateJob(g, req[c].src) PROVE jobs'[k] = jobs[k]
      BY <3>3, <1>t DEF Table!CreateJob
    <3> QED BY <3>1, <3>2, <3>3, <2>1, <1>u
  <2>3. CASE CancelRow(c) \/ DeleteRow(c) \/ DeleteAny(c)
    <3> DEFINE g == req[c].gid
    <3>1. g \in Gid
      BY <2>3 DEF CancelRow, DeleteRow, DeleteAny, At, TypeOK, RequestOK, RemovePc
    <3>2. UNCHANGED jobs \/ Table!CancelJob(g) \/ Table!DeleteJob(g) \/ Table!DeleteJobAny(g)
      BY <2>3 DEF CancelRow, DeleteRow, DeleteAny
    <3>3. CASE Table!CancelJob(g)
      <4>1. jobs[g] \in Table!Job
        BY <1>t, <3>1, <3>3 DEF Table!CancelJob, Table!Cancelable, Table!State, Table!NoJob
      <4> QED BY <1>t, <1>u, <2>1, <3>1, <3>3, <4>1 DEF Table!CancelJob, Table!Job
    <3>4. CASE Table!DeleteJob(g) \/ Table!DeleteJobAny(g)
      BY <1>t, <1>u, <2>1, <3>1, <3>4 DEF Table!DeleteJob, Table!DeleteJobAny, Table!NoJob
    <3> QED BY <1>u, <2>1, <3>2, <3>3, <3>4
  <2>4. CASE ~(CreateRow(c) \/ CancelRow(c) \/ DeleteRow(c) \/ DeleteAny(c))
    <3>1. UNCHANGED jobs
      BY <1>1, <2>4
         DEF NewRequest, Submit, Cancel, Delete, RequestStep, AddStep, CancelStep, Disconnect,
             LookupJob, PickGid, CheckQuota, MarkQueued, SendBatch, DeleteRead, CancelRead, StopRun
    <3> QED BY <1>u, <2>1, <3>1
  <2> QED BY <2>2, <2>3, <2>4
<1>2. ASSUME NEW b \in Batch, WorkerDispatch(b) PROVE Backed(k)'
  <2>1. UNCHANGED jobs
    BY <1>2 DEF WorkerDispatch
  <2>2. PICK x \in Batch : pc[x][k] \in Working
    BY <1>0, <2>1 DEF Backed
  <2>3. x # b
    BY <1>2, <2>2 DEF WorkerDispatch, Free, Working
  <2>4. pc'[x] = pc[x]
    BY <1>2, <2>3 DEF WorkerDispatch, TypeOK
  <2> QED BY <2>2, <2>4 DEF Backed
<1>3. ASSUME NEW b \in Batch, NEW g \in Gid, MarkRunning(b, g) PROVE Backed(k)'
  <2>1. CASE Table!UpdateJob(g, "running") /\ Move(b, g, "resolve")
    <3>1. CASE k = g
      BY <2>1, <3>1 DEF Move, Backed, Working, TypeOK
    <3>2. CASE k # g
      <4>1. jobs'[k] = jobs[k]
        BY <1>t, <2>1, <3>2 DEF Table!UpdateJob
      <4> QED BY <1>0, <2>1, <4>1, BackedByOthers DEF RunPc, Working
    <3> QED BY <3>1, <3>2
  <2>2. CASE UNCHANGED jobs /\ \E p \in {"cleanup", "leaving"} : Move(b, g, p)
    BY <1>0, <1>3, <2>2, BackedByOthers DEF MarkRunning, RunPc, Working
  <2> QED BY <1>3, <2>1, <2>2 DEF MarkRunning
<1>4. ASSUME NEW b \in Batch, NEW g \in Gid, Finish(b, g) PROVE Backed(k)'
  <2>1. PICK p \in {"cleanup", "leaving"} : Move(b, g, p)
    BY <1>4 DEF Finish
  <2>2. pc[b][g] \in {"succeeded", "failed"}
    BY <1>4 DEF Finish
  \* The row the run finishes is not running afterwards.
  <2>3. k # g
    <3>1. CASE Table!UpdateOutcome(g, pc[b][g]) = "ok"
      <4>1. jobs' = [jobs EXCEPT ![g].state = pc[b][g]]
        BY <1>4, <3>1 DEF Finish, Table!UpdateJob
      <4>2. jobs[g] \in Table!Job
        BY <1>t, <3>1 DEF Table!UpdateOutcome, Table!Exists, Table!NoJob
      <4> QED BY <1>t, <2>2, <4>1, <4>2 DEF Table!Job
    <3>2. CASE Table!UpdateOutcome(g, pc[b][g]) # "ok"
      <4>1. UNCHANGED jobs
        BY <1>4, <3>2 DEF Finish
      <4>2. jobs[g].state \in {"none", "canceled"}
        BY <2>2, <3>2 DEF Table!UpdateOutcome, Table!Exists, Table!State, Table!Active
      <4> QED BY <4>1, <4>2
    <3> QED BY <3>1, <3>2
  <2>4. jobs'[k] = jobs[k]
    BY <1>4, <1>t, <2>3 DEF Finish, Table!UpdateJob
  <2>5. PICK x \in Batch : pc[x][k] \in Working
    BY <1>0, <2>4 DEF Backed
  <2>6. pc'[x][k] = pc[x][k]
    BY <2>1, <2>3 DEF Move, TypeOK
  <2> QED BY <2>5, <2>6 DEF Backed
<1>5. ASSUME NEW b \in Batch, NEW g \in Gid,
             RunStep(b, g) \/ Expire(b, g), ~MarkRunning(b, g), ~Finish(b, g)
      PROVE  Backed(k)'
  <2>1. UNCHANGED jobs
    BY <1>5 DEF RunStep, Expire, ReadJob, Register, BeginPrepare, EndPrepare, Resolve,
                FinishScan, Cleanup, EndRun
  <2>2. \/ UNCHANGED pc
        \/ \E p \in RunPc : Move(b, g, p) /\ (pc[b][g] \notin Working \/ p \in Working)
    BY <1>5 DEF RunStep, Expire, ReadJob, Register, BeginPrepare, EndPrepare, Resolve,
                FinishScan, Cleanup,
                EndRun, Leave, RunPc, Working
  <2> QED BY <1>0, <1>u, <2>1, <2>2, BackedByOthers
<1>6. CASE Restart
  <2>1. jobs' = Table!Recovered(Resumed)
    BY <1>6 DEF Restart, Table!RecoverRunningJobs
  <2>2. CASE jobs[k].state = "running" /\ jobs[k].source \in Resumed
    <3>1. jobs[k] \in Table!Job
      BY <1>t, <2>2 DEF Table!NoJob
    <3>2. jobs'[k].state = "queued"
      BY <2>1, <2>2, <3>1 DEF Table!Recovered, Table!State, Table!Job
    <3> QED BY <3>2
  <2>3. CASE ~(jobs[k].state = "running" /\ jobs[k].source \in Resumed)
    BY <2>1, <2>3 DEF Table!Recovered, Table!State
  <2> QED BY <2>2, <2>3
<1>7. CASE WorkerReceive \/ BecomeAvailable \/ Shutdown \/ UNCHANGED vars
  BY <1>7, <1>u DEF WorkerReceive, BecomeAvailable, Shutdown, vars
<1> QED
  BY <1>1, <1>2, <1>3, <1>4, <1>5, <1>6, <1>7 DEF Next, LifeStep

LEMMA NoOrphanStep == TypeOK /\ NoOrphanRunning /\ [Next]_vars => NoOrphanRunning'
<1> SUFFICES ASSUME TypeOK, NoOrphanRunning, [Next]_vars, NEW k \in Gid,
                    jobs'[k].state = "running", jobs'[k].source \in Resumed
             PROVE  Backed(k)'
  BY DEF NoOrphanRunning, Backed, Table!State
<1> QED BY BackedStep DEF NoOrphanRunning, Backed

\* A resumed source never has a running row that no run works on: not after
\* cancels and deletions, gids used again, timeouts, shutdowns or crashes.
THEOREM NoOrphans == Spec => []NoOrphanRunning
<1>1. Init => NoOrphanRunning
  BY DEF Init, Table!Init, NoOrphanRunning, Table!State, Table!NoJob
<1>2. TypeOK /\ NoOrphanRunning /\ [Next]_vars => NoOrphanRunning'
  BY NoOrphanStep
<1> QED
  BY <1>1, <1>2, TypeCorrect, PTL DEF Spec

----------------------------------------------------------------------------
(* Once is inductive: prep[b] is "busy" exactly while the run that made it *)
(* so is preparing.  So a run that ends a preparation finds it busy, and a *)
(* result is replaced by nobody.                                           *)

Once == \A b \in Batch : OnceOf(b)

LEMMA OnceStep == TypeOK /\ Once /\ [Next]_vars => Once'
<1> SUFFICES ASSUME TypeOK, Once, [Next]_vars, NEW x \in Batch
             PROVE  OnceOf(x)'
  BY DEF Once
<1> USE DEF managerVars, runVars, envVars
<1>0. OnceOf(x)
  BY DEF Once
<1>t. /\ pc \in [Batch -> [Gid -> RunPc]]
      /\ prep \in [Batch -> {"none", "busy", "ok", "failed"}]
  BY DEF TypeOK
\* Only who is preparing matters.
<1>u. ASSUME (prep'[x] = "busy") <=> (prep[x] = "busy"),
             \A g \in Gid : pc'[x][g] = "preparing" <=> pc[x][g] = "preparing"
      PROVE  OnceOf(x)'
  BY <1>0, <1>u DEF OnceOf
<1>1. ASSUME NEW c \in Client, NewRequest(c) \/ RequestStep(c) PROVE OnceOf(x)'
  <2>1. UNCHANGED <<prep, pc>>
    BY <1>1 DEF NewRequest, Submit, Cancel, Delete, RequestStep, AddStep, CancelStep, Disconnect,
           LookupJob, PickGid, CheckQuota, CreateRow, MarkQueued, SendBatch,
           DeleteRead, CancelRead, CancelRow, StopRun, DeleteRow, DeleteAny
  <2> QED BY <2>1, <1>u
<1>2. ASSUME NEW b \in Batch, WorkerDispatch(b) PROVE OnceOf(x)'
  <2>1. \A g \in Gid : pc'[x][g] = "preparing" <=> pc[x][g] = "preparing"
    BY <1>2, <1>t DEF WorkerDispatch, Free
  <2> QED BY <1>2, <2>1, <1>u DEF WorkerDispatch
<1>3. ASSUME NEW b \in Batch, NEW g \in Gid, BeginPrepare(b, g) PROVE OnceOf(x)'
  <2>1. CASE b # x
    BY <1>3, <2>1, <1>t, <1>u DEF BeginPrepare, Move
  <2>2. CASE b = x
    <3>1. prep'[x] = "busy" /\ \A k \in Gid : pc'[x][k] = IF k = g THEN "preparing" ELSE pc[x][k]
      BY <1>3, <2>2, <1>t DEF BeginPrepare, Move
    <3>2. \A k \in Gid : pc[x][k] # "preparing"
      BY <1>0, <1>3, <2>2 DEF BeginPrepare, OnceOf
    <3> QED BY <3>1, <3>2 DEF OnceOf
  <2> QED BY <2>1, <2>2
<1>4. ASSUME NEW b \in Batch, NEW g \in Gid, EndPrepare(b, g) PROVE OnceOf(x)'
  <2>1. CASE b # x
    BY <1>4, <2>1, <1>t, <1>u DEF EndPrepare, Move
  <2>2. CASE b = x
    <3>1. prep'[x] # "busy" /\ \A k \in Gid : pc'[x][k] = IF k = g THEN "resolve" ELSE pc[x][k]
      BY <1>4, <2>2, <1>t DEF EndPrepare, Move
    <3>2. \A k \in Gid : pc'[x][k] # "preparing"
      BY <1>0, <1>4, <2>2, <3>1 DEF EndPrepare, OnceOf
    <3> QED BY <3>1, <3>2 DEF OnceOf
  <2> QED BY <2>1, <2>2
\* The last run of a batch clears prep: nobody is preparing then.
<1>5. ASSUME NEW b \in Batch, NEW g \in Gid, EndRun(b, g) PROVE OnceOf(x)'
  <2>1. \A k \in Gid : pc'[x][k] = IF b = x /\ k = g THEN "idle" ELSE pc[x][k]
    BY <1>5, <1>t DEF EndRun, Leave, Move
  <2>2. pc[b][g] = "leaving"
    BY <1>5 DEF EndRun
  <2>3. \A k \in Gid : pc'[x][k] = "preparing" <=> pc[x][k] = "preparing"
    BY <2>1, <2>2
  <2>4. prep'[x] = "busy" <=> prep[x] = "busy"
    <3>1. CASE b = x /\ \A k \in Gid \ {g} : pc[b][k] = "idle"
      <4>1. prep'[x] = "none"
        BY <1>5, <3>1, <1>t DEF EndRun, Leave
      <4>2. \A k \in Gid : pc[x][k] # "preparing"
        BY <3>1, <2>2
      <4> QED BY <1>0, <4>1, <4>2 DEF OnceOf
    <3>2. CASE ~(b = x /\ \A k \in Gid \ {g} : pc[b][k] = "idle")
      BY <1>5, <3>2, <1>t DEF EndRun, Leave
    <3> QED BY <3>1, <3>2
  <2> QED BY <2>3, <2>4, <1>u
<1>6. ASSUME NEW b \in Batch, NEW g \in Gid, RunStep(b, g) \/ Expire(b, g),
             ~BeginPrepare(b, g), ~EndPrepare(b, g), ~EndRun(b, g)
      PROVE  OnceOf(x)'
  <2>1. UNCHANGED prep
    BY <1>6 DEF RunStep, Expire, ReadJob, Register, MarkRunning, Resolve, FinishScan, Finish,
                Cleanup
  <2>2. \/ UNCHANGED pc
        \/ \E p \in RunPc \ {"preparing"} : Move(b, g, p) /\ pc[b][g] # "preparing"
    BY <1>6 DEF RunStep, Expire, ReadJob, Register, MarkRunning, Resolve, FinishScan, Finish,
                Cleanup,
                RunPc
  <2>3. \A k \in Gid : pc'[x][k] = "preparing" <=> pc[x][k] = "preparing"
    BY <2>2, <1>t DEF Move
  <2> QED BY <2>1, <2>3, <1>u
<1>7. CASE Restart
  BY <1>7 DEF Restart, Fresh, OnceOf
<1>8. CASE WorkerReceive \/ BecomeAvailable \/ Shutdown \/ UNCHANGED vars
  BY <1>8, <1>u DEF WorkerReceive, BecomeAvailable, Shutdown, vars
<1> QED
  BY <1>1, <1>2, <1>3, <1>4, <1>5, <1>6, <1>7, <1>8 DEF Next, LifeStep

LEMMA ResultStaysStep == TypeOK /\ Once /\ [Next]_vars => [\A b \in Batch : ResultStays(b)]_vars
<1> SUFFICES ASSUME TypeOK, Once, Next, NEW x \in Batch, prep[x] \in {"ok", "failed"}
             PROVE  prep'[x] = prep[x] \/ \A k \in Gid : pc'[x][k] = "idle"
  BY DEF ResultStays
<1> USE DEF managerVars, runVars, envVars
<1>t. /\ pc \in [Batch -> [Gid -> RunPc]]
      /\ prep \in [Batch -> {"none", "busy", "ok", "failed"}]
  BY DEF TypeOK
<1>1. ASSUME NEW c \in Client, NewRequest(c) \/ RequestStep(c) PROVE UNCHANGED prep
  BY <1>1 DEF NewRequest, Submit, Cancel, Delete, RequestStep, AddStep, CancelStep, Disconnect,
         LookupJob, PickGid, CheckQuota, CreateRow, MarkQueued, SendBatch,
         DeleteRead, CancelRead, CancelRow, StopRun, DeleteRow, DeleteAny
<1>2. ASSUME NEW b \in Batch, NEW g \in Gid, BeginPrepare(b, g) \/ EndPrepare(b, g)
      PROVE  prep'[x] = prep[x]
  <2>1. b # x
    BY <1>2 DEF BeginPrepare, EndPrepare, Once, OnceOf
  <2> QED BY <1>t, <1>2, <2>1 DEF BeginPrepare, EndPrepare
<1>3. ASSUME NEW b \in Batch, NEW g \in Gid, EndRun(b, g)
      PROVE  prep'[x] = prep[x] \/ \A k \in Gid : pc'[x][k] = "idle"
  <2>1. CASE b = x /\ \A k \in Gid \ {g} : pc[b][k] = "idle"
    <3>1. \A k \in Gid : pc'[x][k] = IF k = g THEN "idle" ELSE pc[x][k]
      BY <1>t, <1>3, <2>1 DEF EndRun, Leave, Move
    <3> QED BY <2>1, <3>1
  <2>2. CASE ~(b = x /\ \A k \in Gid \ {g} : pc[b][k] = "idle")
    BY <1>t, <1>3, <2>2 DEF EndRun, Leave
  <2> QED BY <2>1, <2>2
<1>4. ASSUME NEW b \in Batch, NEW g \in Gid, RunStep(b, g) \/ Expire(b, g),
             ~BeginPrepare(b, g), ~EndPrepare(b, g), ~EndRun(b, g)
      PROVE  UNCHANGED prep
  BY <1>4 DEF RunStep, Expire, ReadJob, Register, MarkRunning, Resolve, FinishScan, Finish, Cleanup
<1>5. CASE Restart
  BY <1>5 DEF Restart, Fresh
<1>6. CASE WorkerReceive \/ BecomeAvailable \/ Shutdown \/ \E b \in Batch : WorkerDispatch(b)
  BY <1>6 DEF WorkerReceive, BecomeAvailable, Shutdown, WorkerDispatch
<1> QED
  BY <1>1, <1>2, <1>3, <1>4, <1>5, <1>6 DEF Next, LifeStep

\* The runs of a batch share one preparation: one of them makes it, and its result
\* stays until the batch is over (OnePreparer).
THEOREM OnePreparerAlways == Spec => OnePreparer
<1>1. Init => Once
  BY DEF Init, Once, OnceOf
<1>2. TypeOK /\ Once /\ [Next]_vars => Once'
  BY OnceStep
<1>3. TypeOK /\ Once /\ [Next]_vars => [\A b \in Batch : ResultStays(b)]_vars
  BY ResultStaysStep
<1>4. Once <=> \A b \in Batch : OnceOf(b)
  BY DEF Once
<1> QED
  BY <1>1, <1>2, <1>3, <1>4, TypeCorrect, PTL DEF Spec, OnePreparer

----------------------------------------------------------------------------
(* QueuedMapExact is inductive: a mark moves from a request to the channel *)
(* to the worker, and MarkQueued only marks what is nowhere yet.           *)

\* The same, gid by gid.
OnTheWay(x) == \/ \E i \in 1..Len(queue) : x \in queue[i]
               \/ x \in held
               \/ \E c \in Client : x \in Sending(c)

Apart ==
  /\ \A i, j \in 1..Len(queue) : i # j => queue[i] \cap queue[j] = {}
  /\ \A i \in 1..Len(queue) : held \cap queue[i] = {}
  /\ \A c \in Client : /\ Sending(c) \cap held = {}
                       /\ \A i \in 1..Len(queue) : Sending(c) \cap queue[i] = {}
  /\ \A c, d \in Client : c # d => Sending(c) \cap Sending(d) = {}

Exact == (\A x : x \in queued <=> OnTheWay(x)) /\ Apart

LEMMA ExactIsExact == (QueuedMapExact <=> Exact) /\ (QueuedMapExact' <=> Exact')
<1>1. QueuedMapExact <=> Exact
  BY DEF QueuedMapExact, Exact, InOnePlace, Apart, OnTheWay, InChannel, Marked
<1> QED
  BY <1>1, PTL

LEMMA AppendedElements ==
  ASSUME NEW S, NEW q \in Seq(S), NEW e \in S
  PROVE  /\ Len(Append(q, e)) = Len(q) + 1
         /\ \A i \in 1..Len(q) : Append(q, e)[i] = q[i]
         /\ Append(q, e)[Len(q) + 1] = e
OBVIOUS

LEMMA TailElements ==
  ASSUME NEW S, NEW q \in Seq(S), q # <<>>
  PROVE  /\ Len(q) \in Nat \ {0} /\ Len(Tail(q)) = Len(q) - 1
         /\ \A i \in 1..Len(q) - 1 : Tail(q)[i] = q[i + 1]
         /\ Head(q) = q[1]
OBVIOUS

\* A step that changes neither the marks nor what is being sent.
LEMMA ExactStutter ==
  ASSUME Exact, UNCHANGED <<queue, queued, held>>,
         \A c \in Client : Sending(c)' = Sending(c)
  PROVE  Exact'
BY DEF Exact, Apart, OnTheWay

LEMMA ExactMark ==
  ASSUME TypeOK, Exact, NEW c \in Client, MarkQueued(c)
  PROVE  Exact'
<1> USE DEF runVars, envVars
<1>0. req \in [Client -> Request] /\ req[c].pc = "mark"
  BY DEF TypeOK, MarkQueued, At
<1>1. queued' = queued \cup (req[c].made \ queued) /\ UNCHANGED <<queue, held>>
  BY DEF MarkQueued
<1>2. Sending(c) = {} /\ Sending(c)' = req[c].made \ queued
  <2>1. CASE req[c].made \ queued = {}
    BY <1>0, <2>1 DEF MarkQueued, Sending, At, NoRequest, About
  <2>2. CASE req[c].made \ queued # {}
    <3>1. req'[c] = [req[c] EXCEPT !.made = req[c].made \ queued, !.pc = "send"]
      BY <1>0, <2>2 DEF MarkQueued
    <3> QED BY <1>0, <3>1 DEF Sending, At, Request
  <2> QED BY <2>1, <2>2
<1>3. \A d \in Client : d # c => Sending(d)' = Sending(d)
  BY <1>0 DEF MarkQueued, Sending, At
<1>4. \A x : x \in queued' <=> OnTheWay(x)'
  BY <1>1, <1>2, <1>3 DEF Exact, OnTheWay
<1>5. Apart'
  <2>1. \A x \in Sending(c)' : ~OnTheWay(x)
    BY <1>2 DEF Exact
  <2> QED BY <1>1, <1>2, <1>3, <2>1 DEF Exact, Apart, OnTheWay
<1> QED BY <1>4, <1>5 DEF Exact

LEMMA ExactSend ==
  ASSUME TypeOK, Exact, NEW c \in Client, SendBatch(c)
  PROVE  Exact'
<1> USE DEF runVars, envVars
<1>0. /\ req \in [Client -> Request] /\ req[c].made \in SUBSET Gid
      /\ queue \in Seq(SUBSET Gid)
  BY DEF TypeOK, Request
<1>1. Sending(c) = req[c].made /\ Sending(c)' = {} /\ UNCHANGED held
  BY <1>0 DEF SendBatch, Sending, At, Return, NoRequest, About
<1>2. \A d \in Client : d # c => Sending(d)' = Sending(d)
  BY <1>0 DEF SendBatch, Sending, At, Return
<1>3. CASE queue' = Append(queue, req[c].made) /\ UNCHANGED queued
  <2>1. /\ Len(queue) \in Nat /\ Len(queue') = Len(queue) + 1
        /\ \A i \in 1..Len(queue) : queue'[i] = queue[i]
        /\ queue'[Len(queue) + 1] = Sending(c)
    BY <1>0, <1>1, <1>3, AppendedElements
  <2>2. \A i \in 1..Len(queue') : i \in 1..Len(queue) \/ i = Len(queue) + 1
    BY <2>1
  <2>3. Len(queue) + 1 \in 1..Len(queue') /\ \A i \in 1..Len(queue) : i \in 1..Len(queue')
    BY <2>1
  <2>4. \A x : OnTheWay(x)' <=> OnTheWay(x)
    BY <1>1, <1>2, <2>1, <2>2, <2>3 DEF OnTheWay
  <2>5. Apart'
    <3>1. \A i, j \in 1..Len(queue') : i # j => queue'[i] \cap queue'[j] = {}
      BY <2>1, <2>2 DEF Exact, Apart
    <3>2. \A i \in 1..Len(queue') : held' \cap queue'[i] = {}
      BY <1>1, <2>1, <2>2 DEF Exact, Apart
    <3>3. \A d \in Client : /\ Sending(d)' \cap held' = {}
                            /\ \A i \in 1..Len(queue') : Sending(d)' \cap queue'[i] = {}
      BY <1>1, <1>2, <2>1, <2>2 DEF Exact, Apart
    <3>4. \A d, e \in Client : d # e => Sending(d)' \cap Sending(e)' = {}
      BY <1>1, <1>2 DEF Exact, Apart
    <3> QED BY <3>1, <3>2, <3>3, <3>4 DEF Apart
  <2> QED BY <1>3, <2>4, <2>5 DEF Exact
<1>4. CASE queued' = queued \ req[c].made /\ UNCHANGED queue
  <2>1. \A x : x \in queued' <=> OnTheWay(x)'
    BY <1>1, <1>2, <1>4 DEF Exact, Apart, OnTheWay
  <2>2. Apart'
    BY <1>1, <1>2, <1>4 DEF Exact, Apart
  <2> QED BY <2>1, <2>2 DEF Exact
<1> QED BY <1>3, <1>4 DEF SendBatch

LEMMA ExactReceive ==
  ASSUME TypeOK, Exact, WorkerReceive
  PROVE  Exact'
<1> USE DEF runVars, envVars
<1>0. queue \in Seq(SUBSET Gid) /\ queue # <<>> /\ held = {}
  BY DEF TypeOK, WorkerReceive
<1>1. \A c \in Client : Sending(c)' = Sending(c)
  BY DEF WorkerReceive, Sending, At
<1>2. /\ Len(queue) \in Nat \ {0} /\ Len(queue') = Len(queue) - 1
      /\ \A i \in 1..Len(queue') : queue'[i] = queue[i + 1]
      /\ held' = queue[1]
  BY <1>0, TailElements DEF WorkerReceive
<1>3. \A i \in 1..Len(queue') : i + 1 \in 1..Len(queue) /\ i + 1 # 1
  BY <1>2
<1>4. \A i \in 1..Len(queue) : i = 1 \/ (i - 1 \in 1..Len(queue') /\ queue'[i - 1] = queue[i])
  BY <1>2
<1>5. 1 \in 1..Len(queue)
  BY <1>2
<1>6. \A x : OnTheWay(x)' <=> OnTheWay(x)
  BY <1>0, <1>1, <1>2, <1>3, <1>4, <1>5 DEF OnTheWay
<1>7. Apart'
  <2>1. \A i, j \in 1..Len(queue') : i # j => queue'[i] \cap queue'[j] = {}
    BY <1>2, <1>3 DEF Exact, Apart
  <2>2. \A i \in 1..Len(queue') : held' \cap queue'[i] = {}
    BY <1>2, <1>3, <1>5 DEF Exact, Apart
  <2>3. \A c \in Client : /\ Sending(c)' \cap held' = {}
                          /\ \A i \in 1..Len(queue') : Sending(c)' \cap queue'[i] = {}
    BY <1>1, <1>2, <1>3, <1>5 DEF Exact, Apart
  <2> QED BY <1>1, <2>1, <2>2, <2>3 DEF Exact, Apart
<1> QED BY <1>6, <1>7 DEF Exact, WorkerReceive

LEMMA ExactStep == TypeOK /\ Exact /\ [Next]_vars => Exact'
<1> SUFFICES ASSUME TypeOK, Exact, [Next]_vars PROVE Exact'
  OBVIOUS
<1> USE DEF managerVars, runVars, envVars
<1>0. req \in [Client -> Request]
  BY DEF TypeOK
<1>1. ASSUME NEW c \in Client, NewRequest(c) \/ RequestStep(c),
             ~MarkQueued(c), ~SendBatch(c)
      PROVE  Exact'
  <2>1. UNCHANGED <<queue, queued, held>>
    BY <1>1 DEF NewRequest, Submit, Cancel, Delete, RequestStep, AddStep, CancelStep, Disconnect,
           LookupJob, PickGid, CheckQuota, CreateRow,
           DeleteRead, CancelRead, CancelRow, StopRun, DeleteRow, DeleteAny
  <2>2. req[c].pc # "send"
    BY <1>1 DEF NewRequest, Submit, Cancel, Delete, RequestStep, AddStep, CancelStep, Disconnect,
           LookupJob, PickGid, CheckQuota, CreateRow, At,
           DeleteRead, CancelRead, CancelRow, StopRun, DeleteRow, DeleteAny
  <2>n. ASSUME Return(c) PROVE req'[c].pc # "send"
    BY <1>0, <2>n DEF Return, NoRequest, About
  <2>g. ASSUME NEW p, p # "send", Goto(c, p) PROVE req'[c].pc # "send"
    BY <1>0, <2>g DEF Goto, Request
  <2>a. ASSUME NEW r \in Request PROVE AfterItem(r).pc # "send"
    BY DEF AfterItem, NoRequest, About, Request
  <2>3. req'[c].pc # "send"
    <3>1. CASE NewRequest(c)
      <4>1. ASSUME NEW s \in Source, NEW m \in Magnets, Submit(c, s, m) PROVE req'[c].pc # "send"
        <5>1. req'[c] = [About(NoGid, "add", "lookup") EXCEPT !.src = s, !.todo = m]
          BY <1>0, <4>1 DEF Submit
        <5> QED BY <5>1 DEF About
      <4>2. ASSUME NEW g \in Gid, Cancel(c, g) \/ Delete(c, g) PROVE req'[c].pc # "send"
        BY <1>0, <4>2 DEF Cancel, Delete, About
      <4> QED BY <3>1, <4>1, <4>2 DEF NewRequest
    <3>2. CASE LookupJob(c)
      BY <1>0, <2>a, <3>2 DEF LookupJob, Request
    <3>3. CASE PickGid(c)
      <4>1. PICK g \in Gid : req' = [req EXCEPT ![c] = AfterItem([req[c] EXCEPT !.picked = @ \cup {g}])]
        BY <3>3 DEF PickGid
      <4> DEFINE r == [req[c] EXCEPT !.picked = @ \cup {g}]
      <4>2. r \in Request
        BY <1>0 DEF Request
      <4>3. req'[c] = AfterItem(r)
        BY <1>0, <4>1
      <4> HIDE DEF r
      <4> QED BY <2>a, <4>2, <4>3
    <3>4. CASE CreateRow(c)
      <4>1. CASE Return(c)
        BY <2>n, <4>1
      <4>2. CASE ~Return(c)
        <5>1. PICK g \in req[c].picked :
                req' = [req EXCEPT ![c] = [req[c] EXCEPT !.picked = @ \ {g}, !.made = @ \cup {g},
                          !.pc = IF req[c].picked = {g} THEN "mark" ELSE "create"]]
          BY <3>4, <4>2 DEF CreateRow
        <5> QED BY <1>0, <5>1 DEF Request
      <4> QED BY <4>1, <4>2
    <3>5. CASE CheckQuota(c) \/ CancelStep(c) \/ Disconnect(c)
      <4>1. Return(c) \/ \E p \in {"create", "cancelread", "cancelrow", "stoprun", "deleterow",
                                   "deleteany"} : Goto(c, p)
        BY <3>5 DEF CheckQuota, CancelStep, Disconnect, DeleteRead, CancelRead, CancelRow, StopRun,
                    DeleteRow, DeleteAny
      <4> QED BY <2>n, <2>g, <4>1
    <3> QED BY <1>1, <3>1, <3>2, <3>3, <3>4, <3>5 DEF RequestStep, AddStep
  <2>4. \A d \in Client : d # c => req'[d] = req[d]
    BY <1>0, <1>1 DEF NewRequest, Submit, Cancel, Delete, RequestStep, AddStep, CancelStep,
                      Disconnect,
           LookupJob, PickGid, CheckQuota, CreateRow, Return, Goto,
           DeleteRead, CancelRead, CancelRow, StopRun, DeleteRow, DeleteAny
  <2>5. \A d \in Client : Sending(d)' = Sending(d)
    BY <2>2, <2>3, <2>4 DEF Sending, At
  <2> QED BY <2>1, <2>5, ExactStutter
<1>2. ASSUME NEW b \in Batch, WorkerDispatch(b) PROVE Exact'
  <2>1. \A c \in Client : Sending(c)' = Sending(c)
    BY <1>2 DEF WorkerDispatch, Sending, At
  <2> QED BY <1>2, <2>1 DEF WorkerDispatch, Exact, Apart, OnTheWay
<1>3. CASE Restart
  <2>1. held' = {} /\ \A c \in Client : Sending(c)' = {}
    BY <1>3 DEF Restart, Fresh, Sending, At, NoRequest, About
  <2>2. \/ queue' = <<>> /\ queued' = {}
        \/ queue' = <<queued'>>
    BY <1>3 DEF Restart
  <2>3. CASE queue' = <<>> /\ queued' = {}
    BY <2>1, <2>3 DEF Exact, Apart, OnTheWay
  <2>4. CASE queue' = <<queued'>>
    <3>1. Len(queue') = 1 /\ queue'[1] = queued'
      BY <2>4
    <3>2. \A i \in 1..Len(queue') : i = 1
      BY <3>1
    <3>3. 1 \in 1..Len(queue')
      BY <3>1
    <3> QED BY <2>1, <3>1, <3>2, <3>3 DEF Exact, Apart, OnTheWay
  <2> QED BY <2>2, <2>3, <2>4
<1>4. CASE \/ \E b \in Batch, g \in Gid : RunStep(b, g) \/ Expire(b, g)
           \/ BecomeAvailable \/ Shutdown \/ UNCHANGED vars
  <2>1. UNCHANGED <<queue, queued, held, req>>
    BY <1>4 DEF RunStep, Expire, ReadJob, Register, MarkRunning, BeginPrepare, EndPrepare,
                Resolve, FinishScan, Finish, Cleanup, EndRun, BecomeAvailable, Shutdown, vars
  <2>2. \A c \in Client : Sending(c)' = Sending(c)
    BY <2>1 DEF Sending, At
  <2> QED BY <2>1, <2>2, ExactStutter
<1> QED
  BY <1>1, <1>2, <1>3, <1>4, ExactMark, ExactSend, ExactReceive
     DEF Next, LifeStep, RequestStep, AddStep

\* Manager.queued and the batches on their way agree at every moment
\* (QueuedMapExact).
THEOREM QueuedMapAlwaysExact == Spec => []QueuedMapExact
<1>1. Init => Exact
  BY DEF Init, Exact, Apart, OnTheWay, Sending, At, NoRequest, About
<1>2. TypeOK /\ Exact /\ [Next]_vars => Exact'
  BY ExactStep
<1>3. Exact => QueuedMapExact
  BY ExactIsExact
<1> QED
  BY <1>1, <1>2, <1>3, TypeCorrect, PTL DEF Spec
----------------------------------------------------------------------------
(* StrandedOnlyThen: what cares for a queued row passes it on (a request to *)
(* the marks, the worker to a batch) or is one of the four of Abandons.     *)

\* A request keeps the rows it has created until it ends.
LEMMA MadeKept ==
  ASSUME TypeOK, NEW c \in Client, NewRequest(c) \/ RequestStep(c),
         ~MarkQueued(c), ~SendBatch(c)
  PROVE  /\ req[c].pc \notin {"mark", "send"}
         /\ req[c].made \subseteq req'[c].made \/ req'[c].pc = "idle"
         /\ \A d \in Client : d # c => req'[d] = req[d]
<1>0. req \in [Client -> Request] /\ RequestOK(req[c])
  BY DEF TypeOK
<1>n. ASSUME Return(c) PROVE req'[c].pc = "idle"
  BY <1>0, <1>n DEF Return, NoRequest, About
<1>g. ASSUME NEW p, Goto(c, p) PROVE req[c].made \subseteq req'[c].made
  BY <1>0, <1>g DEF Goto, Request
<1>a. ASSUME NEW r \in Request PROVE r.made \subseteq AfterItem(r).made \/ AfterItem(r).pc = "idle"
  BY DEF AfterItem, NoRequest, About, Request
<1>1. CASE NewRequest(c)
  <2>1. req[c].pc = "idle" /\ \E r : req' = [req EXCEPT ![c] = r]
    BY <1>1 DEF NewRequest, Submit, Cancel, Delete, At
  <2> QED BY <1>0, <2>1 DEF RequestOK
<1>2. CASE LookupJob(c)
  BY <1>0, <1>2, <1>a DEF LookupJob, At, Request
<1>3. CASE PickGid(c)
  <2>1. PICK g \in Gid : req' = [req EXCEPT ![c] = AfterItem([req[c] EXCEPT !.picked = @ \cup {g}])]
    BY <1>3 DEF PickGid
  <2> DEFINE r == [req[c] EXCEPT !.picked = @ \cup {g}]
  <2>2. r \in Request /\ r.made = req[c].made
    BY <1>0 DEF Request
  <2>3. req' = [req EXCEPT ![c] = AfterItem(r)]
    BY <2>1
  <2> HIDE DEF r
  <2> QED BY <1>0, <1>3, <1>a, <2>2, <2>3 DEF PickGid, At
<1>4. CASE CreateRow(c)
  <2>1. CASE Return(c)
    BY <1>0, <1>4, <1>n, <2>1 DEF CreateRow, At, Return
  <2>2. CASE ~Return(c)
    <3>1. PICK g \in req[c].picked :
            req' = [req EXCEPT ![c] = [req[c] EXCEPT !.picked = @ \ {g}, !.made = @ \cup {g},
                      !.pc = IF req[c].picked = {g} THEN "mark" ELSE "create"]]
      BY <1>4, <2>2 DEF CreateRow
    <3> QED BY <1>0, <1>4, <3>1 DEF CreateRow, At, Request
  <2> QED BY <2>1, <2>2
<1>5. CASE CheckQuota(c) \/ CancelStep(c) \/ Disconnect(c)
  <2>1. Return(c) \/ \E p : Goto(c, p)
    BY <1>5 DEF CheckQuota, CancelStep, Disconnect, DeleteRead, CancelRead, CancelRow, StopRun,
                DeleteRow, DeleteAny
  <2>2. req[c].pc \notin {"mark", "send"}
    BY <1>5 DEF CheckQuota, CancelStep, Disconnect, DeleteRead, CancelRead, CancelRow, StopRun,
                DeleteRow, DeleteAny, At
  <2>3. \A d \in Client : d # c => req'[d] = req[d]
    BY <1>0, <2>1 DEF Return, Goto
  <2> QED BY <1>n, <1>g, <2>1, <2>2, <2>3
<1> QED
  BY <1>1, <1>2, <1>3, <1>4, <1>5 DEF RequestStep, AddStep

\* What a request does to a row of the table: it creates it, or leaves it
\* canceled or gone, or alone.
LEMMA RowOfRequest ==
  ASSUME TypeOK, NEW c \in Client, NewRequest(c) \/ RequestStep(c), NEW g \in Gid
  PROVE  \/ jobs'[g] = jobs[g]
         \/ jobs'[g].state \in {"none", "canceled"}
         \/ jobs'[g].state = "queued" /\ g \in req'[c].made
<1>t. jobs \in [Gid -> Table!Job \cup {Table!NoJob}]
  BY DEF TypeOK, Table!TypeOK
<1>0. req \in [Client -> Request]
  BY DEF TypeOK
<1>1. CASE CreateRow(c)
  <2>1. CASE UNCHANGED jobs
    BY <2>1
  <2>2. CASE ~UNCHANGED jobs
    <3>1. PICK k \in req[c].picked :
            /\ Table!CreateJob(k, req[c].src)
            /\ req' = [req EXCEPT ![c] = [req[c] EXCEPT !.picked = @ \ {k}, !.made = @ \cup {k},
                        !.pc = IF req[c].picked = {k} THEN "mark" ELSE "create"]]
      BY <1>1, <2>2 DEF CreateRow
    <3>2. k \in req'[c].made /\ (k \in Gid => jobs'[k].state = "queued")
      BY <1>0, <1>t, <3>1 DEF Request, Table!CreateJob
    <3>3. g # k => jobs'[g] = jobs[g]
      BY <1>t, <3>1 DEF Table!CreateJob
    <3> QED BY <3>2, <3>3
  <2> QED BY <2>1, <2>2
<1>2. CASE CancelRow(c) \/ DeleteRow(c) \/ DeleteAny(c)
  <2> DEFINE k == req[c].gid
  <2>1. k \in Gid
    BY <1>2 DEF CancelRow, DeleteRow, DeleteAny, At, TypeOK, RequestOK, RemovePc
  <2>2. UNCHANGED jobs \/ Table!CancelJob(k) \/ Table!DeleteJob(k) \/ Table!DeleteJobAny(k)
    BY <1>2 DEF CancelRow, DeleteRow, DeleteAny
  <2>3. CASE Table!CancelJob(k)
    <3>1. jobs[k] \in Table!Job
      BY <1>t, <2>1, <2>3 DEF Table!CancelJob, Table!Cancelable, Table!State, Table!NoJob
    <3> QED BY <1>t, <2>1, <2>3, <3>1 DEF Table!CancelJob, Table!Job
  <2>4. CASE Table!DeleteJob(k) \/ Table!DeleteJobAny(k)
    BY <1>t, <2>1, <2>4 DEF Table!DeleteJob, Table!DeleteJobAny, Table!NoJob
  <2> QED BY <2>2, <2>3, <2>4
<1>3. CASE ~(CreateRow(c) \/ CancelRow(c) \/ DeleteRow(c) \/ DeleteAny(c))
  <2> USE DEF managerVars, runVars, envVars
  <2>1. UNCHANGED jobs
    BY <1>3 DEF NewRequest, Submit, Cancel, Delete, RequestStep, AddStep, CancelStep, Disconnect,
           LookupJob, PickGid, CheckQuota, MarkQueued, SendBatch, DeleteRead, CancelRead, StopRun
  <2> QED BY <2>1
<1> QED BY <1>1, <1>2, <1>3

Starting == {"read", "ready", "registered"}

LEMMA StrandedByRequest ==
  ASSUME TypeOK, Exact, NEW c \in Client, NewRequest(c) \/ RequestStep(c),
         NEW g \in Gid, Stranded(g)'
  PROVE  Stranded(g) \/ Abandons(g)
<1> USE DEF managerVars, runVars, envVars
<1> SUFFICES ASSUME ~Stranded(g), ~Abandons(g) PROVE FALSE
  OBVIOUS
<1>0. req \in [Client -> Request]
  BY DEF TypeOK
<1>1. jobs'[g].state = "queued" /\ jobs'[g].source \in Resumed /\ ~CaredFor(g)'
  BY DEF Stranded, Table!State
<1>2. jobs'[g] = jobs[g]
  BY <1>1, RowOfRequest DEF CaredFor
<1>3. CaredFor(g)
  BY <1>1, <1>2 DEF Stranded, Table!State
<1>4. UNCHANGED pc
  BY DEF NewRequest, Submit, Cancel, Delete, RequestStep, AddStep, CancelStep, Disconnect,
         LookupJob, PickGid, CheckQuota, CreateRow, MarkQueued, SendBatch,
         DeleteRead, CancelRead, CancelRow, StopRun, DeleteRow, DeleteAny
<1>5. g \in queued \/ \E d \in Client : g \in req[d].made
  BY <1>1, <1>3, <1>4 DEF CaredFor
<1>6. g \notin queued' /\ \A d \in Client : g \notin req'[d].made
  BY <1>1 DEF CaredFor
<1>7. CASE MarkQueued(c)
  <2>1. queued' = queued \cup req[c].made
    BY <1>7 DEF MarkQueued
  <2>2. \A d \in Client : d # c => req'[d] = req[d]
    BY <1>0, <1>7 DEF MarkQueued
  <2> QED BY <1>5, <1>6, <2>1, <2>2
<1>8. CASE SendBatch(c)
  <2>1. At(c, "send") /\ \A d \in Client : d # c => req'[d] = req[d]
    BY <1>0, <1>8 DEF SendBatch, Return
  <2>2. g \in req[c].made => g \in queued
    BY <2>1 DEF Exact, OnTheWay, Sending
  <2>3. CASE queued' = queued
    BY <1>5, <1>6, <2>1, <2>2, <2>3
  <2>4. CASE (Len(queue) >= QueueCap \/ stopping) /\ queued' = queued \ req[c].made
    BY <1>5, <1>6, <2>1, <2>4 DEF Abandons
  <2> QED BY <1>8, <2>3, <2>4 DEF SendBatch
<1>9. CASE ~MarkQueued(c) /\ ~SendBatch(c)
  <2>1. UNCHANGED queued
    BY <1>9 DEF NewRequest, Submit, Cancel, Delete, RequestStep, AddStep, CancelStep, Disconnect,
           LookupJob, PickGid, CheckQuota, CreateRow,
           DeleteRead, CancelRead, CancelRow, StopRun, DeleteRow, DeleteAny
  <2>2. g \in req[c].made /\ req'[c].pc = "idle" /\ req[c].pc \notin {"mark", "send"}
    BY <1>5, <1>6, <1>9, <2>1, MadeKept
  <2> QED BY <2>2 DEF Abandons
<1> QED BY <1>7, <1>8, <1>9

LEMMA StrandedByRun ==
  ASSUME TypeOK, Table!OneActivePerTorrent, NEW b \in Batch, NEW k \in Gid,
         RunStep(b, k) \/ Expire(b, k), NEW g \in Gid, Stranded(g)'
  PROVE  Stranded(g) \/ Abandons(g)
<1> USE DEF managerVars, runVars, envVars
<1> SUFFICES ASSUME ~Stranded(g), ~Abandons(g) PROVE FALSE
  OBVIOUS
<1>t. /\ jobs \in [Gid -> Table!Job \cup {Table!NoJob}]
      /\ pc \in [Batch -> [Gid -> RunPc]]
  BY DEF TypeOK, Table!TypeOK
<1>1. jobs'[g].state = "queued" /\ jobs'[g].source \in Resumed /\ ~CaredFor(g)'
  BY DEF Stranded, Table!State
\* A run never writes "queued".
<1>2. jobs'[g] = jobs[g]
  <2>1. \/ UNCHANGED jobs
        \/ \E st \in {"running", "succeeded", "failed"} : Table!UpdateJob(k, st)
    BY DEF RunStep, Expire, ReadJob, Register, MarkRunning, BeginPrepare, EndPrepare,
           Resolve, FinishScan, Finish, Cleanup, EndRun
  <2>2. ASSUME NEW st \in {"running", "succeeded", "failed"}, Table!UpdateJob(k, st)
        PROVE  jobs'[g] = jobs[g]
    <3>1. jobs[k] \in Table!Job /\ jobs' = [jobs EXCEPT ![k].state = st]
      BY <1>t, <2>2 DEF Table!UpdateJob, Table!UpdateOutcome, Table!Exists, Table!NoJob
    <3>2. jobs'[k].state = st
      BY <1>t, <3>1 DEF Table!Job
    <3> QED BY <1>1, <1>t, <3>1, <3>2
  <2> QED BY <2>1, <2>2
<1>3. CaredFor(g)
  BY <1>1, <1>2 DEF Stranded, Table!State
<1>4. UNCHANGED <<queued, req>>
  BY DEF RunStep, Expire, ReadJob, Register, MarkRunning, BeginPrepare, EndPrepare,
         Resolve, FinishScan, Finish, Cleanup, EndRun
<1>5. PICK x \in Batch : pc[x][g] \in Starting /\ pc'[x][g] \notin Starting
  BY <1>1, <1>3, <1>4 DEF CaredFor, Starting
<1>6. x = b /\ g = k
  <2>1. UNCHANGED pc \/ \E p \in RunPc : Move(b, k, p)
    BY DEF RunStep, Expire, ReadJob, Register, MarkRunning, BeginPrepare, EndPrepare,
           Resolve, FinishScan, Finish, Cleanup, EndRun, Leave, RunPc
  <2> QED BY <1>t, <1>5, <2>1 DEF Move
<1>7. jobs[g].state = "queued"
  BY <1>1, <1>2
<1>8. CASE ReadJob(b, k)
  <2>1. stopping
    BY <1>t, <1>5, <1>6, <1>7, <1>8 DEF ReadJob, Move, Starting, Table!State
  <2> QED BY <1>6, <1>8, <2>1 DEF ReadJob, Abandons
<1>9. CASE MarkRunning(b, k)
  <2>1. CASE ctx[b][k] # "live"
    BY <1>6, <1>9, <2>1 DEF MarkRunning, Abandons
  <2>2. CASE ctx[b][k] = "live"
    <3>1. Table!UpdateOutcome(g, "running") = "ok"
      BY <1>7 DEF Table!OneActivePerTorrent, Table!UpdateOutcome, Table!Exists, Table!State,
                  Table!ActiveTwin, Table!Owned, Table!Active
    <3>2. Table!UpdateJob(g, "running")
      BY <1>6, <1>9, <2>2, <3>1 DEF MarkRunning
    <3>3. jobs[g] \in Table!Job
      BY <1>t, <1>7 DEF Table!NoJob
    <3> QED BY <1>1, <1>t, <3>2, <3>3 DEF Table!UpdateJob, Table!Job
  <2> QED BY <2>1, <2>2
<1>10. CASE Register(b, k)
  BY <1>t, <1>5, <1>6, <1>10 DEF Register, Move, Starting
<1>11. CASE Expire(b, k)
  BY <1>5, <1>11 DEF Expire
<1>12. CASE \/ BeginPrepare(b, k) \/ EndPrepare(b, k) \/ Resolve(b, k) \/ FinishScan(b, k)
            \/ Finish(b, k) \/ Cleanup(b, k) \/ EndRun(b, k)
  BY <1>5, <1>6, <1>12
     DEF BeginPrepare, EndPrepare, Resolve, FinishScan, Finish, Cleanup, EndRun, Starting
<1> QED
  BY <1>8, <1>9, <1>10, <1>11, <1>12 DEF RunStep

\* A restart queues every row it has to.
LEMMA RestartStrandsNone ==
  ASSUME Restart, NEW g \in Gid
  PROVE  ~Stranded(g)'
<1>1. jobs'[g].state = "queued" /\ jobs'[g].source \in Resumed => g \in queued'
  BY DEF Restart
<1> QED BY <1>1 DEF Stranded, CaredFor, Table!State

LEMMA StrandedStep ==
  ASSUME TypeOK, Exact, Table!OneActivePerTorrent, LifeStep, NEW g \in Gid, Stranded(g)'
  PROVE  Stranded(g) \/ Abandons(g)
<1> USE DEF managerVars, runVars, envVars
<1>1. CASE \E c \in Client : NewRequest(c) \/ RequestStep(c)
  BY <1>1, StrandedByRequest
<1>2. CASE \E b \in Batch, k \in Gid : RunStep(b, k) \/ Expire(b, k)
  BY <1>2, StrandedByRun
<1>3. ASSUME NEW b \in Batch, WorkerDispatch(b) PROVE Stranded(g)
  <2>1. g \in held => pc'[b][g] \in Starting
    BY <1>3 DEF WorkerDispatch, TypeOK, Starting
  <2>2. \A x \in Batch : pc[x][g] \in Starting => pc'[x][g] \in Starting
    BY <1>3 DEF WorkerDispatch, Free, TypeOK, Starting
  <2>3. CaredFor(g) => CaredFor(g)'
    BY <1>3, <2>1, <2>2 DEF WorkerDispatch, CaredFor, Starting
  <2> QED BY <1>3, <2>3 DEF WorkerDispatch, Stranded, Table!State
<1>4. CASE WorkerReceive \/ BecomeAvailable \/ Shutdown
  BY <1>4 DEF WorkerReceive, BecomeAvailable, Shutdown, Stranded, CaredFor, Table!State
<1> QED BY <1>1, <1>2, <1>3, <1>4 DEF LifeStep

\* A queued row of a resumed source is left to nobody in four situations only,
\* and never by a restart (StrandedOnlyThen).
THEOREM StrandsOnlyThen == Spec => StrandedOnlyThen
<1>1. TypeOK /\ Exact /\ Table!OneActivePerTorrent /\ [Next]_vars
        => [StrandsByAbandoning]_vars
  <2> SUFFICES ASSUME TypeOK, Exact, Table!OneActivePerTorrent, Next, NEW g \in Gid
               PROVE  /\ Stranded(g)' => Stranded(g) \/ Abandons(g)
                      /\ Restart => ~Stranded(g)'
    BY DEF StrandsByAbandoning
  <2>1. Restart => ~Stranded(g)'
    BY RestartStrandsNone
  <2>2. LifeStep /\ Stranded(g)' => Stranded(g) \/ Abandons(g)
    BY StrandedStep
  <2> QED BY <2>1, <2>2 DEF Next
<1>2. QueuedMapExact => Exact
  BY ExactIsExact
<1> QED
  BY <1>1, <1>2, TypeCorrect, QueuedMapAlwaysExact, OneActivePerTorrent, PTL DEF Spec,
                                                                                 StrandedOnlyThen

----------------------------------------------------------------------------
(* NothingStartsAfterStop: a run that has registered while the manager was  *)
(* stopping has a context that is done, and keeps it.                       *)

StoppedRuns ==
  stopping => \A b \in Batch, g \in Gid :
                pc[b][g] \notin {"idle", "read", "ready"} => ctx[b][g] # "live"

LEMMA StoppedStep == TypeOK /\ StoppedRuns /\ [Next]_vars => StoppedRuns'
<1> SUFFICES ASSUME TypeOK, StoppedRuns, [Next]_vars, stopping',
                    NEW b \in Batch, NEW g \in Gid, pc'[b][g] \notin {"idle", "read", "ready"}
             PROVE  ctx'[b][g] # "live"
  BY DEF StoppedRuns
<1> USE DEF managerVars, runVars, envVars
<1>t. /\ pc \in [Batch -> [Gid -> RunPc]]
      /\ ctx \in [Batch -> [Gid -> {"live", "canceled", "expired"}]]
  BY DEF TypeOK
<1>0. ASSUME stopping, pc'[b][g] = pc[b][g], ctx[b][g] # "live" => ctx'[b][g] # "live"
      PROVE  ctx'[b][g] # "live"
  BY <1>0 DEF StoppedRuns
<1>1. ASSUME NEW c \in Client, NewRequest(c) \/ RequestStep(c) PROVE ctx'[b][g] # "live"
  <2>1. UNCHANGED <<pc, stopping>>
    BY <1>1 DEF NewRequest, Submit, Cancel, Delete, RequestStep, AddStep, CancelStep, Disconnect,
           LookupJob, PickGid, CheckQuota, CreateRow, MarkQueued, SendBatch,
           DeleteRead, CancelRead, CancelRow, StopRun, DeleteRow, DeleteAny
  <2>2. StopRun(c) \/ UNCHANGED ctx
    BY <1>1 DEF NewRequest, Submit, Cancel, Delete, RequestStep, AddStep, CancelStep, Disconnect,
           LookupJob, PickGid, CheckQuota, CreateRow, MarkQueued, SendBatch,
           DeleteRead, CancelRead, CancelRow, DeleteRow, DeleteAny
  <2>3. ctx[b][g] # "live" => ctx'[b][g] # "live"
    BY <2>2 DEF StopRun
  <2> QED BY <1>0, <2>1, <2>3
<1>2. ASSUME NEW x \in Batch, WorkerDispatch(x) PROVE ctx'[b][g] # "live"
  <2>1. x # b
    BY <1>2, <1>t DEF WorkerDispatch
  <2>2. pc'[b][g] = pc[b][g] /\ UNCHANGED <<ctx, stopping>>
    BY <1>2, <1>t, <2>1 DEF WorkerDispatch
  <2> QED BY <1>0, <2>2
<1>3. ASSUME NEW x \in Batch, NEW k \in Gid, RunStep(x, k) \/ Expire(x, k)
      PROVE  ctx'[b][g] # "live"
  <2>0. UNCHANGED stopping
    BY <1>3 DEF RunStep, Expire, ReadJob, Register, MarkRunning, BeginPrepare, EndPrepare,
                Resolve, FinishScan, Finish, Cleanup, EndRun
  <2>1. CASE x # b \/ k # g
    <3>1. UNCHANGED pc \/ \E p \in RunPc : Move(x, k, p)
      BY <1>3 DEF RunStep, Expire, ReadJob, Register, MarkRunning, BeginPrepare, EndPrepare,
             Resolve, FinishScan, Finish, Cleanup, EndRun, Leave, RunPc
    <3>2. UNCHANGED ctx \/ \E v : ctx' = [ctx EXCEPT ![x][k] = v]
      BY <1>3 DEF RunStep, ReadJob, Register, MarkRunning, Expire, BeginPrepare, EndPrepare,
             Resolve, FinishScan, Finish, Cleanup, EndRun, Leave
    <3>3. pc'[b][g] = pc[b][g] /\ ctx'[b][g] = ctx[b][g]
      BY <1>t, <2>1, <3>1, <3>2 DEF Move
    <3> QED BY <1>0, <2>0, <3>3
  <2>2. CASE x = b /\ k = g
    <3>1. CASE Register(b, g)
      BY <1>t, <2>0, <3>1 DEF Register
    <3>2. CASE ReadJob(b, g) \/ EndRun(b, g)
      <4>1. \E p \in {"idle", "ready"} : Move(b, g, p)
        BY <3>2 DEF ReadJob, EndRun, Leave
      <4>2. pc'[b][g] \in {"idle", "ready"}
        BY <1>t, <4>1 DEF Move
      <4> QED BY <4>2
    <3>3. CASE \/ MarkRunning(b, g) \/ BeginPrepare(b, g) \/ EndPrepare(b, g) \/ Resolve(b, g)
               \/ FinishScan(b, g) \/ Finish(b, g) \/ Cleanup(b, g) \/ Expire(b, g)
      <4>1. pc[b][g] \notin {"idle", "read", "ready"}
        BY <3>3 DEF MarkRunning, BeginPrepare, EndPrepare, Resolve, FinishScan, Finish, Cleanup,
                    Expire, Working
      <4>2. ctx[b][g] # "live"
        BY <2>0, <4>1 DEF StoppedRuns
      <4>3. UNCHANGED ctx
        BY <3>3, <4>2 DEF MarkRunning, BeginPrepare, EndPrepare, Resolve, FinishScan, Finish,
                          Cleanup, Expire
      <4> QED BY <4>2, <4>3
    <3> QED BY <1>3, <2>2, <3>1, <3>2, <3>3 DEF RunStep
  <2> QED BY <2>1, <2>2
<1>4. CASE Shutdown
  BY <1>4, <1>t DEF Shutdown
<1>5. CASE Restart
  BY <1>5 DEF Restart, Fresh
<1>6. CASE WorkerReceive \/ BecomeAvailable \/ UNCHANGED vars
  BY <1>0, <1>6 DEF WorkerReceive, BecomeAvailable, vars
<1> QED
  BY <1>1, <1>2, <1>3, <1>4, <1>5, <1>6 DEF Next, LifeStep

\* A manager that has been told to stop starts no job and stores no scan, until it
\* is gone (NothingStartsAfterStop).
THEOREM StopStartsNothing == Spec => NothingStartsAfterStop
<1>1. Init => StoppedRuns
  BY DEF Init, StoppedRuns
<1>2. TypeOK /\ StoppedRuns /\ [Next]_vars => StoppedRuns'
  BY StoppedStep
<1>3. TypeOK /\ StoppedRuns /\ [Next]_vars
        => [StartsNothing]_vars
  <2> SUFFICES ASSUME TypeOK, StoppedRuns, Next, stopping, stopping'
               PROVE  /\ \A g \in Gid : jobs'[g].state = "running" => jobs[g].state = "running"
                      /\ \A b \in Batch, g \in Gid : pc'[b][g] \in StoredPc => pc[b][g] \in StoredPc
    BY DEF StartsNothing, Stored, StoredPc, Table!State
  <2> USE DEF managerVars, runVars, envVars, StoredPc
  <2>t. /\ jobs \in [Gid -> Table!Job \cup {Table!NoJob}]
        /\ pc \in [Batch -> [Gid -> RunPc]]
    BY DEF TypeOK, Table!TypeOK
  <2>1. CASE \E c \in Client : NewRequest(c) \/ RequestStep(c)
    <3>1. PICK c \in Client : NewRequest(c) \/ RequestStep(c)
      BY <2>1
    <3>2. UNCHANGED pc
      BY <3>1 DEF NewRequest, Submit, Cancel, Delete, RequestStep, AddStep, CancelStep, Disconnect,
             LookupJob, PickGid, CheckQuota, CreateRow, MarkQueued, SendBatch,
             DeleteRead, CancelRead, CancelRow, StopRun, DeleteRow, DeleteAny
    <3>3. \A g \in Gid : jobs'[g].state = "running" => jobs[g].state = "running"
      BY <3>1, RowOfRequest
    <3> QED BY <3>2, <3>3
  <2>2. ASSUME NEW b \in Batch, NEW g \in Gid, RunStep(b, g) \/ Expire(b, g)
        PROVE  /\ \A k \in Gid : jobs'[k].state = "running" => jobs[k].state = "running"
               /\ \A x \in Batch, k \in Gid : pc'[x][k] \in StoredPc => pc[x][k] \in StoredPc
    <3>1. pc[b][g] \in {"registered", "resolve"} => ctx[b][g] # "live"
      BY DEF StoppedRuns
    <3>2. \A x \in Batch, k \in Gid : pc'[x][k] \in StoredPc => pc[x][k] \in StoredPc
      <4>1. \/ UNCHANGED pc
            \/ \E p \in RunPc : Move(b, g, p) /\ (p \in StoredPc => pc[b][g] \in StoredPc)
        BY <2>2, <3>1 DEF RunStep, Expire, ReadJob, Register, MarkRunning, BeginPrepare, EndPrepare,
               Resolve, FinishScan, Finish, Cleanup, EndRun, Leave, RunPc
      <4> QED BY <2>t, <4>1 DEF Move
    <3>3. UNCHANGED jobs \/ \E st \in {"succeeded", "failed"} : Table!UpdateJob(g, st)
      BY <2>2, <3>1 DEF RunStep, Expire, ReadJob, Register, MarkRunning, BeginPrepare, EndPrepare,
             Resolve, FinishScan, Finish, Cleanup, EndRun
    <3>4. ASSUME NEW st \in {"succeeded", "failed"}, Table!UpdateJob(g, st), NEW k \in Gid,
                 jobs'[k].state = "running"
          PROVE  jobs[k].state = "running"
      <4>1. jobs[g] \in Table!Job /\ jobs' = [jobs EXCEPT ![g].state = st]
        BY <2>t, <3>4 DEF Table!UpdateJob, Table!UpdateOutcome, Table!Exists, Table!NoJob
      <4>2. jobs'[g].state = st
        BY <2>t, <4>1 DEF Table!Job
      <4> QED BY <2>t, <3>4, <4>1, <4>2
    <3> QED BY <3>2, <3>3, <3>4
  <2>3. ASSUME NEW b \in Batch, WorkerDispatch(b)
        PROVE  UNCHANGED jobs /\ \A x \in Batch, k \in Gid : pc'[x][k] \in StoredPc => pc[x][k] \in StoredPc
    BY <2>3, <2>t DEF WorkerDispatch
  <2>4. CASE Restart
    BY <2>4 DEF Restart, Fresh
  <2>5. CASE WorkerReceive \/ BecomeAvailable \/ Shutdown
    BY <2>5 DEF WorkerReceive, BecomeAvailable, Shutdown
  <2> QED
    BY <2>1, <2>2, <2>3, <2>4, <2>5 DEF Next, LifeStep
<1> QED
  BY <1>1, <1>2, <1>3, TypeCorrect, PTL DEF Spec, NothingStartsAfterStop
=============================================================================
