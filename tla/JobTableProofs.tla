--------------------------- MODULE JobTableProofs ---------------------------
(***************************************************************************)
(* Proofs about JobTable, for any torrents, sources and bounds.            *)
(***************************************************************************)
EXTENDS JobTable, TLAPS

\* The empty table is well-formed and every statement keeps it so.
LEMMA TypeInit == Init => TypeOK
  BY DEF Init, TypeOK

LEMMA TypeStep == TypeOK /\ [Next]_jobs => TypeOK'
<1> SUFFICES ASSUME TypeOK, [Next]_jobs PROVE TypeOK'
  OBVIOUS
<1> USE DEF TypeOK, Exists, State
<1>1. ASSUME NEW g \in Gid, NEW s \in Source, CreateJob(g, s) PROVE TypeOK'
  BY <1>1 DEF CreateJob, Job, JobState
<1>2. ASSUME NEW g \in Gid, NEW st \in JobState, UpdateJob(g, st) PROVE TypeOK'
  <2>1. jobs[g] \in Job
    BY <1>2 DEF UpdateJob, UpdateOutcome, NoJob
  <2> QED
    BY <1>2, <2>1 DEF UpdateJob, Job
<1>3. ASSUME NEW g \in Gid, CancelJob(g) PROVE TypeOK'
  <2>1. jobs[g] \in Job
    BY <1>3 DEF CancelJob, Cancelable, NoJob
  <2> QED
    BY <1>3, <2>1 DEF CancelJob, Job, JobState
<1>4. ASSUME NEW g \in Gid, DeleteJob(g) PROVE TypeOK'
  BY <1>4 DEF DeleteJob
<1>5. ASSUME NEW g \in Gid, DeleteJobAny(g) PROVE TypeOK'
  BY <1>5 DEF DeleteJobAny
<1>6. ASSUME NEW S \in SUBSET Source, RecoverRunningJobs(S) PROVE TypeOK'
  <2>1. ASSUME NEW g \in Gid PROVE Recovered(S)[g] \in Job \cup {NoJob}
    <3>1. CASE State(g) = "running" /\ jobs[g].source \in S
      <4>1. jobs[g] \in Job
        BY <3>1 DEF NoJob
      <4> QED
        BY <3>1, <4>1 DEF Recovered, Job, JobState
    <3>2. CASE ~(State(g) = "running" /\ jobs[g].source \in S)
      BY <3>2 DEF Recovered
    <3> QED BY <3>1, <3>2
  <2> QED
    BY <1>6, <2>1 DEF RecoverRunningJobs, Recovered
<1>7. CASE UNCHANGED jobs
  BY <1>7
<1> QED
  BY <1>1, <1>2, <1>3, <1>4, <1>5, <1>6, <1>7 DEF Next

\* The tasks table never holds a malformed row (TypeOK).
THEOREM TableTypeCorrect == Spec => []TypeOK
<1>1. TypeOK /\ [Next]_jobs => TypeOK'
  BY TypeStep
<1> QED
  BY TypeInit, <1>1, PTL DEF Spec
----------------------------------------------------------------------------
\* OneActivePerTorrent is inductive on its own: creating a row and making one
\* active again are the steps that could break it, and both look for a twin.
LEMMA OneActiveStep ==
  TypeOK /\ OneActivePerTorrent /\ [Next]_jobs => OneActivePerTorrent'
<1> SUFFICES ASSUME TypeOK, OneActivePerTorrent, [Next]_jobs,
                    NEW g \in Gid, NEW k \in Gid,
                    Exists(g)', Exists(k)', State(g)' \in Active, State(k)' \in Active,
                    InfoHash(g) = InfoHash(k), jobs'[g].source = jobs'[k].source
             PROVE  g = k
  BY DEF OneActivePerTorrent
<1> USE DEF TypeOK, Exists, State
\* A row that has not become active, and was not created, was active before.
<1>0. ASSUME jobs[g].state \in Active, jobs[k].state \in Active,
             jobs[g].source = jobs[k].source
      PROVE  g = k
  BY <1>0 DEF OneActivePerTorrent, Active
<1>1. ASSUME NEW x \in Gid, NEW s \in Source, CreateJob(x, s) PROVE g = k
  <2>1. ~ActiveTwin(x, s) /\ jobs'[x].source = s /\ \A y \in Gid \ {x} : jobs'[y] = jobs[y]
    BY <1>1 DEF CreateJob, CreateRefused
  <2> QED
    BY <2>1, <1>0 DEF ActiveTwin, Owned, Active
<1>2. ASSUME NEW x \in Gid, NEW st \in JobState, UpdateJob(x, st) PROVE g = k
  <2>1. /\ Exists(x)
        /\ jobs'[x] = [jobs[x] EXCEPT !.state = st]
        /\ \A y \in Gid \ {x} : jobs'[y] = jobs[y]
        /\ st \in Active => ~ActiveTwin(x, jobs[x].source)
    BY <1>2 DEF UpdateJob, UpdateOutcome
  <2>2. jobs[x] \in Job
    BY <2>1 DEF NoJob
  <2>3. jobs'[x].state = st /\ jobs'[x].source = jobs[x].source
    BY <2>1, <2>2 DEF Job
  <2>4. CASE g = x /\ k # x
    BY <2>1, <2>3, <2>4 DEF ActiveTwin, Owned
  <2>5. CASE k = x /\ g # x
    BY <2>1, <2>3, <2>5 DEF ActiveTwin, Owned
  <2>6. CASE g # x /\ k # x
    <3>1. jobs'[g] = jobs[g] /\ jobs'[k] = jobs[k]
      BY <2>1, <2>6
    <3> QED
      BY <3>1, <1>0
  <2> QED
    BY <2>4, <2>5, <2>6
<1>3. ASSUME NEW x \in Gid, CancelJob(x) PROVE g = k
  <2>1. jobs[x] \in Job
    BY <1>3 DEF CancelJob, Cancelable, NoJob
  <2>2. jobs'[x].state = "canceled" /\ \A y \in Gid \ {x} : jobs'[y] = jobs[y]
    BY <1>3, <2>1 DEF CancelJob, Job
  <2> QED
    BY <2>2, <1>0 DEF Active
<1>4. ASSUME NEW x \in Gid, DeleteJob(x) \/ DeleteJobAny(x) PROVE g = k
  <2>1. jobs'[x].state = "none" /\ \A y \in Gid \ {x} : jobs'[y] = jobs[y]
    BY <1>4 DEF DeleteJob, DeleteJobAny, NoJob
  <2> QED
    BY <2>1, <1>0 DEF Active
<1>5. ASSUME NEW S \in SUBSET Source, RecoverRunningJobs(S) PROVE g = k
  <2>1. ASSUME NEW y \in Gid, jobs'[y].state \in Active
        PROVE  jobs[y].state \in Active /\ jobs'[y].source = jobs[y].source
    <3>1. CASE State(y) = "running" /\ jobs[y].source \in S
      <4>1. jobs[y] \in Job
        BY <3>1 DEF NoJob
      <4> QED
        BY <1>5, <3>1, <4>1 DEF RecoverRunningJobs, Recovered, Job, Active
    <3>2. CASE ~(State(y) = "running" /\ jobs[y].source \in S)
      BY <1>5, <3>2, <2>1 DEF RecoverRunningJobs, Recovered
    <3> QED BY <3>1, <3>2
  <2> QED
    BY <2>1, <1>0
<1>6. CASE UNCHANGED jobs
  BY <1>6, <1>0
<1> QED
  BY <1>1, <1>2, <1>3, <1>4, <1>5, <1>6 DEF Next

\* A torrent never has two active rows of one source (OneActivePerTorrent).
THEOREM TableOneActive == Spec => []OneActivePerTorrent
<1>1. Init => OneActivePerTorrent
  BY DEF Init, OneActivePerTorrent, Exists, NoJob
<1>2. TypeOK /\ OneActivePerTorrent /\ [Next]_jobs => OneActivePerTorrent'
  BY OneActiveStep
<1> QED
  BY <1>1, <1>2, TableTypeCorrect, PTL DEF Spec

----------------------------------------------------------------------------
\* Only CreateJob writes an id, and it takes one above all the ids in use.
LEMMA IdsStep == TypeOK /\ IdsUnique /\ [Next]_jobs => IdsUnique'
<1> SUFFICES ASSUME TypeOK, IdsUnique, [Next]_jobs,
                    NEW g \in Gid, NEW k \in Gid,
                    Exists(g)', Exists(k)', jobs'[g].id = jobs'[k].id
             PROVE  g = k
  BY DEF IdsUnique
<1> USE DEF TypeOK, Exists, State
<1>0. ASSUME \A y \in {g, k} : jobs[y].state # "none" /\ jobs'[y].id = jobs[y].id
      PROVE  g = k
  BY <1>0 DEF IdsUnique
<1>1. ASSUME NEW x \in Gid, NEW s \in Source, CreateJob(x, s) PROVE g = k
  <2>1. PICK n \in 1..MaxId :
          /\ IsNextId(n)
          /\ jobs' = [jobs EXCEPT ![x] = [id |-> n, source |-> s, state |-> "queued"]]
    BY <1>1 DEF CreateJob
  <2>2. \A y \in Gid \ {x} : jobs'[y] = jobs[y]
    BY <2>1
  <2>3. jobs'[x].id = n
    BY <2>1
  <2>4. ASSUME NEW y \in Gid \ {x}, jobs[y].state # "none" PROVE jobs[y].id # n
    <3>1. jobs[y].id < n
      BY <2>1, <2>4 DEF IsNextId
    <3>2. jobs[y] \in Job
      BY <2>4 DEF NoJob
    <3> QED BY <3>1, <3>2, TableAssumption DEF Job
  <2> QED
    BY <2>2, <2>3, <2>4, <1>0
<1>2. ASSUME NEW x \in Gid, jobs[x].state # "none",
             NEW st, jobs' = [jobs EXCEPT ![x].state = st]
      PROVE g = k
  <2>1. jobs[x] \in Job
    BY <1>2 DEF NoJob
  <2>2. jobs'[x].id = jobs[x].id
    BY <1>2, <2>1 DEF Job
  <2>3. \A y \in Gid \ {x} : jobs'[y] = jobs[y]
    BY <1>2
  <2> QED
    BY <1>2, <2>2, <2>3, <1>0
<1>3. ASSUME NEW x \in Gid, NEW st \in JobState, UpdateJob(x, st) PROVE g = k
  BY <1>3, <1>2 DEF UpdateJob, UpdateOutcome
<1>4. ASSUME NEW x \in Gid, CancelJob(x) PROVE g = k
  BY <1>4, <1>2 DEF CancelJob, Cancelable
<1>5. ASSUME NEW x \in Gid, DeleteJob(x) \/ DeleteJobAny(x) PROVE g = k
  <2>1. jobs'[x].state = "none" /\ \A y \in Gid \ {x} : jobs'[y] = jobs[y]
    BY <1>5 DEF DeleteJob, DeleteJobAny, NoJob
  <2> QED
    BY <2>1, <1>0
<1>6. ASSUME NEW S \in SUBSET Source, RecoverRunningJobs(S) PROVE g = k
  <2>1. ASSUME NEW y \in Gid, jobs'[y].state # "none"
        PROVE  jobs[y].state # "none" /\ jobs'[y].id = jobs[y].id
    <3>1. CASE State(y) = "running" /\ jobs[y].source \in S
      <4>1. jobs[y] \in Job
        BY <3>1 DEF NoJob
      <4> QED
        BY <1>6, <3>1, <4>1 DEF RecoverRunningJobs, Recovered, Job
    <3>2. CASE ~(State(y) = "running" /\ jobs[y].source \in S)
      BY <1>6, <3>2, <2>1 DEF RecoverRunningJobs, Recovered
    <3> QED BY <3>1, <3>2
  <2> QED
    BY <2>1, <1>0
<1>7. CASE UNCHANGED jobs
  BY <1>7, <1>0
<1> QED
  BY <1>1, <1>3, <1>4, <1>5, <1>6, <1>7 DEF Next

\* Ids name one row each (IdsUnique).
THEOREM TableIdsUnique == Spec => []IdsUnique
<1>1. Init => IdsUnique
  BY DEF Init, IdsUnique, Exists, NoJob
<1>2. TypeOK /\ IdsUnique /\ [Next]_jobs => IdsUnique'
  BY IdsStep
<1> QED
  BY <1>1, <1>2, TableTypeCorrect, PTL DEF Spec

----------------------------------------------------------------------------
\* No statement turns a canceled row into anything but a deleted one.
LEMMA CanceledStep ==
  ASSUME TypeOK, [Next]_jobs, NEW g \in Gid, State(g) = "canceled"
  PROVE  State(g)' \in {"canceled", "none"}
<1> USE DEF TypeOK, State
<1>1. ASSUME NEW x \in Gid, NEW s \in Source, CreateJob(x, s) PROVE State(g)' = "canceled"
  BY <1>1 DEF CreateJob, CreateRefused, Exists
<1>2. ASSUME NEW x \in Gid, NEW st \in JobState, UpdateJob(x, st) PROVE State(g)' = "canceled"
  <2>1. CASE x # g
    BY <1>2, <2>1 DEF UpdateJob
  <2>2. CASE x = g
    <3>1. jobs[g] \in Job
      BY DEF NoJob
    <3>2. st = "canceled"
      BY <1>2, <2>2 DEF UpdateJob, UpdateOutcome
    <3> QED BY <1>2, <2>2, <3>1, <3>2 DEF UpdateJob, Job
  <2> QED BY <2>1, <2>2
<1>3. ASSUME NEW x \in Gid, CancelJob(x) PROVE State(g)' = "canceled"
  BY <1>3 DEF CancelJob, Cancelable
<1>4. ASSUME NEW x \in Gid, DeleteJob(x) \/ DeleteJobAny(x)
      PROVE State(g)' \in {"canceled", "none"}
  BY <1>4 DEF DeleteJob, DeleteJobAny, NoJob
<1>5. ASSUME NEW S \in SUBSET Source, RecoverRunningJobs(S) PROVE State(g)' = "canceled"
  BY <1>5 DEF RecoverRunningJobs, Recovered
<1>6. CASE UNCHANGED jobs
  BY <1>6
<1> QED
  BY <1>1, <1>2, <1>3, <1>4, <1>5, <1>6 DEF Next

\* A canceled row is never brought back (CanceledIsFinal).
THEOREM TableCanceledIsFinal == Spec => CanceledIsFinal
<1>1. TypeOK /\ [Next]_jobs
        => [\A g \in Gid : State(g) = "canceled" => State(g)' \in {"canceled", "none"}]_jobs
  BY CanceledStep
<1> QED
  BY <1>1, TableTypeCorrect, PTL DEF Spec, CanceledIsFinal
=============================================================================
