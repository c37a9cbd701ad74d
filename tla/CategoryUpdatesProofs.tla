------------------------ MODULE CategoryUpdatesProofs ------------------------
(***************************************************************************)
(* Writing back a row that was read earlier is one more UpdateJob for the  *)
(* tasks table, so what the table promises still holds.                    *)
(***************************************************************************)
EXTENDS CategoryUpdates, TaskManagerProofs

USE DEF Gid

LEMMA WriteRefines ==
  ASSUME EditTypeOK, NEW e \in Editor, WriteCategory(e)
  PROVE  [Table!Next]_jobs
<1>1. edit[e].gid \in Gid /\ edit[e].state \in Table!JobState
  BY DEF EditTypeOK, WriteCategory
<1>2. Table!UpdateJob(edit[e].gid, edit[e].state) \/ UNCHANGED jobs
  BY DEF WriteCategory
<1> QED
  BY <1>1, <1>2 DEF Table!Next

LEMMA EditRefinesStep == TypeOK /\ EditTypeOK /\ [EditNext]_editVars => [Table!Next]_jobs
<1> SUFFICES ASSUME TypeOK, EditTypeOK, [EditNext]_editVars PROVE [Table!Next]_jobs
  OBVIOUS
<1>1. CASE RestartAll \/ (LifeStep /\ UNCHANGED edit)
  BY <1>1, RefinesStep DEF RestartAll, Next
<1>2. ASSUME NEW e \in Editor, WriteCategory(e) PROVE [Table!Next]_jobs
  BY <1>2, WriteRefines
<1>3. CASE UNCHANGED vars
  BY <1>3 DEF vars
<1> QED
  BY <1>1, <1>2, <1>3
     DEF EditNext, ReadForCategory, FindForCategory, DropEdit, editVars

LEMMA EditTypeStep == TypeOK /\ EditTypeOK /\ [EditNext]_editVars => TypeOK' /\ EditTypeOK'
<1> SUFFICES ASSUME TypeOK, EditTypeOK, [EditNext]_editVars PROVE TypeOK' /\ EditTypeOK'
  OBVIOUS
<1>0. jobs \in [Gid -> Table!Job \cup {Table!NoJob}]
  BY DEF TypeOK, Table!TypeOK
<1>r. ASSUME NEW g \in Gid, Table!Exists(g)
      PROVE  [gid |-> g, state |-> Table!State(g)] \in [gid : Gid, state : Table!JobState]
  BY <1>0, <1>r DEF Table!Exists, Table!State, Table!Job, Table!NoJob
<1>1. CASE RestartAll \/ (LifeStep /\ UNCHANGED edit)
  <2>1. TypeOK'
    BY <1>1, TypeStep DEF RestartAll, Next
  <2> QED BY <1>1, <2>1 DEF RestartAll, EditTypeOK
<1>2. ASSUME NEW e \in Editor, NEW g \in Gid, ReadForCategory(e, g) PROVE TypeOK' /\ EditTypeOK'
  <2>1. TypeOK'
    BY <1>2, TypeStep DEF ReadForCategory
  <2> QED BY <1>2, <1>r, <2>1 DEF ReadForCategory, EditTypeOK
<1>3. ASSUME NEW e \in Editor, NEW s \in CategorySource, NEW h \in Hash, FindForCategory(e, s, h)
      PROVE  TypeOK' /\ EditTypeOK'
  <2>1. TypeOK'
    BY <1>3, TypeStep DEF FindForCategory
  <2>2. PICK g \in Table!LatestJob(s, h) :
          edit' = [edit EXCEPT ![e] = [gid |-> g, state |-> Table!State(g)]]
    BY <1>3 DEF FindForCategory
  <2>3. g \in Gid /\ Table!Exists(g)
    BY DEF Table!LatestJob, Table!Owned
  <2>4. [gid |-> g, state |-> Table!State(g)] \in [gid : Gid, state : Table!JobState]
    BY <1>r, <2>3
  <2> QED BY <2>1, <2>2, <2>4 DEF EditTypeOK
<1>4. ASSUME NEW e \in Editor, WriteCategory(e) PROVE TypeOK' /\ EditTypeOK'
  <2>1. Table!TypeOK'
    <3>1. MaxDraw \in Nat /\ MaxId \in Nat
      BY ManagerAssumption
    <3>2. T!TypeOK /\ [T!Next]_jobs
      BY <1>4, WriteRefines, SameTable DEF TypeOK
    <3> QED BY <3>1, <3>2, T!TypeStep, SameTable
  <2>2. UNCHANGED <<managerVars, runVars, req, envVars>>
    BY <1>4 DEF WriteCategory
  <2>3. TypeOK'
    BY <2>1, <2>2 DEF TypeOK, managerVars, runVars, envVars
  <2> QED BY <1>4, <2>3 DEF WriteCategory, EditTypeOK
<1>5. ASSUME NEW e \in Editor, DropEdit(e) PROVE TypeOK' /\ EditTypeOK'
  <2>1. TypeOK'
    BY <1>5, TypeStep DEF DropEdit
  <2> QED BY <1>5, <2>1 DEF DropEdit, EditTypeOK
<1>6. CASE UNCHANGED editVars
  <2>1. TypeOK'
    BY <1>6, TypeStep DEF editVars
  <2> QED BY <1>6, <2>1 DEF editVars, EditTypeOK
<1> QED
  BY <1>1, <1>2, <1>3, <1>4, <1>5, <1>6 DEF EditNext

LEMMA EditTypes == EditSpec => [](TypeOK /\ EditTypeOK)
<1>1. EditInit => TypeOK /\ EditTypeOK
  BY TypeInit DEF EditInit, EditTypeOK
<1>2. TypeOK /\ EditTypeOK /\ [EditNext]_editVars => TypeOK' /\ EditTypeOK'
  BY EditTypeStep
<1> QED
  BY <1>1, <1>2, PTL DEF EditSpec

\* What category requests hold is always a state they may write (EditTypeOK).
THEOREM EditTypesCorrect == EditSpec => []EditTypeOK
BY EditTypes, PTL

\* With stale category writes the manager still implements the tasks table.
THEOREM EditsImplementTable == EditSpec => Table!Spec
<1>1. EditInit => Table!Init
  BY DEF EditInit, Init
<1>2. TypeOK /\ EditTypeOK /\ [EditNext]_editVars => [Table!Next]_jobs
  BY EditRefinesStep
<1> QED
  BY <1>1, <1>2, EditTypes, PTL DEF EditSpec, Table!Spec

\* A stale category write never gives a torrent a second active row
\* (OneActiveDespiteEdits).
THEOREM OneActiveWithEdits == EditSpec => []OneActiveDespiteEdits
<1>1. MaxDraw \in Nat /\ MaxId \in Nat
  BY ManagerAssumption
<1>2. T!Spec => []T!OneActivePerTorrent
  BY T!TableOneActive, <1>1
<1>3. /\ Table!Init => T!Init
      /\ [Table!Next]_jobs => [T!Next]_jobs
      /\ T!OneActivePerTorrent => OneActiveDespiteEdits
  BY SameTable DEF OneActiveDespiteEdits
<1> QED
  BY <1>2, <1>3, EditsImplementTable, PTL DEF Table!Spec, T!Spec

\* A stale category write never brings a canceled row back
\* (CanceledDespiteEdits).
THEOREM CanceledWithEdits == EditSpec => CanceledDespiteEdits
<1>1. TypeOK /\ EditTypeOK /\ [EditNext]_editVars
        => [\A g \in Gid : Table!State(g) = "canceled" => jobs'[g].state \in {"canceled", "none"}]_editVars
  <2> SUFFICES ASSUME TypeOK, EditTypeOK, [EditNext]_editVars, NEW g \in Gid,
                      Table!State(g) = "canceled"
               PROVE  jobs'[g].state \in {"canceled", "none"}
    OBVIOUS
  <2>1. MaxDraw \in Nat /\ MaxId \in Nat
    BY ManagerAssumption
  <2>2. T!TypeOK /\ [T!Next]_jobs
    BY EditRefinesStep, SameTable DEF TypeOK
  <2>3. T!State(g) = "canceled" /\ g \in T!Gid
    BY SameTable DEF T!State, Table!State
  <2>4. T!State(g)' \in {"canceled", "none"}
    BY T!CanceledStep, <2>1, <2>2, <2>3
  <2> QED
    BY <2>4 DEF T!State
<1> QED
  BY <1>1, EditTypes, PTL DEF EditSpec, CanceledDespiteEdits
----------------------------------------------------------------------------
\* An edit changes no mark and no request, so the marks stay exact.
LEMMA EditExactStep == TypeOK /\ Exact /\ [EditNext]_editVars => Exact'
<1> SUFFICES ASSUME TypeOK, Exact, [EditNext]_editVars PROVE Exact'
  OBVIOUS
<1>1. CASE [Next]_vars
  BY <1>1, ExactStep
<1>2. ASSUME NEW e \in Editor, WriteCategory(e) PROVE Exact'
  <2>1. UNCHANGED <<queue, queued, held, req>>
    BY <1>2 DEF WriteCategory, managerVars
  <2>2. \A c \in Client : Sending(c)' = Sending(c)
    BY <2>1 DEF Sending, At
  <2> QED BY <2>1, <2>2, ExactStutter
<1> QED
  BY <1>1, <1>2 DEF EditNext, Next, RestartAll, ReadForCategory, FindForCategory, DropEdit, editVars

LEMMA EditsKeepExact == EditSpec => []Exact
<1>1. EditInit => Exact
  BY DEF EditInit, Init, Exact, Apart, OnTheWay, Sending, At, NoRequest, About
<1>2. TypeOK /\ EditTypeOK /\ Exact /\ [EditNext]_editVars => Exact'
  BY EditExactStep
<1> QED
  BY <1>1, <1>2, EditTypes, PTL DEF EditSpec

\* The write leaves every other row alone, and the rest of the manager.
LEMMA WriteLoses ==
  ASSUME TypeOK, EditTypeOK, NEW e \in Editor, WriteCategory(e), NEW g \in Gid
  PROVE  /\ Stranded(g)' => Stranded(g) \/ WritesBack(g, "queued")
         /\ Orphaned(g)' => Orphaned(g) \/ WritesBack(g, "running")
<1>1. UNCHANGED <<queued, pc, req>>
  BY DEF WriteCategory, managerVars, runVars
<1>2. edit[e].gid \in Gid /\ edit[e] = [gid |-> edit[e].gid, state |-> edit[e].state]
  BY DEF EditTypeOK, WriteCategory, NoEdit
<1>3. edit'[e] = NoEdit
  BY DEF WriteCategory, EditTypeOK
<1>4. CASE jobs'[g] = jobs[g]
  BY <1>1, <1>4 DEF Stranded, CaredFor, Orphaned, Table!State
<1>5. CASE jobs'[g] # jobs[g]
  <2>1. Table!UpdateJob(edit[e].gid, edit[e].state)
    BY <1>5 DEF WriteCategory
  <2>2. jobs \in [Gid -> Table!Job \cup {Table!NoJob}]
    BY DEF TypeOK, Table!TypeOK
  <2>3. g = edit[e].gid /\ jobs[g] \in Table!Job
    BY <1>2, <1>5, <2>1, <2>2
       DEF Table!UpdateJob, Table!UpdateOutcome, Table!Exists, Table!NoJob
  <2>4. jobs'[g] = [jobs[g] EXCEPT !.state = edit[e].state]
    BY <2>1, <2>2, <2>3 DEF Table!UpdateJob
  <2>5. jobs'[g].state = edit[e].state /\ jobs[g].state # edit[e].state
    BY <1>5, <2>3, <2>4 DEF Table!Job
  <2>6. ASSUME NEW st, edit[e].state = st PROVE WritesBack(g, st)
    BY <1>2, <1>3, <2>3, <2>5, <2>6 DEF WritesBack, Table!State
  <2> QED BY <2>5, <2>6 DEF Stranded, Orphaned, Table!State
<1> QED BY <1>4, <1>5

\* Besides the four situations of the manager, only writing back a state that
\* a row has left loses the row, until the next restart
\* (LostByStaleWritesOnly).
THEOREM StaleWritesLoseRows == EditSpec => LostByStaleWritesOnly
<1>1. TypeOK /\ EditTypeOK /\ Exact /\ OneActiveDespiteEdits /\ [EditNext]_editVars
        => [LostByWritingBack]_editVars
  <2> SUFFICES ASSUME TypeOK, EditTypeOK, Exact, Table!OneActivePerTorrent, EditNext, NEW g \in Gid
               PROVE  /\ Stranded(g)' => Stranded(g) \/ Abandons(g) \/ WritesBack(g, "queued")
                      /\ Orphaned(g)' => Orphaned(g) \/ WritesBack(g, "running")
                      /\ Restart => ~Stranded(g)' /\ ~Orphaned(g)'
    BY DEF LostByWritingBack, OneActiveDespiteEdits
  <2>0. ASSUME Next PROVE Orphaned(g)' => Orphaned(g)
    BY <2>0, BackedStep DEF Orphaned, Backed, Table!State
  <2>1. ASSUME Restart PROVE ~Stranded(g)' /\ ~Orphaned(g)'
    <3>1. jobs' = Table!Recovered(Resumed)
      BY <2>1 DEF Restart, Table!RecoverRunningJobs
    <3>2. ASSUME jobs'[g].state = "running", jobs'[g].source \in Resumed PROVE FALSE
      <4>1. CASE jobs[g].state = "running" /\ jobs[g].source \in Resumed
        <5>1. jobs[g] \in Table!Job
          BY <4>1 DEF TypeOK, Table!TypeOK, Table!NoJob
        <5> QED BY <3>1, <3>2, <4>1, <5>1 DEF Table!Recovered, Table!State, Table!Job
      <4>2. CASE ~(jobs[g].state = "running" /\ jobs[g].source \in Resumed)
        BY <3>1, <3>2, <4>2 DEF Table!Recovered, Table!State
      <4> QED BY <4>1, <4>2
    <3> QED BY <2>1, <3>2, RestartStrandsNone DEF Orphaned, Table!State
  <2>2. CASE LifeStep
    BY <2>0, <2>1, <2>2, StrandedStep DEF Next
  <2>3. ASSUME NEW e \in Editor, WriteCategory(e)
        PROVE  /\ Stranded(g)' => Stranded(g) \/ WritesBack(g, "queued")
               /\ Orphaned(g)' => Orphaned(g) \/ WritesBack(g, "running")
    BY <2>3, WriteLoses
  <2>4. CASE UNCHANGED vars
    BY <2>1, <2>4 DEF vars, Stranded, CaredFor, Orphaned, Table!State
  <2> QED
    BY <2>1, <2>2, <2>3, <2>4
       DEF EditNext, RestartAll, ReadForCategory, FindForCategory, DropEdit
<1> QED
  BY <1>1, EditTypes, EditsKeepExact, OneActiveWithEdits, PTL DEF EditSpec, LostByStaleWritesOnly
=============================================================================
