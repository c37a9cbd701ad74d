------------------------- MODULE OfflineTasksProofs -------------------------
(***************************************************************************)
(* Proofs about OfflineTasks: its type invariant, that the poller never    *)
(* sleeps past a deadline and that nobody listens without being            *)
(* registered, for any number of torrents and callers.                     *)
(***************************************************************************)
EXTENDS OfflineTasks, TLAPS

\* The values every variable starts with have their type.
LEMMA Constants ==
  /\ Blank \in Task
  /\ Idle \in Call
  /\ Awake \in Poller
  /\ NoFetch \in Fetch /\ Asking \in Fetch
  /\ NoRecord \in Record
<1>1. Blank \in Task
  BY OfflineAssumption DEF Blank, Task
<1>2. <<>> \in Listing
  <2>1. <<>> = [h \in {} |-> Blank]
    OBVIOUS
  <2>2. <<>> \in [{} -> Task]
    BY <2>1
  <2> QED
    BY <2>2 DEF Listing
<1>3. Idle \in Call
  BY <1>1 DEF Idle, Call, CallPc
<1>4. Awake \in Poller
  BY <1>2, OfflineAssumption DEF Awake, Poller, NoTimer
<1>5. NoFetch \in Fetch /\ Asking \in Fetch
  BY <1>2 DEF NoFetch, Asking, Fetch
<1>6. NoRecord \in Record
  BY <1>1, OfflineAssumption DEF NoRecord, Record
<1> QED
  BY <1>1, <1>3, <1>4, <1>5, <1>6

\* A listing maps torrents to tasks.
LEMMA Listings ==
  /\ \A f \in Listing : DOMAIN f \subseteq Hash /\ \A h \in DOMAIN f : f[h] \in Task
  /\ \A S \in SUBSET Hash : [S -> Task] \subseteq Listing
BY DEF Listing

\* Two listings merge into one.
LEMMA Merging ==
  ASSUME NEW f \in Listing, NEW g \in Listing
  PROVE  Merge(f, g) \in Listing
<1>1. Merge(f, g) \in [DOMAIN f \cup DOMAIN g -> Task]
  BY Listings DEF Merge
<1>2. DOMAIN f \cup DOMAIN g \in SUBSET Hash
  BY Listings
<1> QED
  BY <1>1, <1>2, Listings

\* Tasks and records stay what they are when fields are replaced.
LEMMA Updates ==
  ASSUME NEW t \in Task, NEW r \in Record, NEW n \in 0..MaxWait
  PROVE  /\ \A u \in 0..MaxUpd : [t EXCEPT !.done = TRUE, !.upd = u] \in Task
         /\ [r EXCEPT !.left = n] \in Record /\ [r EXCEPT !.task = t] \in Record
         /\ [r EXCEPT !.task = t, !.left = n] \in Record
         /\ [r EXCEPT !.left = n, !.task = t] \in Record
         /\ \A W \in SUBSET Caller : [r EXCEPT !.waiters = W] \in Record
         /\ \A W \in SUBSET Caller : [r EXCEPT !.task = t, !.waiters = W] \in Record
<1>1. \A u \in 0..MaxUpd : [t EXCEPT !.done = TRUE, !.upd = u] \in Task
  BY DEF Task
<1>2. [r EXCEPT !.left = n] \in Record /\ [r EXCEPT !.task = t] \in Record
  BY DEF Record
<1>3. [r EXCEPT !.task = t, !.left = n] \in Record /\ [r EXCEPT !.left = n, !.task = t] \in Record
  BY DEF Record
<1>4. \A W \in SUBSET Caller : [r EXCEPT !.waiters = W] \in Record
  BY DEF Record
<1>5. \A W \in SUBSET Caller : [r EXCEPT !.task = t, !.waiters = W] \in Record
  BY DEF Record
<1> QED
  BY <1>1, <1>2, <1>3, <1>4, <1>5

----------------------------------------------------------------------------
(* One call changes and the others stay as they are.                       *)

Changes(c) ==
  /\ call' \in [Caller -> Call]
  /\ \A d \in Caller : d # c => call'[d] = call[d]

\* A step of a call changes only that call.
LEMMA CallChanges ==
  ASSUME OfflineTypeOK, NEW c \in Caller,
         CallStep(c) \/ Lookup(c) \/ GiveUp(c)
         \/ \E h \in Hash, op \in Op : Begin(c, h, op)
  PROVE  Changes(c)
<1> USE Constants DEF Changes
<1>0. call \in [Caller -> Call] /\ fetch \in Fetch
  BY DEF OfflineTypeOK
<1>1. \A r \in Call : call' = [call EXCEPT ![c] = r] => Changes(c)
  BY <1>0
<1>2. ASSUME NEW p \in CallPc, Go(c, p) PROVE Changes(c)
  BY <1>0, <1>2 DEF Go, Call
<1>3. ASSUME NEW p \in {"idle", "create", "wait", "listen"}, NEW t \in Task, SignalThen(c, p, t)
      PROVE  Changes(c)
  <2>1. [call[c] EXCEPT !.pc = "signal", !.then = p, !.task = t] \in Call
    BY <1>0 DEF Call, CallPc
  <2>2. call' = [call EXCEPT ![c] = [call[c] EXCEPT !.pc = "signal", !.then = p, !.task = t]]
    BY <1>0, <1>3 DEF SignalThen
  <2> QED
    BY <2>1, <2>2, <1>1
<1>4. CASE Stop(c)
  BY <1>1, <1>4 DEF Stop
<1>5. ASSUME Create(c) PROVE Changes(c)
  <2>1. Stop(c) \/ Go(c, "restart") \/ Go(c, "lookup")
    BY <1>5 DEF Create
  <2> QED
    BY <2>1, <1>2, <1>4 DEF CallPc
<1>6. ASSUME Restart(c) PROVE Changes(c)
  BY <1>6, <1>3 DEF Restart
<1>7. ASSUME Signal(c) PROVE Changes(c)
  <2>1. [call[c] EXCEPT !.pc = call[c].then, !.then = "idle"] \in Call
    BY <1>0 DEF Call, CallPc
  <2>2. Stop(c) \/ call' = [call EXCEPT ![c] = [call[c] EXCEPT !.pc = call[c].then, !.then = "idle"]]
    BY <1>7 DEF Signal
  <2> QED
    BY <2>1, <2>2, <1>1, <1>4
<1>8. ASSUME LookupDone(c) PROVE Changes(c)
  <2>1. \A h \in DOMAIN fetch.found : fetch.found[h] \in Task
    BY <1>0, Listings DEF Fetch
  <2>2. \/ call' = [call EXCEPT ![c].pc = "delete", ![c].stage = "replaced"]
        \/ \E t \in Task : call' = [call EXCEPT ![c].pc = "wait", ![c].task = t]
        \/ Stop(c) \/ Go(c, "lookup")
    BY <1>8, <2>1 DEF LookupDone
  <2>3. ASSUME call' = [call EXCEPT ![c].pc = "delete", ![c].stage = "replaced"] PROVE Changes(c)
    <3>1. [call[c] EXCEPT !.pc = "delete", !.stage = "replaced"] \in Call
      BY <1>0 DEF Call, CallPc
    <3>2. call' = [call EXCEPT ![c] = [call[c] EXCEPT !.pc = "delete", !.stage = "replaced"]]
      BY <2>3, <1>0
    <3> QED
      BY <3>1, <3>2, <1>1
  <2>4. ASSUME NEW t \in Task, call' = [call EXCEPT ![c].pc = "wait", ![c].task = t]
        PROVE  Changes(c)
    <3>1. [call[c] EXCEPT !.pc = "wait", !.task = t] \in Call
      BY <1>0 DEF Call, CallPc
    <3>2. call' = [call EXCEPT ![c] = [call[c] EXCEPT !.pc = "wait", !.task = t]]
      BY <2>4, <1>0
    <3> QED
      BY <3>1, <3>2, <1>1
  <2> QED
    BY <2>2, <2>3, <2>4, <1>4, <1>2 DEF CallPc
<1>9. ASSUME Delete(c) PROVE Changes(c)
  BY <1>9, <1>3, <1>4 DEF Delete
<1>10. ASSUME Wait(c) PROVE Changes(c)
  BY <1>10, <1>4, <1>0 DEF Wait, Call, CallPc
<1>11. ASSUME Receive(c) PROVE Changes(c)
  <2>1. PICK a \in call[c].box :
          call' = [call EXCEPT ![c] =
                     IF a.err \/ ~a.found THEN [@ EXCEPT !.box = {}]
                     ELSE [@ EXCEPT !.box = {}, !.pc = "unregister", !.then = "wait",
                                    !.task = a.task]]
    BY <1>11 DEF Receive
  <2>2. a.task \in Task
    BY <1>0 DEF Call, Answer
  <2>3. [call[c] EXCEPT !.box = {}] \in Call
    BY <1>0 DEF Call
  <2>4. [call[c] EXCEPT !.box = {}, !.pc = "unregister", !.then = "wait", !.task = a.task] \in Call
    BY <1>0, <2>2 DEF Call, CallPc
  <2> QED
    BY <2>1, <2>3, <2>4, <1>0
<1>12. ASSUME Unregister(c) PROVE Changes(c)
  <2>1. [call[c] EXCEPT !.pc = "signal", !.box = {}] \in Call
    BY <1>0 DEF Call, CallPc
  <2>2. call' = [call EXCEPT ![c] = [call[c] EXCEPT !.pc = "signal", !.box = {}]]
    BY <1>12, <1>0 DEF Unregister
  <2> QED
    BY <2>1, <2>2, <1>1
<1>13. ASSUME Scan(c) PROVE Changes(c)
  BY <1>13, <1>2, <1>4, <1>0 DEF Scan, Call, CallPc
<1>14. ASSUME Drop(c) PROVE Changes(c)
  BY <1>14, <1>3, <1>4 DEF Drop
<1>15. ASSUME Lookup(c) PROVE Changes(c)
  BY <1>15, <1>2 DEF Lookup, CallPc
<1>16. ASSUME GiveUp(c) PROVE Changes(c)
  <2>1. [call[c] EXCEPT !.pc = "unregister", !.then = "idle", !.box = {}] \in Call
    BY <1>0 DEF Call, CallPc
  <2> QED
    BY <1>16, <2>1, <1>1 DEF GiveUp
<1>17. ASSUME NEW h \in Hash, NEW op \in Op, Begin(c, h, op) PROVE Changes(c)
  <2>1. [Idle EXCEPT !.pc = "create", !.h = h, !.op = op] \in Call
    BY OfflineAssumption DEF Call, CallPc
  <2> QED
    BY <1>17, <2>1, <1>1 DEF Begin
<1> QED
  BY <1>5, <1>6, <1>7, <1>8, <1>9, <1>10, <1>11, <1>12, <1>13, <1>14, <1>15, <1>16, <1>17
     DEF CallStep

\* A step of a call that has begun is about the same torrent, or ends it.
LEMMA KeepsTorrent ==
  ASSUME OfflineTypeOK, NEW c \in Caller, CallStep(c) \/ Lookup(c) \/ GiveUp(c)
  PROVE  /\ Hc(c) \in Hash
         /\ call'[c] = Idle \/ call'[c].h = call[c].h
<1>0. call \in [Caller -> Call]
  BY DEF OfflineTypeOK
<1>1. ~At(c, "idle")
  BY DEF CallStep, Create, Restart, Signal, LookupDone, Delete, Wait, Receive, Unregister, Scan,
         Drop, Lookup, GiveUp, At
<1>2. Hc(c) \in Hash
  BY <1>1 DEF OfflineTypeOK
<1>3. \A p \in CallPc : Go(c, p) => call'[c].h = call[c].h
  BY <1>0 DEF Go, Call
<1>4. ASSUME NEW p, NEW t, SignalThen(c, p, t) PROVE call'[c].h = call[c].h
  <2>1. call'[c] = [call[c] EXCEPT !.pc = "signal", !.then = p, !.task = t]
    BY <1>0, <1>4 DEF SignalThen
  <2> QED
    BY <2>1, <1>0 DEF Call
<1>5. Stop(c) => call'[c] = Idle
  BY <1>0 DEF Stop
<1>6. Create(c) => call'[c] = Idle \/ call'[c].h = call[c].h
  <2>1. Create(c) => Stop(c) \/ Go(c, "restart") \/ Go(c, "lookup")
    BY DEF Create
  <2> QED
    BY <2>1, <1>3, <1>5 DEF CallPc
<1>7. Restart(c) \/ Delete(c) \/ Drop(c) => call'[c] = Idle \/ call'[c].h = call[c].h
  BY <1>4, <1>5 DEF Restart, Delete, Drop
<1>8. Signal(c) => call'[c] = Idle \/ call'[c].h = call[c].h
  BY <1>5, <1>0 DEF Signal, Call
<1>9. LookupDone(c) => call'[c] = Idle \/ call'[c].h = call[c].h
  <2>1. LookupDone(c) =>
          \/ call' = [call EXCEPT ![c].pc = "delete", ![c].stage = "replaced"]
          \/ \E t : call' = [call EXCEPT ![c].pc = "wait", ![c].task = t]
          \/ Stop(c) \/ Go(c, "lookup")
    BY DEF LookupDone
  <2>2. call' = [call EXCEPT ![c].pc = "delete", ![c].stage = "replaced"] => call'[c].h = call[c].h
    BY <1>0 DEF Call
  <2>3. ASSUME NEW t, call' = [call EXCEPT ![c].pc = "wait", ![c].task = t]
        PROVE  call'[c].h = call[c].h
    BY <2>3, <1>0 DEF Call
  <2> QED
    BY <2>1, <2>2, <2>3, <1>3, <1>5 DEF CallPc
<1>10. Wait(c) => call'[c] = Idle \/ call'[c].h = call[c].h
  <2>1. Wait(c) =>
          \/ Stop(c)
          \/ call' = [call EXCEPT ![c].pc = "scan", ![c].task = Blank]
          \/ call' = [call EXCEPT ![c].pc = "signal", ![c].then = "listen", ![c].task = Blank]
    BY DEF Wait
  <2>2. call' = [call EXCEPT ![c].pc = "scan", ![c].task = Blank] => call'[c].h = call[c].h
    BY <1>0 DEF Call
  <2>3. ASSUME call' = [call EXCEPT ![c].pc = "signal", ![c].then = "listen", ![c].task = Blank]
        PROVE  call'[c].h = call[c].h
    BY <2>3, <1>4 DEF SignalThen
  <2> QED
    BY <2>1, <2>2, <2>3, <1>5
<1>11. Receive(c) => call'[c].h = call[c].h
  BY <1>0 DEF Receive, Call
<1>12. Unregister(c) \/ GiveUp(c) => call'[c].h = call[c].h
  BY <1>0 DEF Unregister, GiveUp, Call
<1>13. Scan(c) => call'[c] = Idle \/ call'[c].h = call[c].h
  BY <1>0, <1>3, <1>5 DEF Scan, Call, CallPc
<1>14. Lookup(c) => call'[c].h = call[c].h
  BY <1>3 DEF Lookup, CallPc
<1> QED
  BY <1>2, <1>6, <1>7, <1>8, <1>9, <1>10, <1>11, <1>12, <1>13, <1>14 DEF CallStep, Hc

\* Where the steps of a call lead: how pc and then of that call change.
LEMMA CallMoves ==
  ASSUME OfflineTypeOK, NEW c \in Caller
  PROVE  /\ Wait(c) => \/ call'[c].pc \in {"idle", "scan"} /\ UNCHANGED record
                       \/ call'[c].pc = "signal" /\ call'[c].then = "listen"
         /\ Signal(c) => call'[c].pc = call[c].then
         /\ Receive(c) \/ GiveUp(c) => call'[c].pc \in {"listen", "unregister"}
         /\ Restart(c) \/ Unregister(c) => call'[c].pc = "signal"
<1>0. call \in [Caller -> Call]
  BY DEF OfflineTypeOK
<1>1. ASSUME NEW p, NEW t, SignalThen(c, p, t)
      PROVE  call'[c].pc = "signal" /\ call'[c].then = p
  <2>1. call'[c] = [call[c] EXCEPT !.pc = "signal", !.then = p, !.task = t]
    BY <1>0, <1>1 DEF SignalThen
  <2> QED
    BY <2>1, <1>0 DEF Call
<1>2. Wait(c) =>
        \/ Stop(c) /\ UNCHANGED record
        \/ call' = [call EXCEPT ![c].pc = "scan", ![c].task = Blank] /\ UNCHANGED record
        \/ SignalThen(c, "listen", Blank)
  BY DEF Wait, SignalThen
<1>3. Stop(c) => call'[c].pc = "idle"
  BY <1>0 DEF Stop, Idle
<1>4. call' = [call EXCEPT ![c].pc = "scan", ![c].task = Blank] => call'[c].pc = "scan"
  BY <1>0 DEF Call
<1>5. Wait(c) => \/ call'[c].pc \in {"idle", "scan"} /\ UNCHANGED record
                 \/ call'[c].pc = "signal" /\ call'[c].then = "listen"
  BY <1>1, <1>2, <1>3, <1>4
<1>6. Signal(c) => call'[c].pc = call[c].then
  BY <1>0, <1>3 DEF Signal, Call
<1>7. Receive(c) => call'[c].pc \in {"listen", "unregister"}
  BY <1>0 DEF Receive, Call, At
<1>8. GiveUp(c) => call'[c].pc = "unregister"
  BY <1>0 DEF GiveUp, Call
<1>9. Restart(c) \/ Unregister(c) => call'[c].pc = "signal"
  BY <1>0, <1>1 DEF Restart, Unregister, Call
<1> QED
  BY <1>5, <1>6, <1>7, <1>8, <1>9

----------------------------------------------------------------------------
(* Type correctness, one lemma for each kind of step.                      *)

\* The waiters of a step that touches one call.
LEMMA WaitersStay ==
  ASSUME OfflineTypeOK, NEW c \in Caller, Changes(c), record' \in [Hash -> Record],
         \A h \in Hash : \A d \in record'[h].waiters : d = c \/ d \in record[h].waiters,
         \A h \in Hash : c \in record'[h].waiters => Registered(h, c)'
  PROVE  \A h \in Hash : \A d \in record'[h].waiters : Registered(h, d)'
<1> TAKE h \in Hash
<1> TAKE d \in record'[h].waiters
<1>1. CASE d = c
  BY <1>1
<1>2. CASE d # c
  <2>1. d \in record[h].waiters /\ d \in Caller
    BY <1>2 DEF OfflineTypeOK, Record
  <2>2. call'[d] = call[d]
    BY <1>2, <2>1 DEF Changes
  <2> QED
    BY <2>1, <2>2 DEF OfflineTypeOK, Registered, Hc, At
<1> QED
  BY <1>1, <1>2

\* A call that is neither listening nor leaving has no waiter anywhere.
LEMMA NoWaiter ==
  ASSUME OfflineTypeOK, NEW c \in Caller, ~At(c, "listen"), ~At(c, "unregister"), ~At(c, "signal")
  PROVE  \A h \in Hash : c \notin record[h].waiters
BY DEF OfflineTypeOK, Registered

\* 115's side of a step.
RemoteOK == remote \in [Hash -> Task] /\ epochs \in [Hash -> 0..MaxEpoch] /\ clock \in 1..MaxUpd

LEMMA Stamps ==
  ASSUME OfflineTypeOK, Stamp
  PROVE  clock' \in 1..MaxUpd
BY OfflineAssumption DEF OfflineTypeOK, Stamp

LEMMA RemoteSteps ==
  ASSUME OfflineTypeOK, NEW h \in Hash, Complete(h) \/ Vanish(h)
  PROVE  OfflineTypeOK'
<1>1. remote' \in [Hash -> Task] /\ clock' \in 1..MaxUpd
  <2>1. CASE Complete(h)
    <3>1. clock' \in 1..MaxUpd
      BY <2>1, Stamps DEF Complete
    <3>2. [remote[h] EXCEPT !.done = TRUE, !.upd = clock'] \in Task
      <4>1. remote[h] \in Task /\ clock' \in 0..MaxUpd
        BY <3>1, OfflineAssumption DEF OfflineTypeOK
      <4>2. NoRecord \in Record /\ 0 \in 0..MaxWait
        BY Constants, OfflineAssumption
      <4> QED
        BY <4>1, <4>2, Updates
    <3>3. remote' = [remote EXCEPT ![h] = [remote[h] EXCEPT !.done = TRUE, !.upd = clock']]
      BY <2>1 DEF Complete, OfflineTypeOK
    <3> QED
      BY <3>1, <3>2, <3>3 DEF OfflineTypeOK
  <2>2. CASE Vanish(h)
    BY <2>2, Constants DEF Vanish, OfflineTypeOK
  <2> QED
    BY <2>1, <2>2
<1>2. UNCHANGED <<epochs, record, poller, fetch, call>> /\ wake' \in BOOLEAN
  BY DEF Complete, Vanish, OfflineTypeOK
<1> QED
  BY <1>1, <1>2 DEF OfflineTypeOK, Registered, At, Hc

\* How the two steps that write a record change its waiters.
LEMMA RecordWaiters ==
  ASSUME OfflineTypeOK, NEW c \in Caller, NEW h \in Hash
  PROVE  /\ Restart(c) => record'[h].waiters = record[h].waiters
         /\ Wait(c) => record'[h].waiters \subseteq record[h].waiters \cup {c}
<1>0. record \in [Hash -> Record] /\ record[h] \in Record
  BY DEF OfflineTypeOK
<1>1. ASSUME Restart(c) PROVE record'[h].waiters = record[h].waiters
  <2>1. record'[h] = record[h] \/ record'[h] = [record[h] EXCEPT !.task = Blank, !.left = 1]
    BY <1>0, <1>1 DEF Restart
  <2>2. [record[h] EXCEPT !.task = Blank, !.left = 1].waiters = record[h].waiters
    BY <1>0 DEF Record
  <2> QED
    BY <2>1, <2>2
<1>2. ASSUME Wait(c) PROVE record'[h].waiters \subseteq record[h].waiters \cup {c}
  <2> DEFINE r == record[h]
             t == call[c].task
             new == [known |-> TRUE, task |-> t, left |-> 1, waiters |-> {c}]
             old == [r EXCEPT !.task = IF Newer(t, @) THEN t ELSE @, !.waiters = @ \cup {c}]
  <2>1. record'[h] = r \/ record'[h] = new \/ record'[h] = old
    BY <1>0, <1>2 DEF Wait
  <2>2. new.waiters = {c}
    OBVIOUS
  <2>3. old.waiters = r.waiters \cup {c}
    BY <1>0 DEF Record
  <2> QED
    BY <2>1, <2>2, <2>3
<1> QED
  BY <1>1, <1>2

\* What a step of one call does to the variables besides call.
LEMMA CallSteps ==
  ASSUME OfflineTypeOK, NEW c \in Caller,
         CallStep(c) \/ Lookup(c) \/ GiveUp(c)
         \/ \E h \in Hash, op \in Op : Begin(c, h, op)
  PROVE  OfflineTypeOK'
<1>0. Changes(c)
  BY CallChanges
<1>1. RemoteOK'
  <2>1. CASE UNCHANGED remoteVars
    BY <2>1 DEF RemoteOK, remoteVars, OfflineTypeOK
  <2>2. CASE Delete(c) \/ Drop(c)
    <3>1. UNCHANGED <<epochs, clock>> /\ (remote' = remote \/ remote' = [remote EXCEPT ![Hc(c)] = Blank])
      BY <2>2 DEF Delete, Drop
    <3> QED
      BY <3>1, Constants DEF RemoteOK, OfflineTypeOK
  <2>3. CASE Create(c) /\ ~UNCHANGED remoteVars
    <3>1. Hc(c) \in Hash
      BY <2>3, KeepsTorrent DEF CallStep
    <3>2. /\ epochs[Hc(c)] < MaxEpoch /\ Stamp
          /\ epochs' = [epochs EXCEPT ![Hc(c)] = @ + 1]
          /\ remote' = [remote EXCEPT ![Hc(c)] =
                          [epoch |-> epochs'[Hc(c)], upd |-> clock', done |-> FALSE]]
      BY <2>3 DEF Create, remoteVars
    <3>3. clock' \in 1..MaxUpd
      BY <3>2, Stamps
    <3>4. epochs[Hc(c)] + 1 \in 0..MaxEpoch
      BY <3>1, <3>2, OfflineAssumption DEF OfflineTypeOK
    <3>5. epochs' \in [Hash -> 0..MaxEpoch] /\ epochs'[Hc(c)] \in 0..MaxEpoch
      BY <3>1, <3>2, <3>4 DEF OfflineTypeOK
    <3>6. [epoch |-> epochs'[Hc(c)], upd |-> clock', done |-> FALSE] \in Task
      BY <3>3, <3>5, OfflineAssumption DEF Task
    <3>7. remote' \in [Hash -> Task]
      BY <3>1, <3>2, <3>6 DEF OfflineTypeOK
    <3> QED
      BY <3>3, <3>5, <3>7 DEF RemoteOK
  <2> QED
    BY <2>1, <2>2, <2>3 DEF CallStep, Restart, Signal, LookupDone, Wait, Receive, Unregister, Scan,
                            Lookup, GiveUp, Begin
<1>2. wake' \in BOOLEAN
  BY DEF OfflineTypeOK, CallStep, Create, Restart, Signal, LookupDone, Delete, Wait, Receive,
         Unregister, Scan, Drop, Lookup, GiveUp, Begin
<1>3. poller' \in Poller
  BY DEF OfflineTypeOK, CallStep, Create, Restart, Signal, LookupDone, Delete, Wait, Receive,
         Unregister, Scan, Drop, Lookup, GiveUp, Begin
<1>4. fetch' \in Fetch
  <2>1. CASE UNCHANGED fetch
    BY <2>1 DEF OfflineTypeOK
  <2>2. CASE LookupDone(c)
    BY <2>2, Constants DEF LookupDone
  <2>3. CASE Lookup(c)
    <3>1. Hc(c) \in Hash
      BY <2>3, KeepsTorrent
    <3>2. [Asking EXCEPT !.by = c, !.pending = {Hc(c)}] \in Fetch
      BY <3>1, Constants DEF Fetch
    <3> QED
      BY <2>3, <3>2 DEF Lookup
  <2> QED
    BY <2>1, <2>2, <2>3 DEF CallStep, Create, Restart, Signal, Delete, Wait, Receive, Unregister,
                            Scan, Drop, GiveUp, Begin
<1>5. record' \in [Hash -> Record]
  <2>0. \A h \in Hash : record[h] \in Record
    BY DEF OfflineTypeOK
  <2>1. CASE UNCHANGED record
    BY <2>1 DEF OfflineTypeOK
  <2>2. CASE Restart(c)
    <3>1. \A h \in Hash : [record[h] EXCEPT !.task = Blank, !.left = 1] \in Record
      <4>1. 1 \in 0..MaxWait
        BY OfflineAssumption
      <4> QED
        BY <2>0, <4>1, Constants, Updates
    <3> QED
      BY <2>2, <3>1, KeepsTorrent DEF Restart, OfflineTypeOK, CallStep
  <2>3. CASE Unregister(c)
    <3>1. \A h \in Hash : [record[h] EXCEPT !.waiters = @ \ {c}] \in Record
      BY <2>0 DEF Record
    <3>2. record' = [record EXCEPT ![Hc(c)] = [record[Hc(c)] EXCEPT !.waiters = @ \ {c}]]
      BY <2>3, KeepsTorrent DEF Unregister, OfflineTypeOK, CallStep
    <3> QED
      BY <3>1, <3>2, <2>3, KeepsTorrent DEF OfflineTypeOK, CallStep
  <2>4. CASE Wait(c) /\ ~UNCHANGED record
    <3> DEFINE t == call[c].task
               r == record[Hc(c)]
               new == [known |-> TRUE, task |-> t, left |-> 1, waiters |-> {c}]
               old == [r EXCEPT !.task = IF Newer(t, @) THEN t ELSE @, !.waiters = @ \cup {c}]
    <3>1. Hc(c) \in Hash /\ t \in Task
      BY <2>4, KeepsTorrent DEF CallStep, OfflineTypeOK, Call
    <3>2. new \in Record
      BY <3>1, OfflineAssumption DEF Record
    <3>3. old \in Record
      BY <3>1, <2>0 DEF Record
    <3>4. record' = [record EXCEPT ![Hc(c)] = IF ~r.known THEN new ELSE old]
      BY <2>4 DEF Wait
    <3> QED
      BY <3>1, <3>2, <3>3, <3>4 DEF OfflineTypeOK
  <2> QED
    BY <2>1, <2>2, <2>3, <2>4 DEF CallStep, Create, Signal, LookupDone, Delete, Receive, Scan, Drop,
                                  Lookup, GiveUp, Begin
<1>6. \A d \in Caller : (At(d, "idle") \/ Hc(d) \in Hash)'
  <2>1. (At(c, "idle") \/ Hc(c) \in Hash)'
    <3>1. CASE CallStep(c) \/ Lookup(c) \/ GiveUp(c)
      BY <3>1, KeepsTorrent DEF At, Hc, Idle
    <3>2. ASSUME NEW h \in Hash, NEW op \in Op, Begin(c, h, op)
          PROVE  (At(c, "idle") \/ Hc(c) \in Hash)'
      BY <3>2 DEF Begin, OfflineTypeOK, Idle, Hc
    <3> QED
      BY <3>1, <3>2
  <2> QED
    BY <1>0, <2>1 DEF Changes, OfflineTypeOK, At, Hc
<1>7. \A h \in Hash : \A d \in record'[h].waiters : d = c \/ d \in record[h].waiters
  <2>1. CASE UNCHANGED record
    BY <2>1
  <2>2. CASE Restart(c)
    BY <2>2, RecordWaiters
  <2>3. CASE Unregister(c)
    BY <2>3, KeepsTorrent DEF Unregister, OfflineTypeOK, CallStep, Record
  <2>4. CASE Wait(c) /\ ~UNCHANGED record
    BY <2>4, RecordWaiters
  <2> QED
    BY <2>1, <2>2, <2>3, <2>4 DEF CallStep, Create, Signal, LookupDone, Delete, Receive, Scan, Drop,
                                  Lookup, GiveUp, Begin
<1>8. \A h \in Hash : c \in record'[h].waiters => Registered(h, c)'
  <2> SUFFICES ASSUME NEW h \in Hash, c \in record'[h].waiters PROVE Registered(h, c)'
    OBVIOUS
  <2>1. CASE ~At(c, "listen") /\ ~At(c, "unregister") /\ ~At(c, "signal") /\ ~Wait(c)
    <3>1. c \notin record[h].waiters
      BY <2>1, NoWaiter
    <3>2. record' = record \/ Restart(c)
      BY <2>1 DEF CallStep, Create, Signal, LookupDone, Delete, Receive, Unregister, Scan, Drop,
                  Lookup, GiveUp, Begin
    <3>3. Restart(c) => record'[h].waiters = record[h].waiters
      BY RecordWaiters
    <3> QED
      BY <3>1, <3>2, <3>3
  <2>2. CASE Wait(c)
    <3>1. Hc(c) \in Hash /\ (call'[c] = Idle \/ call'[c].h = call[c].h)
      BY <2>2, KeepsTorrent DEF CallStep
    <3>2. c \notin record[h].waiters
      BY <2>2, NoWaiter DEF Wait, At
    <3>3. record'[h] = record[h] \/ h = Hc(c)
      BY <2>2, <3>1 DEF Wait, OfflineTypeOK
    <3>4. record' # record /\ h = Hc(c)
      BY <3>2, <3>3
    <3>5. call'[c].pc = "signal" /\ call'[c].then = "listen"
      BY <2>2, <3>4, CallMoves
    <3> QED
      BY <3>1, <3>4, <3>5 DEF Registered, At, Hc, Idle
  <2>3. CASE At(c, "listen") \/ At(c, "signal")
    <3>1. Signal(c) \/ Receive(c) \/ GiveUp(c)
      BY <2>3 DEF CallStep, Create, Restart, LookupDone, Delete, Wait, Unregister, Scan, Drop,
                  Lookup, Begin, At
    <3>2. record' = record
      BY <3>1 DEF Signal, Receive, GiveUp
    <3>3. Registered(h, c)
      BY <3>2 DEF OfflineTypeOK
    <3>4. call'[c].pc \in {"listen", "unregister"}
      BY <3>1, <3>3, CallMoves DEF Registered, Signal, At
    <3>5. call'[c] = Idle \/ call'[c].h = call[c].h
      BY <3>1, KeepsTorrent DEF CallStep
    <3> QED
      BY <3>3, <3>4, <3>5 DEF Registered, At, Hc, Idle
  <2>4. CASE At(c, "unregister")
    <3>1. Unregister(c)
      BY <2>4 DEF CallStep, Create, Restart, Signal, LookupDone, Delete, Wait, Receive, Scan, Drop,
                  Lookup, GiveUp, Begin, At
    <3>2. Hc(c) \in Hash
      BY <3>1, KeepsTorrent DEF CallStep
    <3>3. c \notin record'[Hc(c)].waiters /\ (h # Hc(c) => record'[h] = record[h])
      BY <3>1, <3>2 DEF Unregister, OfflineTypeOK, Record
    <3>4. c \in record[h].waiters => Hc(c) = h
      BY DEF OfflineTypeOK, Registered
    <3> QED
      BY <3>3, <3>4
  <2> QED
    BY <2>1, <2>2, <2>3, <2>4
<1>9. \A h \in Hash : \A d \in record'[h].waiters : Registered(h, d)'
  BY <1>0, <1>5, <1>7, <1>8, WaitersStay
<1> QED
  BY <1>0, <1>1, <1>2, <1>3, <1>4, <1>5, <1>6, <1>9
     DEF OfflineTypeOK, Changes, RemoteOK

\* A step that may fill waiter channels and leaves the calls alone otherwise.
Tells == \A c \in Caller :
           call'[c] = call[c] \/ \E a \in Answer : call'[c] = [call[c] EXCEPT !.box = {a}]

\* Where c is and what it is about stays the same.
Stays(c) == call'[c].pc = call[c].pc /\ call'[c].then = call[c].then /\ call'[c].h = call[c].h

LEMMA Telling ==
  ASSUME OfflineTypeOK, Tells, \E f : call' = [c \in Caller |-> f[c]],
         record' \in [Hash -> Record],
         \A h \in Hash : record'[h].waiters = record[h].waiters
  PROVE  /\ call' \in [Caller -> Call]
         /\ \A c \in Caller : Stays(c)
         /\ \A c \in Caller : (At(c, "idle") \/ Hc(c) \in Hash)'
         /\ \A h \in Hash : \A c \in record'[h].waiters : Registered(h, c)'
<1>1. ASSUME NEW c \in Caller
      PROVE  /\ call'[c] \in Call /\ call'[c].pc = call[c].pc
             /\ call'[c].then = call[c].then /\ call'[c].h = call[c].h
  <2>1. call[c] \in Call
    BY DEF OfflineTypeOK
  <2>2. \A a \in Answer : LET r == [call[c] EXCEPT !.box = {a}]
                          IN  r \in Call /\ r.pc = call[c].pc /\ r.then = call[c].then /\ r.h = call[c].h
    BY <2>1 DEF Call
  <2> QED
    BY <2>1, <2>2 DEF Tells
<1>2. call' \in [Caller -> Call]
  BY <1>1
<1>3. \A c \in Caller : (At(c, "idle") \/ Hc(c) \in Hash)'
  BY <1>1 DEF OfflineTypeOK, At, Hc
<1>4. ASSUME NEW h \in Hash, NEW c \in record'[h].waiters PROVE Registered(h, c)'
  <2>1. c \in record[h].waiters /\ c \in Caller
    BY <1>4 DEF OfflineTypeOK, Record
  <2>2. Registered(h, c)
    BY <2>1 DEF OfflineTypeOK
  <2> QED
    BY <2>1, <2>2, <1>1 DEF Registered, At, Hc
<1> QED
  BY <1>1, <1>2, <1>3, <1>4 DEF Stays

\* ListPage and ListFails only change the fetch.
LEMMA ListSteps ==
  ASSUME OfflineTypeOK, ListPage \/ ListFails
  PROVE  OfflineTypeOK'
<1>0. fetch \in Fetch /\ remote \in [Hash -> Task]
  BY DEF OfflineTypeOK
<1>1. fetch' \in Fetch
  <2>1. CASE ListFails
    BY <2>1, <1>0 DEF ListFails, Fetch
  <2>2. CASE ListPage
    <3>1. PICK S \in SUBSET Hash :
            fetch' = [fetch EXCEPT !.phase = "apply", !.listed = @ \cup S,
                                   !.page = [h \in S |-> remote[h]],
                                   !.last = (Present \ fetch.listed) = S]
      BY <2>2 DEF ListPage, Present
    <3>2. [h \in S |-> remote[h]] \in Listing
      BY <1>0, Listings
    <3>3. \A S2 \in SUBSET Hash, f \in Listing, b \in BOOLEAN :
            [fetch EXCEPT !.phase = "apply", !.listed = S2, !.page = f, !.last = b] \in Fetch
      BY <1>0 DEF Fetch
    <3>4. fetch.listed \cup S \in SUBSET Hash
      BY <1>0 DEF Fetch
    <3> QED
      BY <3>1, <3>2, <3>3, <3>4
  <2> QED
    BY <2>1, <2>2
<1>2. UNCHANGED <<remote, epochs, clock, record, wake, poller, call>>
  BY DEF ListPage, ListFails, remoteVars
<1> QED
  BY <1>1, <1>2 DEF OfflineTypeOK, Registered, At, Hc

\* ApplyPage writes tasks into records and channels.
LEMMA ApplyStep ==
  ASSUME OfflineTypeOK, ApplyPage
  PROVE  /\ OfflineTypeOK'
         /\ \A c \in Caller : Stays(c)
         /\ \A h \in Hash : /\ record'[h].waiters = record[h].waiters
                           /\ record'[h].left = record[h].left
<1> DEFINE page == fetch.page
           news(h) == h \in DOMAIN page /\ record[h].known /\ Newer(page[h], record[h].task)
<1>0. fetch \in Fetch /\ page \in Listing /\ record \in [Hash -> Record]
  BY DEF OfflineTypeOK, Fetch
<1>1. \A h \in DOMAIN page : page[h] \in Task
  BY <1>0, Listings
<1>2. ASSUME NEW h \in Hash
      PROVE  /\ record'[h] \in Record
             /\ record'[h].waiters = record[h].waiters /\ record'[h].left = record[h].left
  <2>1. record'[h] = IF news(h) THEN [record[h] EXCEPT !.task = page[h]] ELSE record[h]
    BY DEF ApplyPage
  <2>2. ASSUME NEW t \in Task
        PROVE  LET r == [record[h] EXCEPT !.task = t]
               IN  r \in Record /\ r.waiters = record[h].waiters /\ r.left = record[h].left
    BY <1>0 DEF Record
  <2> QED
    BY <2>1, <2>2, <1>1, <1>0
<1>3. record' \in [Hash -> Record]
  <2>1. record' = [h \in Hash |-> record'[h]]
    BY DEF ApplyPage
  <2> QED
    BY <2>1, <1>2
<1>4. \E f : call' = [c \in Caller |-> f[c]]
  <2>1. call' = [c \in Caller |-> call'[c]]
    BY DEF ApplyPage
  <2> QED
    BY <2>1
<1>5. Tells
  <2> SUFFICES ASSUME NEW c \in Caller
               PROVE  call'[c] = call[c] \/ \E a \in Answer : call'[c] = [call[c] EXCEPT !.box = {a}]
    BY DEF Tells
  <2>1. call'[c] = call[c] \/ (Hc(c) \in DOMAIN page
                               /\ call'[c] = [call[c] EXCEPT !.box = {Found(page[Hc(c)])}])
    BY DEF ApplyPage
  <2>2. \A t \in Task : Found(t) \in Answer
    BY DEF Found, Answer
  <2> QED
    BY <2>1, <2>2, <1>1
<1>6. fetch' \in Fetch
  <2> DEFINE got == [h \in DOMAIN page \cap fetch.pending |-> page[h]]
             pending == fetch.pending \ DOMAIN page
             next == IF pending = {} \/ fetch.last THEN "done" ELSE "list"
  <2>1. got \in Listing
    BY <1>0, <1>1, Listings
  <2>2. Merge(fetch.found, got) \in Listing
    BY <1>0, <2>1, Merging DEF Fetch
  <2>3. <<>> \in Listing
    BY Constants DEF NoFetch, Fetch
  <2>4. fetch' = [fetch EXCEPT !.found = Merge(@, got), !.pending = pending, !.page = <<>>,
                               !.phase = next]
    BY DEF ApplyPage
  <2>5. pending \in SUBSET Hash /\ next \in {"none", "list", "apply", "done"}
    BY <1>0 DEF Fetch
  <2> HIDE DEF got, pending, next
  <2> QED
    BY <1>0, <2>2, <2>3, <2>4, <2>5 DEF Fetch
<1>7. UNCHANGED <<remote, epochs, clock, wake, poller>>
  BY DEF ApplyPage, remoteVars
<1>8. /\ call' \in [Caller -> Call]
      /\ \A c \in Caller : Stays(c)
      /\ \A c \in Caller : (At(c, "idle") \/ Hc(c) \in Hash)'
      /\ \A h \in Hash : \A c \in record'[h].waiters : Registered(h, c)'
  BY <1>2, <1>3, <1>4, <1>5, Telling
<1>9. OfflineTypeOK'
  BY <1>3, <1>6, <1>7, <1>8 DEF OfflineTypeOK
<1> QED
  BY <1>2, <1>8, <1>9

\* Deliver writes tasks and deadlines into records and fills channels.
LEMMA DeliverStep ==
  ASSUME OfflineTypeOK, Deliver
  PROVE  /\ OfflineTypeOK'
         /\ \A c \in Caller : Stays(c)
         /\ \A h \in Hash : record'[h].waiters = record[h].waiters
<1>0. poller \in Poller /\ record \in [Hash -> Record]
  BY DEF OfflineTypeOK
<1>1. poller.found \in Listing /\ \A h \in DOMAIN poller.found : poller.found[h] \in Task
  BY <1>0, Listings DEF Poller
<1>2. PICK wait \in [poller.targets -> 1..MaxWait] :
        record' = [h \in Hash |->
          IF h \in poller.targets
          THEN [record[h] EXCEPT !.left = wait[h],
                                 !.task = IF h \in DOMAIN poller.found THEN poller.found[h] ELSE @]
          ELSE record[h]]
  BY DEF Deliver
<1>3. ASSUME NEW h \in Hash
      PROVE  record'[h] \in Record /\ record'[h].waiters = record[h].waiters
  <2>1. CASE h \notin poller.targets
    BY <2>1, <1>2, <1>0
  <2>2. CASE h \in poller.targets
    <3> DEFINE t == IF h \in DOMAIN poller.found THEN poller.found[h] ELSE record[h].task
               n == wait[h]
    <3>1. t \in Task /\ n \in 0..MaxWait
      BY <1>0, <1>1, <2>2, OfflineAssumption DEF Record
    <3>2. record'[h] = [record[h] EXCEPT !.left = n, !.task = t]
      BY <1>2, <2>2
    <3> HIDE DEF t, n
    <3>3. [record[h] EXCEPT !.left = n, !.task = t].waiters = record[h].waiters
      BY <1>0 DEF Record
    <3>4. [record[h] EXCEPT !.left = n, !.task = t] \in Record
      BY <3>1, <1>0, Updates
    <3> QED
      BY <3>2, <3>3, <3>4
  <2> QED
    BY <2>1, <2>2
<1>4. record' \in [Hash -> Record]
  <2>1. record' = [h \in Hash |-> record'[h]]
    BY <1>2
  <2> QED
    BY <2>1, <1>3
<1>5. \E f : call' = [c \in Caller |-> f[c]]
  <2>1. call' = [c \in Caller |-> call'[c]]
    BY DEF Deliver
  <2> QED
    BY <2>1
<1>6. Tells
  <2> SUFFICES ASSUME NEW c \in Caller
               PROVE  call'[c] = call[c] \/ \E a \in Answer : call'[c] = [call[c] EXCEPT !.box = {a}]
    BY DEF Tells
  <2>1. call'[c] = call[c] \/ call'[c] = [call[c] EXCEPT !.box = {PollAnswer(Hc(c))}]
    BY DEF Deliver
  <2>2. PollAnswer(Hc(c)) \in Answer
    BY <1>0, <1>1, Constants DEF PollAnswer, Answer, Poller
  <2> QED
    BY <2>1, <2>2
<1>7. UNCHANGED <<remote, epochs, clock, wake, fetch>> /\ poller' = Awake
  BY DEF Deliver, remoteVars
<1> QED
  BY <1>3, <1>4, <1>5, <1>6, <1>7, Telling, Constants DEF OfflineTypeOK

\* The other steps of the poller.
LEMMA PollerSteps ==
  ASSUME OfflineTypeOK, Choose \/ WakeUp \/ PollLock \/ PollUnlock
  PROVE  OfflineTypeOK'
<1>0. poller \in Poller /\ fetch \in Fetch /\ record \in [Hash -> Record]
  BY DEF OfflineTypeOK
<1>1. poller' \in Poller
  <2>1. CASE Choose
    <3>1. Due \in SUBSET Hash
      BY DEF Due, Waited
    <3>2. \A h \in Waited : record[h].left \in 0..NoTimer
      BY <1>0, OfflineAssumption DEF Waited, Record, NoTimer
    <3> QED
      BY <2>1, <3>1, <3>2, Constants DEF Choose, Poller
  <2>2. CASE WakeUp
    BY <2>2, Constants DEF WakeUp
  <2>3. CASE PollLock
    BY <2>3, <1>0 DEF PollLock, Poller
  <2>4. CASE PollUnlock
    BY <2>4, <1>0 DEF PollUnlock, Poller, Fetch
  <2> QED
    BY <2>1, <2>2, <2>3, <2>4
<1>2. fetch' \in Fetch
  <2>1. CASE PollLock
    BY <2>1, <1>0, Constants DEF PollLock, Fetch, Poller
  <2>2. CASE PollUnlock
    BY <2>2, Constants DEF PollUnlock
  <2> QED
    BY <2>1, <2>2, <1>0 DEF Choose, WakeUp
<1>3. wake' \in BOOLEAN
  BY DEF OfflineTypeOK, Choose, WakeUp, PollLock, PollUnlock
<1>4. UNCHANGED <<remote, epochs, clock, record, call>>
  BY DEF Choose, WakeUp, PollLock, PollUnlock, remoteVars
<1> QED
  BY <1>1, <1>2, <1>3, <1>4 DEF OfflineTypeOK, Registered, At, Hc

\* Time passes: deadlines and the timer come closer together.
LEMMA TickStep ==
  ASSUME OfflineTypeOK, Tick
  PROVE  /\ OfflineTypeOK'
         /\ \A h \in Hash : /\ record'[h].waiters = record[h].waiters
                           /\ record'[h].left = Less(record[h].left)
         /\ poller'.timer = Less(poller.timer) /\ poller'.pc = poller.pc
<1>0. poller \in Poller /\ record \in [Hash -> Record]
  BY DEF OfflineTypeOK
<1>1. \A n \in 0..MaxWait : Less(n) \in 0..MaxWait
  BY OfflineAssumption DEF Less
<1>2. \A n \in 0..NoTimer : Less(n) \in 0..NoTimer
  BY OfflineAssumption DEF Less, NoTimer
<1>3. ASSUME NEW h \in Hash
      PROVE  /\ record'[h] \in Record
             /\ record'[h].waiters = record[h].waiters /\ record'[h].left = Less(record[h].left)
  <2>1. record'[h] = [record[h] EXCEPT !.left = Less(@)]
    BY DEF Tick
  <2>2. record[h] \in Record /\ Less(record[h].left) \in 0..MaxWait
    BY <1>0, <1>1 DEF Record
  <2> QED
    BY <2>1, <2>2 DEF Record
<1>4. record' \in [Hash -> Record]
  <2>1. record' = [h \in Hash |-> record'[h]]
    BY DEF Tick
  <2> QED
    BY <2>1, <1>3
<1>5. poller' \in Poller /\ poller'.timer = Less(poller.timer) /\ poller'.pc = poller.pc
  <2>1. poller' = [poller EXCEPT !.timer = Less(@)] /\ Less(poller.timer) \in 0..NoTimer
    BY <1>0, <1>2 DEF Tick, Poller
  <2> QED
    BY <2>1, <1>0 DEF Poller
<1>6. UNCHANGED <<remote, epochs, clock, wake, fetch, call>>
  BY DEF Tick, remoteVars
<1>7. \A h \in Hash : \A c \in record'[h].waiters : Registered(h, c)'
  BY <1>3, <1>6 DEF OfflineTypeOK, Registered, At, Hc
<1>8. OfflineTypeOK'
  BY <1>4, <1>5, <1>6, <1>7 DEF OfflineTypeOK, At, Hc
<1> QED
  BY <1>3, <1>5, <1>8

----------------------------------------------------------------------------
(* Theorems.                                                               *)

LEMMA TypeInit == Init => OfflineTypeOK
<1> SUFFICES ASSUME Init PROVE OfflineTypeOK
  OBVIOUS
<1>1. 1 \in 1..MaxUpd /\ 0 \in 0..MaxEpoch
  BY OfflineAssumption
<1>2. \A h \in Hash : record[h].waiters = {}
  BY DEF Init, NoRecord
<1> QED
  BY <1>1, <1>2, Constants DEF Init, OfflineTypeOK, At, Hc, Idle

LEMMA TypeStep == OfflineTypeOK /\ [Next]_vars => OfflineTypeOK'
<1> SUFFICES ASSUME OfflineTypeOK, [Next]_vars PROVE OfflineTypeOK'
  OBVIOUS
<1>1. CASE UNCHANGED vars
  BY <1>1 DEF vars, OfflineTypeOK, Registered, At, Hc
<1>2. ASSUME NEW h \in Hash, Complete(h) \/ Vanish(h) PROVE OfflineTypeOK'
  BY <1>2, RemoteSteps
<1>3. ASSUME NEW c \in Caller,
             CallStep(c) \/ Lookup(c) \/ GiveUp(c)
             \/ \E h \in Hash, op \in Op : Begin(c, h, op)
      PROVE  OfflineTypeOK'
  BY <1>3, CallSteps
<1>4. FetchStep => OfflineTypeOK'
  BY ListSteps, ApplyStep DEF FetchStep
<1>5. PollerStep \/ PollLock => OfflineTypeOK'
  BY PollerSteps, DeliverStep DEF PollerStep
<1>6. Tick => OfflineTypeOK'
  BY TickStep
<1> QED
  BY <1>1, <1>2, <1>3, <1>4, <1>5, <1>6 DEF Next

\* Every variable of the poller and its callers keeps its type, and a waiter is
\* only registered while its call waits, for any number of callers.
THEOREM OfflineTypesCorrect == Spec => []OfflineTypeOK
  BY TypeInit, TypeStep, PTL DEF Spec

\* A step of a call that leaves "signal" has woken the poller up; another one
\* leaves the deadlines of the waited records alone or goes to "signal".
LEMMA CallsSignal ==
  ASSUME OfflineTypeOK, NEW c \in Caller,
         CallStep(c) \/ Lookup(c) \/ GiveUp(c)
         \/ \E h \in Hash, op \in Op : Begin(c, h, op)
  PROVE  \/ wake' = TRUE
         \/ Signalling'
         \/ ~Signalling /\ UNCHANGED record
<1>0. Changes(c)
  BY CallChanges
<1>1. CASE Signal(c)
  BY <1>1 DEF Signal
<1>2. CASE Restart(c) \/ Unregister(c)
  BY <1>2, CallMoves DEF Signalling, At
<1>3. CASE Wait(c) /\ ~UNCHANGED record
  BY <1>3, CallMoves DEF Signalling, At
<1>4. CASE UNCHANGED record /\ ~Signal(c)
  <2>1. ~At(c, "signal")
    BY <1>4 DEF CallStep, Create, Restart, LookupDone, Delete, Wait, Receive, Unregister, Scan, Drop,
                Lookup, GiveUp, Begin, At
  <2>2. Signalling => Signalling'
    BY <2>1, <1>0 DEF Signalling, Changes, At
  <2> QED
    BY <2>2, <1>4
<1> QED
  BY <1>1, <1>2, <1>3, <1>4
     DEF CallStep, Create, LookupDone, Delete, Receive, Scan, Drop, Lookup, GiveUp, Begin

LEMMA SleepStep == OfflineTypeOK /\ NeverOversleeps /\ [Next]_vars => NeverOversleeps'
<1> SUFFICES ASSUME OfflineTypeOK, NeverOversleeps, [Next]_vars,
                    poller'.pc = "asleep", ~wake', ~Signalling',
                    NEW h \in Hash, record'[h].waiters # {}
             PROVE  poller'.timer <= record'[h].left
  BY DEF NeverOversleeps, Waited
<1>0. poller \in Poller /\ record \in [Hash -> Record] /\ wake \in BOOLEAN
  BY DEF OfflineTypeOK
<1>1. ASSUME UNCHANGED <<poller, wake>>, ~Signalling, record[h].waiters # {},
             record'[h].left = record[h].left
      PROVE  poller'.timer <= record'[h].left
  BY <1>1 DEF NeverOversleeps, Waited
<1>2. CASE UNCHANGED vars
  BY <1>1, <1>2 DEF vars, Signalling, At
<1>3. ASSUME NEW k \in Hash, Complete(k) \/ Vanish(k) PROVE poller'.timer <= record'[h].left
  <2>1. UNCHANGED <<record, poller, call>> /\ (wake' = wake \/ wake' = TRUE)
    BY <1>3 DEF Complete, Vanish
  <2> QED
    BY <2>1, <1>1 DEF Signalling, At
<1>4. ASSUME NEW c \in Caller,
             CallStep(c) \/ Lookup(c) \/ GiveUp(c)
             \/ \E k \in Hash, op \in Op : Begin(c, k, op)
      PROVE  poller'.timer <= record'[h].left
  <2>1. ~Signalling /\ UNCHANGED record
    BY <1>4, CallsSignal
  <2>2. poller' = poller /\ (wake' = wake \/ wake' = TRUE)
    BY <1>4 DEF CallStep, Create, Restart, Signal, LookupDone, Delete, Wait, Receive, Unregister,
                Scan, Drop, Lookup, GiveUp, Begin
  <2> QED
    BY <2>1, <2>2, <1>1
<1>5. ASSUME FetchStep PROVE poller'.timer <= record'[h].left
  <2>1. UNCHANGED <<poller, wake>>
    BY <1>5 DEF FetchStep, ListPage, ListFails, ApplyPage
  <2>2. record'[h].waiters = record[h].waiters /\ record'[h].left = record[h].left
    BY <1>5, ApplyStep DEF FetchStep, ListPage, ListFails
  <2>3. \A c \in Caller : call'[c].pc = call[c].pc
    BY <1>5, ApplyStep DEF FetchStep, ListPage, ListFails, Stays
  <2>4. ~Signalling
    BY <2>3 DEF Signalling, At
  <2> QED
    BY <2>1, <2>2, <2>4, <1>1
<1>6. ASSUME Choose PROVE poller'.timer <= record'[h].left
  <2>1. record' = record
    BY <1>6 DEF Choose
  <2>2. h \in Waited
    BY <2>1 DEF Waited
  <2>3. PICK k \in Waited : /\ \A j \in Waited : record[k].left <= record[j].left
                            /\ poller' = [Awake EXCEPT !.pc = "asleep", !.timer = record[k].left]
    BY <1>6, <2>2 DEF Choose, Awake
  <2>4. poller'.timer = record[k].left
    BY <2>3 DEF Awake
  <2> QED
    BY <2>1, <2>2, <2>3, <2>4
<1>7. ASSUME PollerStep \/ PollLock PROVE poller'.timer <= record'[h].left
  <2>1. WakeUp \/ Deliver => poller'.pc = "choose"
    <3>1. WakeUp \/ Deliver => poller' = Awake
      BY Zenon DEF WakeUp, Deliver
    <3> QED
      BY <3>1 DEF Awake
  <2>2. PollUnlock => poller'.pc = "deliver"
    BY <1>0 DEF PollUnlock, Poller
  <2>3. PollLock => poller'.pc = "fetching"
    BY <1>0 DEF PollLock, Poller
  <2> QED
    BY <1>6, <1>7, <2>1, <2>2, <2>3 DEF PollerStep
<1>8. ASSUME Tick PROVE poller'.timer <= record'[h].left
  <2>1. poller.timer <= record[h].left
    <3>1. UNCHANGED <<wake, call>> /\ poller.pc = "asleep" /\ record[h].waiters # {}
      BY <1>8, TickStep DEF Tick
    <3> QED
      BY <3>1 DEF NeverOversleeps, Waited, Signalling, At
  <2>2. poller.timer \in 0..NoTimer /\ record[h].left \in 0..MaxWait
    BY <1>0 DEF Poller, Record
  <2>3. \A m \in 0..NoTimer, n \in 0..MaxWait : m <= n => Less(m) <= Less(n)
    BY OfflineAssumption DEF Less, NoTimer
  <2> QED
    BY <2>1, <2>2, <2>3, <1>8, TickStep
<1> QED
  BY <1>2, <1>3, <1>4, <1>5, <1>7, <1>8 DEF Next

\* The poller never sleeps past the deadline of a record somebody waits for
\* unless a wake-up is on its way, for any number of torrents and callers and
\* any polling interval.
THEOREM PollerNeverOversleeps == Spec => []NeverOversleeps
<1>1. Init => NeverOversleeps
  BY DEF Init, NeverOversleeps, Awake
<1> QED
  BY <1>1, TypeInit, TypeStep, SleepStep, PTL DEF Spec

----------------------------------------------------------------------------
(* Waiters.                                                                *)

Registering(c) == At(c, "listen") \/ (At(c, "signal") /\ call[c].then = "listen")

\* The inductive invariant: a call is registered from wait on until it leaves,
\* and a record nobody has opened has no waiter that opening it could drop.
WaitersKnown ==
  /\ \A c \in Caller : Registering(c) => c \in record[Hc(c)].waiters
  /\ \A c \in Caller : At(c, "unregister") => call[c].then # "listen"
  /\ \A h \in Hash : record[h].known \/ record[h].waiters = {}

\* Where a call comes to listen from.
LEMMA ListensFrom ==
  ASSUME OfflineTypeOK, NEW c \in Caller,
         CallStep(c) \/ Lookup(c) \/ GiveUp(c)
         \/ \E h \in Hash, op \in Op : Begin(c, h, op)
  PROVE  \/ call'[c].pc \notin {"listen", "signal", "unregister"}
         \/ call'[c].pc \in {"signal", "unregister"} /\ call'[c].then # "listen"
         \/ Signal(c) /\ call[c].then = "listen" /\ call'[c].pc = "listen" /\ call'[c].h = call[c].h
         \/ Receive(c) /\ call'[c].pc = "listen" /\ call'[c].h = call[c].h
         \/ Wait(c) /\ ~Stop(c) /\ ~call[c].task.done /\ call'[c].h = call[c].h
         \/ Unregister(c) /\ call'[c].pc = "signal" /\ call'[c].then = call[c].then
<1>0. call \in [Caller -> Call] /\ call[c] \in Call
  BY DEF OfflineTypeOK
<1>1. ASSUME NEW p, NEW t, SignalThen(c, p, t)
      PROVE  call'[c].pc = "signal" /\ call'[c].then = p /\ call'[c].h = call[c].h
  <2>1. call'[c] = [call[c] EXCEPT !.pc = "signal", !.then = p, !.task = t]
    BY <1>0, <1>1 DEF SignalThen
  <2> QED BY <2>1, <1>0 DEF Call
<1>2. Stop(c) => call'[c].pc = "idle"
  BY <1>0 DEF Stop, Idle
<1>3. \A p : Go(c, p) => call'[c].pc = p
  BY <1>0 DEF Go, Call
<1>4. CASE Create(c)
  <2>1. Stop(c) \/ Go(c, "restart") \/ Go(c, "lookup")
    BY <1>4 DEF Create
  <2> QED BY <1>2, <1>3, <2>1
<1>5. CASE Restart(c) \/ Delete(c) \/ Drop(c)
  <2>1. Stop(c) \/ \E p \in {"wait", "create", "idle"} : \E t : SignalThen(c, p, t)
    BY <1>5 DEF Restart, Delete, Drop
  <2> QED BY <1>1, <1>2, <2>1
<1>6. CASE Signal(c)
  <2>1. Stop(c) \/ call' = [call EXCEPT ![c] = [@ EXCEPT !.pc = call[c].then, !.then = "idle"]]
    BY <1>6 DEF Signal
  <2>2. CASE call' = [call EXCEPT ![c] = [@ EXCEPT !.pc = call[c].then, !.then = "idle"]]
    <3>1. call'[c].pc = call[c].then /\ call'[c].h = call[c].h
      BY <1>0, <2>2 DEF Call
    <3>2. call[c].then \in {"idle", "create", "wait", "listen"}
      BY <1>0 DEF Call
    <3> QED BY <1>6, <3>1, <3>2
  <2> QED BY <1>2, <2>1, <2>2
<1>7. CASE LookupDone(c)
  <2>1. \/ call' = [call EXCEPT ![c].pc = "delete", ![c].stage = "replaced"]
        \/ \E t : call' = [call EXCEPT ![c].pc = "wait", ![c].task = t]
        \/ Stop(c) \/ Go(c, "lookup")
    BY <1>7 DEF LookupDone
  <2>2. call' = [call EXCEPT ![c].pc = "delete", ![c].stage = "replaced"] => call'[c].pc = "delete"
    BY <1>0 DEF Call
  <2>3. ASSUME NEW t, call' = [call EXCEPT ![c].pc = "wait", ![c].task = t]
        PROVE  call'[c].pc = "wait"
    BY <2>3, <1>0 DEF Call
  <2> QED BY <1>2, <1>3, <2>1, <2>2, <2>3
<1>8. CASE Wait(c)
  <2>1. \/ Stop(c)
        \/ call' = [call EXCEPT ![c].pc = "scan", ![c].task = Blank]
        \/ ~call[c].task.done /\ SignalThen(c, "listen", Blank)
    BY <1>8 DEF Wait, SignalThen
  <2>2. call' = [call EXCEPT ![c].pc = "scan", ![c].task = Blank] => call'[c].pc = "scan"
    BY <1>0 DEF Call
  <2> QED BY <1>1, <1>2, <1>8, <2>1, <2>2
<1>9. CASE Receive(c)
  <2>1. PICK a \in call[c].box :
          call' = [call EXCEPT ![c] =
                     IF a.err \/ ~a.found THEN [@ EXCEPT !.box = {}]
                     ELSE [@ EXCEPT !.box = {}, !.pc = "unregister", !.then = "wait", !.task = a.task]]
    BY <1>9 DEF Receive
  <2>2. CASE a.err \/ ~a.found
    <3>1. call'[c] = [call[c] EXCEPT !.box = {}]
      BY <1>0, <2>1, <2>2
    <3>2. call'[c].pc = call[c].pc /\ call'[c].h = call[c].h
      BY <1>0, <3>1 DEF Call
    <3> QED BY <1>9, <3>2 DEF Receive, At
  <2>3. CASE ~(a.err \/ ~a.found)
    <3>1. call'[c] = [call[c] EXCEPT !.box = {}, !.pc = "unregister", !.then = "wait", !.task = a.task]
      BY <1>0, <2>1, <2>3
    <3>2. call'[c].pc = "unregister" /\ call'[c].then = "wait"
      BY <1>0, <3>1 DEF Call
    <3> QED BY <3>2
  <2> QED BY <2>2, <2>3
<1>10. CASE GiveUp(c)
  <2>1. call'[c] = [call[c] EXCEPT !.pc = "unregister", !.then = "idle", !.box = {}]
    BY <1>0, <1>10 DEF GiveUp
  <2>2. call'[c].pc = "unregister" /\ call'[c].then = "idle"
    BY <1>0, <2>1 DEF Call
  <2> QED BY <2>2
<1>11. CASE Unregister(c)
  <2>1. call'[c] = [call[c] EXCEPT !.pc = "signal", !.box = {}]
    BY <1>0, <1>11 DEF Unregister
  <2>2. call'[c].pc = "signal" /\ call'[c].then = call[c].then
    BY <1>0, <2>1 DEF Call
  <2> QED BY <1>11, <2>2
<1>12. CASE Scan(c)
  <2>1. call' = [call EXCEPT ![c].pc = "delete", ![c].stage = "rebuilt"] => call'[c].pc = "delete"
    BY <1>0 DEF Call
  <2>2. Stop(c) \/ Go(c, "drop") \/ call' = [call EXCEPT ![c].pc = "delete", ![c].stage = "rebuilt"]
    BY <1>12 DEF Scan
  <2> QED BY <1>2, <1>3, <2>1, <2>2
<1>13. CASE Lookup(c)
  BY <1>3, <1>13 DEF Lookup
<1>14. CASE \E h \in Hash, op \in Op : Begin(c, h, op)
  <2>1. PICK h \in Hash, op \in Op : call'[c] = [Idle EXCEPT !.pc = "create", !.h = h, !.op = op]
    BY <1>0, <1>14 DEF Begin
  <2> QED BY <2>1 DEF Idle
<1> QED
  BY <1>4, <1>5, <1>6, <1>7, <1>8, <1>9, <1>10, <1>11, <1>12, <1>13, <1>14 DEF CallStep

\* What a step of a call leaves of the records: nobody else's waiter is lost,
\* a caller that starts to wait is registered, and an open record stays open.
LEMMA OthersStay ==
  ASSUME OfflineTypeOK, WaitersKnown, NEW c \in Caller, NEW h \in Hash,
         CallStep(c) \/ Lookup(c) \/ GiveUp(c)
         \/ \E k \in Hash, op \in Op : Begin(c, k, op)
  PROVE  /\ record[h].waiters \ {c} \subseteq record'[h].waiters
         /\ Signal(c) \/ Receive(c) => record'[h] = record[h]
         /\ Wait(c) /\ ~Stop(c) /\ ~call[c].task.done /\ h = Hc(c) => c \in record'[h].waiters
         /\ record'[h].known \/ record'[h].waiters = {}
<1>0. record \in [Hash -> Record] /\ record[h] \in Record
  BY DEF OfflineTypeOK
<1>1. record[h].known \/ record[h].waiters = {}
  BY DEF WaitersKnown
<1>2. CASE UNCHANGED record /\ ~Wait(c)
  BY <1>1, <1>2
<1>3. CASE Restart(c)
  <2>1. record'[h] = record[h] \/ (record[h].known
                                   /\ record'[h] = [record[h] EXCEPT !.task = Blank, !.left = 1])
    BY <1>0, <1>3 DEF Restart
  <2>2. LET r == [record[h] EXCEPT !.task = Blank, !.left = 1]
        IN  r.waiters = record[h].waiters /\ r.known = record[h].known
    BY <1>0 DEF Record
  <2>3. ~Wait(c) /\ ~Signal(c) /\ ~Receive(c)
    BY <1>3 DEF Restart, Wait, Signal, Receive, At
  <2> QED
    BY <1>1, <2>1, <2>2, <2>3
<1>4. CASE Unregister(c)
  <2>1. record'[h] = record[h] \/ record'[h] = [record[h] EXCEPT !.waiters = @ \ {c}]
    BY <1>0, <1>4 DEF Unregister
  <2>2. LET r == [record[h] EXCEPT !.waiters = @ \ {c}]
        IN  r.waiters = record[h].waiters \ {c} /\ r.known = record[h].known
    BY <1>0 DEF Record
  <2>3. ~Wait(c) /\ ~Signal(c) /\ ~Receive(c)
    BY <1>4 DEF Unregister, Wait, Signal, Receive, At
  <2> QED
    BY <1>1, <2>1, <2>2, <2>3
<1>5. CASE Wait(c)
  <2> DEFINE t == call[c].task
             r == record[h]
             new == [known |-> TRUE, task |-> t, left |-> 1, waiters |-> {c}]
             old == [r EXCEPT !.task = IF Newer(t, @) THEN t ELSE @, !.waiters = @ \cup {c}]
  <2>1. /\ \/ record' = record /\ (Stop(c) \/ t.done)
           \/ record' = [record EXCEPT ![Hc(c)] =
                IF ~record[Hc(c)].known
                THEN [known |-> TRUE, task |-> t, left |-> 1, waiters |-> {c}]
                ELSE [record[Hc(c)] EXCEPT !.task = IF Newer(t, @) THEN t ELSE @,
                                           !.waiters = @ \cup {c}]]
        /\ ~Signal(c) /\ ~Receive(c)
    BY <1>5 DEF Wait, Signal, Receive, At
  <2>2. \/ record'[h] = r /\ (Stop(c) \/ t.done \/ h # Hc(c))
        \/ ~r.known /\ record'[h] = new
        \/ r.known /\ record'[h] = old
    BY <1>0, <2>1
  <2>3. new.waiters = {c} /\ new.known
    OBVIOUS
  <2>4. old.waiters = r.waiters \cup {c} /\ old.known = r.known
    BY <1>0 DEF Record
  <2> HIDE DEF r, t, new, old
  <2>5. CASE record'[h] = r /\ (Stop(c) \/ t.done \/ h # Hc(c))
    BY <1>1, <2>1, <2>5 DEF r, t
  <2>6. CASE ~r.known /\ record'[h] = new
    BY <1>1, <2>1, <2>3, <2>6 DEF r
  <2>7. CASE r.known /\ record'[h] = old
    BY <2>1, <2>4, <2>7 DEF r
  <2> QED
    BY <2>2, <2>5, <2>6, <2>7
<1> QED
  BY <1>2, <1>3, <1>4, <1>5
     DEF CallStep, Create, Signal, LookupDone, Delete, Receive, Scan, Drop, Lookup, GiveUp, Begin

\* A step that moves no call and takes no waiter keeps everybody registered.
LEMMA NobodyMoves ==
  ASSUME OfflineTypeOK, WaitersKnown, \A c \in Caller : Stays(c),
         \A h \in Hash : record'[h].waiters = record[h].waiters /\ record'[h].known = record[h].known
  PROVE  WaitersKnown'
<1>1. ASSUME NEW c \in Caller, Registering(c)' PROVE (c \in record[Hc(c)].waiters)'
  <2>1. Registering(c) /\ Hc(c)' = Hc(c)
    BY <1>1 DEF Registering, Stays, At, Hc
  <2>2. Hc(c) \in Hash /\ c \in record[Hc(c)].waiters
    BY <2>1 DEF WaitersKnown, OfflineTypeOK, Registering, At
  <2> QED
    BY <2>1, <2>2
<1>2. ASSUME NEW c \in Caller, At(c, "unregister")' PROVE call'[c].then # "listen"
  BY <1>2 DEF WaitersKnown, Stays, At
<1>3. \A h \in Hash : record'[h].known \/ record'[h].waiters = {}
  BY DEF WaitersKnown
<1> QED
  BY <1>1, <1>2, <1>3 DEF WaitersKnown

\* A step of one call keeps everybody registered who waits.
LEMMA CallsRegister ==
  ASSUME OfflineTypeOK, WaitersKnown, NEW c \in Caller,
         CallStep(c) \/ Lookup(c) \/ GiveUp(c)
         \/ \E k \in Hash, op \in Op : Begin(c, k, op)
  PROVE  WaitersKnown'
<1>0. Changes(c)
  BY CallChanges
<1>1. ASSUME NEW d \in Caller, Registering(d)' PROVE (d \in record[Hc(d)].waiters)'
  <2>1. CASE d # c
    <3>1. call'[d] = call[d]
      BY <1>0, <2>1 DEF Changes
    <3>2. Registering(d) /\ Hc(d)' = Hc(d)
      BY <1>1, <3>1 DEF Registering, At, Hc
    <3>3. Hc(d) \in Hash /\ d \in record[Hc(d)].waiters
      BY <3>2 DEF WaitersKnown, OfflineTypeOK, Registering, At
    <3> QED
      BY <2>1, <3>2, <3>3, OthersStay
  <2>2. CASE d = c
    <3>1. call'[c].pc = "listen" \/ (call'[c].pc = "signal" /\ call'[c].then = "listen")
      BY <1>1, <2>2 DEF Registering, At
    <3>2. CASE Signal(c) /\ call[c].then = "listen" /\ call'[c].h = call[c].h
      <4>1. Registering(c) /\ Hc(c) \in Hash
        BY <3>2 DEF Registering, Signal, At, OfflineTypeOK
      <4>2. c \in record[Hc(c)].waiters /\ record'[Hc(c)] = record[Hc(c)]
        BY <3>2, <4>1, OthersStay DEF WaitersKnown
      <4> QED
        BY <2>2, <3>2, <4>2 DEF Hc
    <3>3. CASE Receive(c) /\ call'[c].h = call[c].h
      <4>1. Registering(c) /\ Hc(c) \in Hash
        BY <3>3 DEF Registering, Receive, At, OfflineTypeOK
      <4>2. c \in record[Hc(c)].waiters /\ record'[Hc(c)] = record[Hc(c)]
        BY <3>3, <4>1, OthersStay DEF WaitersKnown
      <4> QED
        BY <2>2, <3>3, <4>2 DEF Hc
    <3>4. CASE Wait(c) /\ ~Stop(c) /\ ~call[c].task.done /\ call'[c].h = call[c].h
      <4>1. Hc(c) \in Hash
        BY <3>4 DEF Wait, At, OfflineTypeOK
      <4>2. c \in record'[Hc(c)].waiters
        BY <3>4, <4>1, OthersStay
      <4> QED
        BY <2>2, <3>4, <4>2 DEF Hc
    <3>5. CASE Unregister(c) /\ call'[c].pc = "signal" /\ call'[c].then = call[c].then
      BY <3>1, <3>5 DEF WaitersKnown, Unregister
    <3> QED
      BY <3>1, <3>2, <3>3, <3>4, <3>5, ListensFrom
  <2> QED
    BY <2>1, <2>2
<1>2. ASSUME NEW d \in Caller, At(d, "unregister")' PROVE call'[d].then # "listen"
  <2>1. CASE d # c
    BY <1>0, <1>2, <2>1 DEF Changes, WaitersKnown, At
  <2>2. CASE d = c
    <3>1. call'[c].pc = "unregister"
      BY <1>2, <2>2 DEF At
    <3>2. ~(Wait(c) /\ ~Stop(c) /\ ~call[c].task.done)
      BY <3>1, CallMoves
    <3> QED
      BY <2>2, <3>1, <3>2, ListensFrom
  <2> QED
    BY <2>1, <2>2
<1>3. \A h \in Hash : record'[h].known \/ record'[h].waiters = {}
  BY OthersStay
<1> QED
  BY <1>1, <1>2, <1>3 DEF WaitersKnown

\* The poller and a fetch leave a record open or closed, as it was.
LEMMA RecordsStayOpen ==
  ASSUME OfflineTypeOK, ApplyPage \/ Deliver \/ Tick
  PROVE  \A h \in Hash : record'[h].known = record[h].known
<1> SUFFICES ASSUME NEW h \in Hash PROVE record'[h].known = record[h].known
  OBVIOUS
<1>0. record[h] \in Record
  BY DEF OfflineTypeOK
<1>1. \A t, n : LET r == [record[h] EXCEPT !.left = n, !.task = t] IN r.known = record[h].known
  BY <1>0 DEF Record
<1>2. \A x : [record[h] EXCEPT !.task = x].known = record[h].known
  BY <1>0 DEF Record
<1>3. \A x : [record[h] EXCEPT !.left = x].known = record[h].known
  BY <1>0 DEF Record
<1>4. CASE ApplyPage
  <2>1. record'[h] = record[h] \/ \E x : record'[h] = [record[h] EXCEPT !.task = x]
    BY <1>4 DEF ApplyPage
  <2> QED
    BY <1>2, <2>1
<1>5. CASE Deliver
  <2>1. PICK wait \in [poller.targets -> 1..MaxWait] :
          record' = [k \in Hash |->
            IF k \in poller.targets
            THEN [record[k] EXCEPT !.left = wait[k],
                                   !.task = IF k \in DOMAIN poller.found THEN poller.found[k] ELSE @]
            ELSE record[k]]
    BY <1>5 DEF Deliver
  <2> DEFINE t == IF h \in DOMAIN poller.found THEN poller.found[h] ELSE record[h].task
             n == wait[h]
  <2>2. record'[h] = record[h] \/ record'[h] = [record[h] EXCEPT !.left = n, !.task = t]
    <3>1. CASE h \in poller.targets
      BY <2>1, <3>1, <1>0 DEF Record
    <3>2. CASE h \notin poller.targets
      BY <2>1, <3>2
    <3> QED
      BY <3>1, <3>2
  <2> HIDE DEF t, n
  <2> QED
    BY <1>1, <2>2
<1>6. CASE Tick
  <2>1. record'[h] = [record[h] EXCEPT !.left = Less(record[h].left)]
    BY <1>6 DEF Tick
  <2> QED
    BY <1>3, <2>1
<1> QED
  BY <1>4, <1>5, <1>6

LEMMA WaitersStep == OfflineTypeOK /\ WaitersKnown /\ [Next]_vars => WaitersKnown'
<1> SUFFICES ASSUME OfflineTypeOK, WaitersKnown, [Next]_vars PROVE WaitersKnown'
  OBVIOUS
<1>1. CASE UNCHANGED <<record, call>>
  BY <1>1, NobodyMoves DEF Stays
<1>2. ASSUME NEW c \in Caller,
             CallStep(c) \/ Lookup(c) \/ GiveUp(c)
             \/ \E k \in Hash, op \in Op : Begin(c, k, op)
      PROVE  WaitersKnown'
  BY <1>2, CallsRegister
<1>3. CASE ApplyPage
  BY <1>3, ApplyStep, RecordsStayOpen, NobodyMoves
<1>4. CASE Deliver
  BY <1>4, DeliverStep, RecordsStayOpen, NobodyMoves
<1>5. CASE Tick
  <2>1. \A c \in Caller : Stays(c)
    BY <1>5 DEF Tick, Stays
  <2> QED
    BY <1>5, <2>1, TickStep, RecordsStayOpen, NobodyMoves
<1> QED
  BY <1>1, <1>2, <1>3, <1>4, <1>5
     DEF Next, vars, Complete, Vanish, FetchStep, ListPage, ListFails, PollerStep, Choose, WakeUp,
         PollLock, PollUnlock

\* Whoever listens stays registered with the record of its torrent, whoever
\* else registers, restarts or leaves there, for any number of callers.
THEOREM ListenersStayRegistered == Spec => []ListenersAreRegistered
<1>1. Init => WaitersKnown
  BY DEF Init, WaitersKnown, Registering, At, Idle, NoRecord
<1>2. WaitersKnown => ListenersAreRegistered
  BY DEF WaitersKnown, ListenersAreRegistered, Registering
<1> QED
  BY <1>1, <1>2, TypeInit, TypeStep, WaitersStep, PTL DEF Spec
=============================================================================
