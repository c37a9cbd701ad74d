-------------------------- MODULE TokenLeaseProofs --------------------------
(***************************************************************************)
(* Proofs about TokenLease, for any number of processes and goroutines:    *)
(* its types, that the limiter counts its slots, that tokens are refreshed *)
(* under the lease and by one goroutine at a time, that all clients        *)
(* together implement the lease service, and what can become of the pairs  *)
(* of tokens that 115 issues.                                              *)
(***************************************************************************)
EXTENDS TokenLease, FiniteSetTheorems, TLAPS

CallerPc == {"idle", "read", "slot"} \cup SlotPc
UserPc   == {"idle", "write", "drain"} \cup UpdatePc
ReadPc   == {"slot"} \cup SlotPc
WritePc  == {"drain"} \cup UpdatePc
MutexPc  == FreshPc \cup UpdatePc

Together(t, u) == t # u /\ call[t].p = call[u].p

\* Who is where: a call and an update never walk each other's ways.
Roles ==
  /\ \A t \in Caller : call[t].pc \in CallerPc
  /\ \A t \in User : call[t].pc \in UserPc

\* requestMu: one writer, and no reader once it has begun.  refreshMu.
Locks ==
  /\ \A t, u \in User : Together(t, u) /\ call[t].pc \in WritePc => call[u].pc \notin WritePc
  /\ \A t \in User, u \in Caller : Together(t, u) /\ call[t].pc \in UpdatePc => call[u].pc \notin ReadPc
  /\ \A t, u \in Caller : Together(t, u) /\ call[t].pc \in FreshPc => call[u].pc \notin FreshPc

\* The inductive invariant: what is stored, the clients, the goroutines with
\* their locks and slots, and the lease.
Rows    == /\ issued \in Pair /\ spent \subseteq Pair
           /\ cred \in Credential /\ lease \in Proc \cup {"none", "gone"}
Clients == /\ status \in [Proc -> {"down", "starting", "up", "disabled"}]
           /\ mem \in [Proc -> Credential] /\ hooked \in [Proc -> BOOLEAN]
Calls   == /\ call \in [Thread -> Call]
           /\ \A t \in Thread : call[t].pc = "idle" \/ call[t].p \in Proc
           /\ slots \in [Proc -> 0..Slots]
           /\ Roles /\ Locks /\ SlotsCounted
LeaseInv == Rows /\ Clients /\ Calls /\ RefreshesUnderLease

USE DEF Thread, At

\* The places, spelt out.
LEMMA Places ==
  /\ RefreshPc = {"send", "answered", "failed", "save", "release", "undo"}
  /\ FreshPc = {"acquire", "poll", "send", "answered", "failed", "save", "release", "undo"}
  /\ SlotPc = {"mutex", "api", "acquire", "poll", "send", "answered", "failed", "save", "release", "undo"}
  /\ UpdatePc = {"tokens", "store", "judge", "keep", "expire", "giveback",
                 "acquire", "poll", "send", "answered", "failed", "save", "release", "undo"}
BY DEF RefreshPc, FreshPc, SlotPc, UpdatePc

LEMMA CallTypes ==
  /\ Idle \in Call
  /\ \A c \in Credential : c.access \in Pair /\ c.refresh \in Pair
  /\ \A k \in Pair, e \in {"nil", "time", "past"} : Both(k, e) \in Credential
  /\ \A c \in Credential : [c EXCEPT !.exp = "past"] \in Credential
  /\ Unknown \in Credential
<1>1. \A k \in Pair, e \in {"nil", "time", "past"} : Both(k, e) \in Credential
  BY DEF Both, Credential
<1>2. 1 \in Pair
  BY LeaseAssumption DEF Pair
<1>3. Unknown \in Credential
  BY <1>1, <1>2 DEF Unknown
<1>4. Idle \in Call
  BY <1>3 DEF Idle, Call, CallPc
<1>5. \A c \in Credential : [c EXCEPT !.exp = "past"] \in Credential
  BY DEF Credential
<1>6. \A c \in Credential : c.access \in Pair /\ c.refresh \in Pair
  BY DEF Credential
<1> QED
  BY <1>1, <1>3, <1>4, <1>5, <1>6

\* What a goroutine becomes in a step.
LEMMA CallUpdates ==
  ASSUME NEW r \in Call
  PROVE  /\ \A pc \in CallPc : [r EXCEPT !.pc = pc] \in Call
         /\ \A pc \in CallPc, c \in Credential : [r EXCEPT !.pc = pc, !.cur = c] \in Call
         /\ \A pc \in CallPc, p \in Proc : [Idle EXCEPT !.pc = pc, !.p = p] \in Call
         /\ [r EXCEPT !.late = TRUE] \in Call
<1>1. \A pc \in CallPc : [r EXCEPT !.pc = pc] \in Call
  BY DEF Call
<1>2. \A pc \in CallPc, c \in Credential : [r EXCEPT !.pc = pc, !.cur = c] \in Call
  BY DEF Call
<1>3. \A pc \in CallPc, p \in Proc : [Idle EXCEPT !.pc = pc, !.p = p] \in Call
  BY CallTypes DEF Call
<1>4. [r EXCEPT !.late = TRUE] \in Call
  BY DEF Call
<1> QED
  BY <1>1, <1>2, <1>3, <1>4

\* Goroutine t becomes r.
Turn(t, r) == call' = [call EXCEPT ![t] = r]

\* The locks after a step of t: what it did not hold before was free.
LEMMA LockStep ==
  ASSUME call \in [Thread -> Call], Roles, Locks,
         NEW t \in Thread, NEW r \in Call, Turn(t, r),
         t \in Caller => r.pc \in CallerPc, t \in User => r.pc \in UserPc,
         t \in Caller /\ r.pc \in FreshPc =>
           (r.p = call[t].p /\ call[t].pc \in FreshPc) \/ RefreshMuFree(r.p),
         t \in Caller /\ r.pc \in ReadPc =>
           (r.p = call[t].p /\ call[t].pc \in ReadPc) \/ Writers(r.p) = {},
         t \in User /\ r.pc \in WritePc =>
           (r.p = call[t].p /\ call[t].pc \in WritePc) \/ Writers(r.p) = {},
         t \in User /\ r.pc \in UpdatePc =>
           (r.p = call[t].p /\ call[t].pc \in UpdatePc) \/ Readers(r.p) = {}
  PROVE  Roles' /\ Locks'
<1>1. /\ \A u \in Thread : call'[u] = IF u = t THEN r ELSE call[u]
      /\ Caller \cap User = {}
  BY LeaseAssumption DEF Turn
<1>2. Roles'
  BY <1>1 DEF Roles
<1>3. \A u, v \in User : u # v /\ call'[u].p = call'[v].p /\ call'[u].pc \in WritePc => call'[v].pc \notin WritePc
  BY <1>1 DEF Locks, Together, Writers, Of, WritePc
<1>4. \A u \in User, v \in Caller : u # v /\ call'[u].p = call'[v].p /\ call'[u].pc \in UpdatePc => call'[v].pc \notin ReadPc
  BY <1>1 DEF Locks, Together, Writers, Readers, Of, WritePc, ReadPc
<1>5. \A u, v \in Caller : u # v /\ call'[u].p = call'[v].p /\ call'[u].pc \in FreshPc => call'[v].pc \notin FreshPc
  BY <1>1 DEF Locks, Together, RefreshMuFree, Of
<1> QED
  BY <1>2, <1>3, <1>4, <1>5 DEF Locks, Together

\* Slots are counted through a step of t that takes none and gives none back ...
LEMMA SlotsKept ==
  ASSUME call \in [Thread -> Call], SlotsCounted, slots' = slots,
         NEW t \in Thread, NEW r \in Call, Turn(t, r),
         t \in Caller => (r.pc \in SlotPc <=> call[t].pc \in SlotPc),
         t \in Caller /\ r.pc \in SlotPc => r.p = call[t].p
  PROVE  SlotsCounted'
<1>1. \A u \in Thread : call'[u] = IF u = t THEN r ELSE call[u]
  BY DEF Turn
<1>2. \A p \in Proc : Holders(p)' = Holders(p)
  BY <1>1 DEF Holders, Of
<1> QED
  BY <1>2 DEF SlotsCounted

\* ... that takes one ...
LEMMA SlotTaken ==
  ASSUME call \in [Thread -> Call], slots \in [Proc -> 0..Slots], SlotsCounted,
         NEW t \in Caller, NEW r \in Call, Turn(t, r),
         r.pc \in SlotPc, call[t].pc \notin SlotPc, r.p = call[t].p, r.p \in Proc,
         slots[r.p] < Slots, slots' = [slots EXCEPT ![r.p] = @ + 1]
  PROVE  SlotsCounted' /\ slots' \in [Proc -> 0..Slots]
<1>1. \A u \in Thread : call'[u] = IF u = t THEN r ELSE call[u]
  BY DEF Turn
<1>2. \A p \in Proc : p # r.p => Holders(p)' = Holders(p)
  BY <1>1 DEF Holders, Of
<1>3. Holders(r.p)' = Holders(r.p) \cup {t} /\ t \notin Holders(r.p)
  BY <1>1 DEF Holders, Of
<1>4. IsFiniteSet(Holders(r.p))
  BY LeaseAssumption, FS_Subset DEF Holders
<1>5. Cardinality(Holders(r.p)') = Cardinality(Holders(r.p)) + 1
  BY <1>3, <1>4, FS_AddElement
<1> QED
  BY <1>2, <1>5, LeaseAssumption DEF SlotsCounted

\* ... and that gives one back.
LEMMA SlotReturned ==
  ASSUME call \in [Thread -> Call], slots \in [Proc -> 0..Slots], SlotsCounted,
         NEW t \in Caller, Turn(t, Idle),
         NEW p \in Proc, call[t].pc \in SlotPc, call[t].p = p,
         slots' = [slots EXCEPT ![p] = @ - 1]
  PROVE  SlotsCounted' /\ slots' \in [Proc -> 0..Slots]
<1>1. \A u \in Thread : call'[u] = IF u = t THEN Idle ELSE call[u]
  BY DEF Turn
<1>2. Idle.pc \notin SlotPc
  BY Places DEF Idle
<1>3. \A q \in Proc : q # p => Holders(q)' = Holders(q)
  BY <1>1, <1>2 DEF Holders, Of
<1>4. Holders(p)' = Holders(p) \ {t} /\ t \in Holders(p)
  BY <1>1, <1>2 DEF Holders, Of
<1>5. IsFiniteSet(Holders(p))
  BY LeaseAssumption, FS_Subset DEF Holders
<1>6. Cardinality(Holders(p)') = Cardinality(Holders(p)) - 1
  BY <1>4, <1>5, FS_RemoveElement
<1>7. slots[p] = Cardinality(Holders(p)) /\ slots[p] \in 0..Slots /\ Cardinality(Holders(p)') \in Nat
  <2>1. IsFiniteSet(Holders(p)')
    BY <1>4, <1>5, FS_Subset
  <2> QED
    BY <2>1, FS_CardinalityType DEF SlotsCounted
<1> QED
  BY <1>3, <1>6, <1>7, LeaseAssumption DEF SlotsCounted

\* The lease after a step of t, which touches only a row that is its own or
\* nobody's, and only with refreshMu.
LEMMA LeaseStep ==
  ASSUME call \in [Thread -> Call], Roles, Locks, RefreshesUnderLease,
         \A u \in Thread : call[u].pc = "idle" \/ call[u].p \in Proc,
         NEW t \in Thread, NEW r \in Call, Turn(t, r),
         \/ lease' = lease
         \/ /\ call[t].pc \in MutexPc
            /\ lease \in {"none", call[t].p} /\ lease' \in {"none", call[t].p},
         r.pc \in RefreshPc => r.late \/ lease' = r.p
  PROVE  RefreshesUnderLease'
<1>1. \A u \in Thread : call'[u] = IF u = t THEN r ELSE call[u]
  BY DEF Turn
<1>2. SUFFICES ASSUME NEW u \in Thread, u # t, call[u].pc \in RefreshPc, ~call[u].late, lease' # lease
               PROVE  FALSE
  BY <1>1 DEF RefreshesUnderLease
<1>3. lease = call[u].p /\ call[u].p \in Proc /\ "none" \notin Proc
  BY <1>2, Places, LeaseAssumption DEF RefreshesUnderLease
<1>4. call[u].p = call[t].p /\ call[t].pc \in MutexPc
  BY <1>2, <1>3
<1>5. call[t].pc \in FreshPc \/ (t \in User /\ call[t].pc \in UpdatePc)
  BY <1>4, Places DEF Roles, CallerPc, MutexPc
<1> QED
  BY <1>2, <1>4, <1>5, Places DEF Locks, Together, ReadPc, WritePc

\* A step within ensureFresh or within an update.
LEMMA Advancing ==
  ASSUME Calls, NEW t \in Thread, NEW r \in Call, Turn(t, r), r.p = call[t].p, slots' = slots,
         \/ t \in User /\ call[t].pc \in UpdatePc /\ r.pc \in UpdatePc
         \/ call[t].pc \in FreshPc /\ r.pc \in FreshPc
  PROVE  Calls'
<1>1. /\ \A u \in Thread : call'[u] = IF u = t THEN r ELSE call[u]
      /\ call' \in [Thread -> Call] /\ Caller \cap User = {}
  BY LeaseAssumption DEF Calls, Turn
<1>2. t \in User => call[t].pc \in UpdatePc /\ r.pc \in UpdatePc
  BY Places
<1>3. t \in Caller => call[t].pc \in FreshPc /\ r.pc \in FreshPc
  BY <1>1
<1>4. Roles' /\ Locks'
  BY <1>1, <1>2, <1>3, Places, LockStep DEF Calls, CallerPc, UserPc, ReadPc, WritePc
<1>5. SlotsCounted'
  BY <1>3, Places, SlotsKept DEF Calls
<1>6. call[t].p \in Proc
  BY Places DEF Calls
<1> QED
  BY <1>1, <1>4, <1>5, <1>6 DEF Calls

\* A goroutine stops without a slot.
LEMMA Stopping ==
  ASSUME Calls, NEW t \in Thread, Stop(t), slots' = slots, t \in User \/ call[t].pc \notin SlotPc
  PROVE  Calls' /\ Turn(t, Idle)
<1>1. /\ \A u \in Thread : call'[u] = IF u = t THEN Idle ELSE call[u]
      /\ call' \in [Thread -> Call] /\ Caller \cap User = {} /\ Turn(t, Idle) /\ Idle \in Call
  BY LeaseAssumption, CallTypes DEF Calls, Turn, Stop
<1>2. Idle.pc = "idle"
  BY DEF Idle
<1>3. Roles' /\ Locks'
  BY <1>1, <1>2, Places, LockStep DEF Calls, CallerPc, UserPc, ReadPc, WritePc
<1>4. SlotsCounted'
  BY <1>1, <1>2, Places, SlotsKept DEF Calls
<1> QED
  BY <1>1, <1>2, <1>3, <1>4 DEF Calls

\* A call gives its slot back.
LEMMA Leaving ==
  ASSUME Calls, Clients, NEW t \in Caller, call[t].pc \in SlotPc, NEW ok \in BOOLEAN, Leave(t, ok)
  PROVE  Calls' /\ Turn(t, Idle) /\ status' \in [Proc -> {"down", "starting", "up", "disabled"}]
<1>1. /\ \A u \in Thread : call'[u] = IF u = t THEN Idle ELSE call[u]
      /\ call' \in [Thread -> Call] /\ Caller \cap User = {} /\ Turn(t, Idle) /\ Idle \in Call
  BY LeaseAssumption, CallTypes DEF Calls, Turn, Stop, Leave
<1>2. Idle.pc = "idle"
  BY DEF Idle
<1>3. Roles' /\ Locks'
  BY <1>1, <1>2, Places, LockStep DEF Calls, CallerPc, UserPc, ReadPc, WritePc
<1>4. PICK p \in Proc : p = call[t].p
  BY Places DEF Calls
<1>5. SlotsCounted' /\ slots' \in [Proc -> 0..Slots]
  BY <1>1, <1>4, SlotReturned DEF Calls, Leave
<1>6. status' \in [Proc -> {"down", "starting", "up", "disabled"}]
  BY <1>4 DEF Clients, Leave, Probed
<1> QED
  BY <1>1, <1>2, <1>3, <1>5, <1>6 DEF Calls

\* ensureFresh returns.
LEMMA Exiting ==
  ASSUME Calls, Clients, NEW t \in Thread, NEW ok \in BOOLEAN, NEW c \in Credential, Exit(t, ok, c),
         \/ t \in User /\ call[t].pc \in UpdatePc
         \/ call[t].pc \in {"mutex"} \cup FreshPc
  PROVE  Calls' /\ Clients' /\ \E r \in Call : Turn(t, r) /\ r.pc \notin RefreshPc
<1>0. Caller \cap User = {} /\ Idle \in Call /\ Idle.pc = "idle"
  BY LeaseAssumption, CallTypes DEF Idle
<1>1. PICK p \in Proc : p = call[t].p
  BY Places DEF Calls
<1>a. hooked' \in [Proc -> BOOLEAN]
  BY <1>1 DEF Exit, Clients
<1>2. mem' \in [Proc -> Credential] /\ hooked' \in [Proc -> BOOLEAN]
  BY <1>1, <1>a DEF Exit, Clients
<1>3. CASE t \in User
  <2>1. Stop(t) /\ slots' = slots /\ status' \in [Proc -> {"down", "starting", "up", "disabled"}]
    BY <1>0, <1>1, <1>3 DEF Exit, Clients
  <2> QED
    BY <2>1, <1>0, <1>2, <1>3, Places, Stopping DEF Clients
<1>4. CASE t \in Caller /\ ~ok
  <2>1. Leave(t, FALSE) /\ call[t].pc \in SlotPc
    BY <1>0, <1>4, Places DEF Exit
  <2> QED
    BY <2>1, <1>0, <1>2, <1>4, Places, Leaving DEF Clients
<1>5. CASE t \in Caller /\ ok
  <2> DEFINE r == [Idle EXCEPT !.pc = "api", !.p = p]
  <2>1. Turn(t, r) /\ status' = status /\ slots' = slots
    BY <1>0, <1>1, <1>5 DEF Exit, Begin, Turn
  <2>2. r \in Call /\ r.pc = "api" /\ r.p = p
    <3>1. "api" \in CallPc
      BY DEF CallPc, SlotPc
    <3> QED
      BY <3>1, <1>0, CallUpdates DEF Idle
  <2>3. call[t].pc \in SlotPc /\ t \notin User
    BY <1>0, <1>5, Places
  <2> HIDE DEF r
  <2>4. Roles' /\ Locks'
    BY <2>1, <2>2, <2>3, <1>1, <1>5, Places, LockStep DEF Calls, CallerPc, ReadPc
  <2>5. SlotsCounted'
    BY <2>1, <2>2, <2>3, <1>1, <1>5, Places, SlotsKept DEF Calls
  <2>6. Calls'
    BY <2>1, <2>2, <2>4, <2>5 DEF Calls, Turn
  <2> QED
    BY <2>1, <2>2, <2>6, <1>2, Places DEF Clients
<1> QED
  BY <1>3, <1>4, <1>5

\* A goroutine goes on ...
LEMMA Going ==
  ASSUME Calls, NEW t \in Thread, NEW pc \in CallPc, Go(t, pc)
  PROVE  \E r \in Call : Turn(t, r) /\ r.pc = pc /\ r.p = call[t].p /\ r.late = call[t].late
<1> call[t] \in Call /\ [call[t] EXCEPT !.pc = pc] \in Call
  BY CallUpdates DEF Calls
<1> WITNESS [call[t] EXCEPT !.pc = pc] \in Call
<1> QED
  BY DEF Go, Turn, Call

\* ... with another credential ...
LEMMA GoingWith ==
  ASSUME Calls, NEW t \in Thread, NEW pc \in CallPc, NEW c \in Credential,
         call' = [call EXCEPT ![t] = [@ EXCEPT !.pc = pc, !.cur = c]]
  PROVE  \E r \in Call : Turn(t, r) /\ r.pc = pc /\ r.p = call[t].p /\ r.late = call[t].late
<1> call[t] \in Call /\ [call[t] EXCEPT !.pc = pc, !.cur = c] \in Call
  BY CallUpdates DEF Calls
<1> WITNESS [call[t] EXCEPT !.pc = pc, !.cur = c] \in Call
<1> QED
  BY DEF Turn, Call

\* ... or begins.
LEMMA Begun ==
  ASSUME Calls, NEW t \in Thread, NEW pc \in CallPc, NEW p \in Proc, Begin(t, p, pc)
  PROVE  \E r \in Call : Turn(t, r) /\ r.pc = pc /\ r.p = p
<1> [Idle EXCEPT !.pc = pc, !.p = p] \in Call
  BY CallTypes, CallUpdates
<1> WITNESS [Idle EXCEPT !.pc = pc, !.p = p] \in Call
<1> QED
  BY DEF Begin, Turn, Idle

\* A goroutine begins with a call or an update.
LEMMA Beginning ==
  ASSUME Calls, NEW t \in Thread, call[t].pc = "idle", NEW p \in Proc, slots' = slots,
         \/ t \in Caller /\ Begin(t, p, "read")
         \/ t \in User /\ Begin(t, p, "write")
  PROVE  Calls' /\ \E r \in Call : Turn(t, r) /\ r.pc \notin RefreshPc
<1>1. Caller \cap User = {} /\ "read" \in CallPc /\ "write" \in CallPc
  BY LeaseAssumption DEF CallPc
<1>2. \E r \in Call : /\ Turn(t, r) /\ r.p = p
                    /\ (t \in Caller => r.pc = "read") /\ (t \in User => r.pc = "write")
  <2>1. CASE t \in Caller /\ Begin(t, p, "read")
    <3>1. \E r \in Call : Turn(t, r) /\ r.pc = "read" /\ r.p = p
      BY <1>1, <2>1, Begun
    <3> QED
      BY <1>1, <2>1, <3>1
  <2>2. CASE t \in User /\ Begin(t, p, "write")
    <3>1. \E r \in Call : Turn(t, r) /\ r.pc = "write" /\ r.p = p
      BY <1>1, <2>2, Begun
    <3> QED
      BY <1>1, <2>2, <3>1
  <2> QED
    BY <2>1, <2>2
<1>3. PICK r \in Call : /\ Turn(t, r) /\ r.p = p
                     /\ (t \in Caller => r.pc = "read") /\ (t \in User => r.pc = "write")
  BY <1>2
<1>4. /\ r.pc \in {"read", "write"} /\ "idle" \notin SlotPc
      /\ r.pc \notin SlotPc \cup FreshPc \cup ReadPc \cup WritePc \cup UpdatePc \cup RefreshPc
  BY <1>3, Places DEF ReadPc, WritePc
<1>5. Roles' /\ Locks'
  BY <1>1, <1>3, <1>4, LockStep DEF Calls, CallerPc, UserPc
<1>6. SlotsCounted'
  BY <1>3, <1>4, SlotsKept DEF Calls
<1>7. call' \in [Thread -> Call] /\ \A u \in Thread : call'[u] = IF u = t THEN r ELSE call[u]
  BY <1>3 DEF Calls, Turn
<1>8. Calls'
  BY <1>3, <1>5, <1>6, <1>7 DEF Calls
<1> QED
  BY <1>3, <1>4, <1>8

\* The lease when t does not refresh afterwards.
LEMMA NoRefresh ==
  ASSUME Calls, RefreshesUnderLease, NEW t \in Thread, lease' = lease,
         \E r \in Call : Turn(t, r) /\ r.pc \notin RefreshPc
  PROVE  RefreshesUnderLease'
<1>1. PICK r \in Call : Turn(t, r) /\ r.pc \notin RefreshPc
  OBVIOUS
<1> QED
  BY <1>1, LeaseStep DEF Calls

LEMMA IdleRests == Idle \in Call /\ Idle.pc = "idle" /\ "idle" \notin RefreshPc
BY CallTypes, Places DEF Idle

\* It holds at the start.
LEMMA Initially == Init => LeaseInv
<1> SUFFICES ASSUME Init PROVE LeaseInv
  OBVIOUS
<1>1. 1 \in Pair /\ Unknown \in Credential /\ Both(1, "past") \in Credential /\ Idle \in Call /\ Idle.pc = "idle"
  BY CallTypes, LeaseAssumption DEF Pair, Idle
<1>2. Rows /\ Clients
  BY <1>1 DEF Init, Rows, Clients
<1>3. Roles /\ Locks /\ RefreshesUnderLease
  BY <1>1, Places DEF Init, Roles, Locks, RefreshesUnderLease, CallerPc, UserPc, ReadPc, WritePc
<1>4. \A p \in Proc : Holders(p) = {}
  BY <1>1, Places DEF Init, Holders, Of
<1>5. SlotsCounted
  BY <1>4, FS_EmptySet DEF Init, SlotsCounted
<1>6. Calls
  BY <1>1, <1>3, <1>5, LeaseAssumption DEF Init, Calls
<1> QED
  BY <1>2, <1>3, <1>6 DEF LeaseInv

\* The steps before and after ensureFresh keep it.
LEMMA OutsideStep ==
  ASSUME LeaseInv,
         \/ LeaseExpires
         \/ \E t \in Caller, p \in Proc : Start(t, p) \/ BeginCall(t, p)
         \/ \E t \in User, p \in Proc : BeginUpdate(t, p)
         \/ \E p \in Proc : Crash(p)
         \/ \E t \in Thread : GiveUp(t) \/ After(t) \/ ReadLock(t) \/ TakeSlot(t) \/ Announce(t) \/ WriteLock(t)
  PROVE  LeaseInv'
<1> USE DEF procVars, remoteVars
<1>0. Rows /\ Clients /\ Calls /\ RefreshesUnderLease /\ Caller \cap User = {}
  BY LeaseAssumption DEF LeaseInv
<1>1. CASE LeaseExpires
  <2> DEFINE next(t) == IF call[t].p = lease /\ call[t].pc \in RefreshPc
                        THEN [call[t] EXCEPT !.late = TRUE] ELSE call[t]
  <2>1. \A t \in Thread : next(t) \in Call
    BY <1>0, CallUpdates DEF Calls
  <2>2. \A t \in Thread : /\ call'[t] = next(t)
                          /\ next(t).pc = call[t].pc /\ next(t).p = call[t].p
    BY <1>0, <1>1 DEF LeaseExpires, Calls, Call
  <2>3. call' \in [Thread -> Call]
    BY <1>1, <2>1 DEF LeaseExpires
  <2>4. \A t \in Thread : call'[t].pc = call[t].pc /\ call'[t].p = call[t].p
    BY <2>2
  <2>5. Roles' /\ Locks'
    BY <1>0, <2>4 DEF Calls, Roles, Locks, Together
  <2>6. \A p \in Proc : Holders(p)' = Holders(p)
    BY <2>4 DEF Holders, Of
  <2>7. Calls'
    BY <1>0, <1>1, <2>3, <2>4, <2>5, <2>6 DEF Calls, SlotsCounted, LeaseExpires
  <2>8. RefreshesUnderLease'
    <3> SUFFICES ASSUME NEW t \in Thread, call[t].pc \in RefreshPc PROVE call'[t].late
      BY <2>4 DEF RefreshesUnderLease
    <3>1. call[t].late \/ lease = call[t].p
      BY <1>0 DEF RefreshesUnderLease
    <3> QED
      BY <1>0, <2>2, <3>1 DEF Calls, Call
  <2>9. Rows' /\ Clients'
    BY <1>0, <1>1 DEF LeaseExpires, Rows, Clients
  <2> QED
    BY <2>7, <2>8, <2>9 DEF LeaseInv
<1>2. CASE \E t \in Caller, p \in Proc : Start(t, p) \/ BeginCall(t, p)
  <2>1. PICK t \in Caller, p \in Proc : Start(t, p) \/ BeginCall(t, p)
    BY <1>2
  <2>2. Begin(t, p, "read") /\ call[t].pc = "idle" /\ slots' = slots /\ lease' = lease
    BY <2>1 DEF Start, BeginCall
  <2>3. Calls' /\ RefreshesUnderLease'
    BY <1>0, <2>2, Beginning, NoRefresh
  <2>4. Rows' /\ Clients'
    BY <1>0, <2>1 DEF Start, BeginCall, Rows, Clients
  <2> QED
    BY <2>3, <2>4 DEF LeaseInv
<1>3. CASE \E t \in User, p \in Proc : BeginUpdate(t, p)
  <2>1. PICK t \in User, p \in Proc : BeginUpdate(t, p)
    BY <1>3
  <2>2. Begin(t, p, "write") /\ call[t].pc = "idle" /\ slots' = slots /\ lease' = lease
    BY <2>1 DEF BeginUpdate
  <2>3. Calls' /\ RefreshesUnderLease'
    BY <1>0, <2>2, Beginning, NoRefresh
  <2>4. Rows' /\ Clients'
    BY <1>0, <2>1 DEF BeginUpdate, Rows, Clients
  <2> QED
    BY <2>3, <2>4 DEF LeaseInv
<1>4. CASE \E p \in Proc : Crash(p)
  <2>1. PICK p \in Proc : Crash(p)
    BY <1>4
  <2>2. Idle \in Call /\ Idle.pc = "idle" /\ Idle.p = "none" /\ Unknown \in Credential /\ "none" \notin Proc
    BY CallTypes, LeaseAssumption DEF Idle
  <2>3. \A t \in Thread : call'[t] = IF call[t].p = p THEN Idle ELSE call[t]
    BY <2>1 DEF Crash
  <2>4. call' \in [Thread -> Call]
    BY <1>0, <2>1, <2>2 DEF Crash, Calls
  <2>5. Roles' /\ Locks'
    BY <1>0, <2>2, <2>3, Places DEF Calls, Roles, Locks, Together, CallerPc, UserPc, ReadPc, WritePc
  <2>6. \A q \in Proc : Holders(q)' = IF q = p THEN {} ELSE Holders(q)
    BY <2>2, <2>3, Places DEF Holders, Of
  <2>7. SlotsCounted' /\ slots' \in [Proc -> 0..Slots]
    <3>1. slots' = [slots EXCEPT ![p] = 0] /\ slots \in [Proc -> 0..Slots] /\ 0 \in 0..Slots
      BY <1>0, <2>1, LeaseAssumption DEF Crash, Calls
    <3>2. \A q \in Proc : slots'[q] = Cardinality(Holders(q)')
      BY <1>0, <2>6, <3>1, FS_EmptySet DEF Calls, SlotsCounted
    <3> QED
      BY <3>1, <3>2 DEF SlotsCounted
  <2>8. Calls'
    BY <1>0, <2>2, <2>3, <2>4, <2>5, <2>7 DEF Calls
  <2>9. RefreshesUnderLease'
    <3> SUFFICES ASSUME NEW t \in Thread, call'[t].pc \in RefreshPc, ~call'[t].late
                 PROVE  lease' = call'[t].p
      BY DEF RefreshesUnderLease
    <3>1. call[t].p # p /\ call'[t] = call[t]
      BY <2>2, <2>3, Places
    <3>2. lease = call[t].p
      BY <1>0, <3>1 DEF RefreshesUnderLease
    <3> QED
      BY <2>1, <3>1, <3>2 DEF Crash
  <2>10. Rows' /\ Clients'
    BY <1>0, <2>1, <2>2 DEF Crash, Rows, Clients
  <2> QED
    BY <2>8, <2>9, <2>10 DEF LeaseInv
<1>5. ASSUME NEW t \in Thread, GiveUp(t)
      PROVE  LeaseInv'
  <2>1. PICK p \in Proc : p = call[t].p
    BY <1>0, <1>5 DEF Calls, GiveUp
  <2>2. Stop(t) /\ slots' = slots /\ lease' = lease /\ call[t].pc \notin SlotPc
    BY <1>5, Places DEF GiveUp
  <2>3. Calls' /\ RefreshesUnderLease'
    BY <1>0, <2>2, Stopping, NoRefresh, IdleRests
  <2>4. Rows' /\ Clients'
    BY <1>0, <1>5, <2>1 DEF GiveUp, Probed, Rows, Clients
  <2> QED
    BY <2>3, <2>4 DEF LeaseInv
<1>6. ASSUME NEW t \in Thread, After(t)
      PROVE  LeaseInv'
  <2>1. t \in Caller /\ call[t].pc \in SlotPc /\ Leave(t, TRUE)
    BY <1>0, <1>6, Places DEF After, Calls, Roles, UserPc
  <2>2. Calls' /\ Turn(t, Idle) /\ status' \in [Proc -> {"down", "starting", "up", "disabled"}]
    BY <1>0, <2>1, Leaving
  <2>3. RefreshesUnderLease'
    BY <1>0, <1>6, <2>2, NoRefresh, IdleRests DEF After
  <2>4. Rows' /\ Clients'
    BY <1>0, <1>6, <2>2 DEF After, Rows, Clients
  <2> QED
    BY <2>2, <2>3, <2>4 DEF LeaseInv
<1>7. ASSUME NEW t \in Thread, ReadLock(t)
      PROVE  LeaseInv'
  <2>1. t \in Caller /\ call[t].pc \notin SlotPc /\ slots' = slots /\ lease' = lease
    BY <1>0, <1>7, Places DEF ReadLock, Calls, Roles, UserPc
  <2>2. Rows' /\ Clients'
    BY <1>0, <1>7 DEF ReadLock, Rows, Clients
  <2>3. CASE Stop(t)
    <3>1. Calls' /\ RefreshesUnderLease'
      BY <1>0, <2>1, <2>3, Stopping, NoRefresh, IdleRests
    <3> QED
      BY <2>2, <3>1 DEF LeaseInv
  <2>4. CASE Go(t, "slot")
    <3>1. PICK r \in Call : Turn(t, r) /\ r.pc = "slot" /\ r.p = call[t].p /\ r.late = call[t].late
      <4>1. "slot" \in CallPc
        BY DEF CallPc
      <4> QED
        BY <1>0, <2>4, <4>1, Going
    <3>2. r.pc \notin SlotPc \cup FreshPc \cup UpdatePc \cup RefreshPc
      BY <3>1, Places
    <3>3. Roles' /\ Locks'
      BY <1>0, <1>7, <2>1, <3>1, <3>2, LockStep DEF Calls, CallerPc, ReadLock
    <3>4. SlotsCounted'
      BY <1>0, <2>1, <3>1, <3>2, SlotsKept DEF Calls
    <3>5. call' \in [Thread -> Call] /\ \A u \in Thread : call'[u] = IF u = t THEN r ELSE call[u]
      BY <1>0, <3>1 DEF Calls, Turn
    <3>6. Calls'
      BY <1>0, <1>7, <2>1, <3>1, <3>3, <3>4, <3>5 DEF Calls, ReadLock
    <3>7. RefreshesUnderLease'
      BY <1>0, <2>1, <3>1, <3>2, NoRefresh
    <3> QED
      BY <2>2, <3>6, <3>7 DEF LeaseInv
  <2> QED
    BY <1>7, <2>3, <2>4 DEF ReadLock
<1>8. ASSUME NEW t \in Thread, TakeSlot(t)
      PROVE  LeaseInv'
  <2>1. t \in Caller /\ call[t].pc \notin SlotPc /\ lease' = lease /\ call[t].pc \in ReadPc
    BY <1>0, <1>8, Places DEF TakeSlot, Calls, Roles, UserPc, ReadPc
  <2>2. PICK r \in Call : Turn(t, r) /\ r.pc = "mutex" /\ r.p = call[t].p /\ r.late = call[t].late
    <3>1. "mutex" \in CallPc
      BY DEF CallPc, SlotPc
    <3> QED
      BY <1>0, <1>8, <3>1, Going DEF TakeSlot
  <2>3. r.pc \in SlotPc /\ r.pc \notin FreshPc \cup UpdatePc \cup RefreshPc /\ r.p \in Proc
    BY <1>0, <1>8, <2>2, Places DEF Calls, TakeSlot
  <2>4. Roles' /\ Locks'
    BY <1>0, <2>1, <2>2, <2>3, LockStep DEF Calls, CallerPc
  <2>5. SlotsCounted' /\ slots' \in [Proc -> 0..Slots]
    BY <1>0, <1>8, <2>1, <2>2, <2>3, SlotTaken DEF Calls, TakeSlot
  <2>6. call' \in [Thread -> Call] /\ \A u \in Thread : call'[u] = IF u = t THEN r ELSE call[u]
    BY <1>0, <2>2 DEF Calls, Turn
  <2>7. Calls'
    BY <1>0, <2>3, <2>4, <2>5, <2>6 DEF Calls
  <2>8. RefreshesUnderLease'
    BY <1>0, <2>1, <2>2, <2>3, NoRefresh
  <2>9. Rows' /\ Clients'
    BY <1>0, <1>8 DEF TakeSlot, Rows, Clients
  <2> QED
    BY <2>7, <2>8, <2>9 DEF LeaseInv
<1>9. ASSUME NEW t \in Thread, Announce(t) \/ WriteLock(t)
      PROVE  LeaseInv'
  <2>1. t \in User /\ slots' = slots /\ lease' = lease
    BY <1>0, <1>9, Places DEF Announce, WriteLock, Calls, Roles, CallerPc
  <2>2. PICK r \in Call : /\ Turn(t, r) /\ r.p = call[t].p
                         /\ r.pc = IF Announce(t) THEN "drain" ELSE "tokens"
    <3>1. "drain" \in CallPc /\ "tokens" \in CallPc
      BY DEF CallPc, UpdatePc
    <3> QED
      BY <1>0, <1>9, <3>1, Going DEF Announce, WriteLock
  <2>3. r.pc \in WritePc /\ r.pc \notin RefreshPc
    BY <2>2, Places DEF WritePc
  <2>4. Roles' /\ Locks'
    BY <1>0, <1>9, <2>1, <2>2, <2>3, Places, LockStep DEF Calls, UserPc, WritePc, Announce, WriteLock
  <2>5. SlotsCounted'
    BY <1>0, <2>1, <2>2, SlotsKept DEF Calls
  <2>6. call' \in [Thread -> Call] /\ \A u \in Thread : call'[u] = IF u = t THEN r ELSE call[u]
    BY <1>0, <2>2 DEF Calls, Turn
  <2>7. Calls'
    BY <1>0, <1>9, <2>1, <2>2, <2>4, <2>5, <2>6 DEF Calls, Announce, WriteLock
  <2>8. RefreshesUnderLease'
    BY <1>0, <2>1, <2>2, <2>3, NoRefresh
  <2>9. Rows' /\ Clients'
    BY <1>0, <1>9 DEF Announce, WriteLock, Rows, Clients
  <2> QED
    BY <2>7, <2>8, <2>9 DEF LeaseInv
<1> QED
  BY <1>1, <1>2, <1>3, <1>4, <1>5, <1>6, <1>7, <1>8, <1>9

\* What a step of ensureFresh or of an update leaves when t goes on with it.
LEMMA Refreshing ==
  ASSUME Rows, Clients, Calls, RefreshesUnderLease, NEW t \in Thread, NEW r \in Call,
         Turn(t, r), r.p = call[t].p, r.late = call[t].late,
         \/ t \in User /\ call[t].pc \in UpdatePc /\ r.pc \in UpdatePc
         \/ call[t].pc \in FreshPc /\ r.pc \in FreshPc,
         \/ lease' = lease /\ (r.pc \in RefreshPc => call[t].pc \in RefreshPc)
         \/ lease \in {"none", call[t].p} /\ lease' = call[t].p
         \/ lease \in {"none", call[t].p} /\ lease' = "none" /\ r.pc \notin RefreshPc,
         UNCHANGED procVars
  PROVE  Clients' /\ Calls' /\ RefreshesUnderLease'
<1>1. Clients' /\ slots' = slots
  BY DEF Clients, procVars
<1>2. Calls'
  BY <1>1, Advancing
<1>3. call[t].pc \in RefreshPc => call[t].late \/ lease = call[t].p
  BY DEF RefreshesUnderLease
<1>4. call[t].pc \in MutexPc
  BY Places DEF MutexPc
<1>5. RefreshesUnderLease'
  <2>1. r.pc \in RefreshPc => r.late \/ lease' = r.p
    BY <1>3
  <2>2. \/ lease' = lease
        \/ /\ call[t].pc \in MutexPc
           /\ lease \in {"none", call[t].p} /\ lease' \in {"none", call[t].p}
    BY <1>4
  <2> QED
    BY <2>1, <2>2, LeaseStep DEF Calls
<1> QED
  BY <1>1, <1>2, <1>5

\* ... and when ensureFresh returns.
LEMMA Returning ==
  ASSUME Rows, Clients, Calls, RefreshesUnderLease,
         NEW t \in Thread, NEW ok \in BOOLEAN, NEW c \in Credential, Exit(t, ok, c),
         \/ t \in User /\ call[t].pc \in UpdatePc
         \/ call[t].pc \in {"mutex"} \cup FreshPc,
         \/ lease' = lease
         \/ call[t].pc \in FreshPc /\ lease \in {"none", call[t].p} /\ lease' \in {"none", call[t].p}
  PROVE  Clients' /\ Calls' /\ RefreshesUnderLease'
<1>1. Clients' /\ Calls'
  BY Exiting
<1>2. PICK r \in Call : Turn(t, r) /\ r.pc \notin RefreshPc
  BY Exiting
<1>3. \/ lease' = lease
      \/ /\ call[t].pc \in MutexPc
         /\ lease \in {"none", call[t].p} /\ lease' \in {"none", call[t].p}
  BY DEF MutexPc
<1>4. RefreshesUnderLease'
  BY <1>2, <1>3, LeaseStep DEF Calls
<1> QED
  BY <1>1, <1>4

LEMMA Pcs == SlotPc \cup UpdatePc \cup FreshPc \subseteq CallPc
BY Places DEF CallPc

\* The steps of ensureFresh keep the invariant.
LEMMA FreshStep ==
  ASSUME LeaseInv, NEW t \in Thread, Check(t) \/ EnsureFresh(t)
  PROVE  LeaseInv'
<1>0. Rows /\ Clients /\ Calls /\ RefreshesUnderLease /\ Caller \cap User = {}
  BY LeaseAssumption DEF LeaseInv
<1> USE DEF remoteVars
<1>a. /\ call[t] \in Call /\ call[t].cur \in Credential /\ call[t].cur.refresh \in Pair
      /\ cred \in Credential /\ issued \in Pair
  BY <1>0, CallTypes DEF Calls, Call, Rows
<1>b. \A k \in Pair, e \in {"nil", "time", "past"} : Both(k, e) \in Credential
  BY CallTypes
<1>c. RefreshPc \subseteq FreshPc /\ FreshPc \subseteq CallPc /\ FreshPc \subseteq UpdatePc
  BY Places, Pcs
<1>d. /\ {"send", "answered", "failed", "save", "release", "undo"} \subseteq RefreshPc
      /\ {"acquire", "poll"} \subseteq FreshPc \ RefreshPc
  BY Places
<1>1. CASE Check(t)
  <2>1. t \in Caller /\ call[t].pc = "mutex" /\ call[t].p \in Proc /\ lease' = lease
    BY <1>0, <1>1, Places DEF Check, Calls, Roles, UserPc
  <2>2. mem[call[t].p] \in Credential
    BY <1>0, <2>1 DEF Clients
  <2>3. Rows'
    BY <1>0, <1>1 DEF Check, Rows
  <2>4. CASE Exit(t, TRUE, mem[call[t].p])
    <3>1. Clients' /\ Calls' /\ RefreshesUnderLease'
      BY <1>0, <2>1, <2>2, <2>4, Returning
    <3> QED
      BY <2>3, <3>1 DEF LeaseInv
  <2>5. CASE /\ call' = [call EXCEPT ![t] = [@ EXCEPT !.pc = "acquire", !.cur = mem[call[t].p]]]
             /\ UNCHANGED procVars
    <3>1. PICK r \in Call : Turn(t, r) /\ r.pc = "acquire" /\ r.p = call[t].p /\ r.late = call[t].late
      <4> DEFINE c == mem[call[t].p]
      <4>1. "acquire" \in CallPc /\ c \in Credential
        BY <1>c, <1>d, <2>2
      <4>2. call' = [call EXCEPT ![t] = [@ EXCEPT !.pc = "acquire", !.cur = c]]
        BY <2>5
      <4> HIDE DEF c
      <4> QED
        BY <1>0, <4>1, <4>2, GoingWith
    <3>2. /\ r.pc \in FreshPc \cap SlotPc /\ r.pc \notin RefreshPc /\ r.pc \in CallerPc
          /\ call[t].pc \in SlotPc \cap ReadPc
      BY <2>1, <3>1, Places DEF CallerPc, ReadPc
    <3>3. RefreshMuFree(r.p)
      BY <1>1, <3>1 DEF Check
    <3>4. Roles' /\ Locks'
      BY <1>0, <2>1, <3>1, <3>2, <3>3, LockStep DEF Calls
    <3>5. SlotsCounted' /\ slots' = slots
      BY <1>0, <2>1, <2>5, <3>1, <3>2, SlotsKept DEF Calls, procVars
    <3>6. call' \in [Thread -> Call] /\ \A u \in Thread : call'[u] = IF u = t THEN r ELSE call[u]
      BY <1>0, <3>1 DEF Calls, Turn
    <3>7. Calls'
      BY <1>0, <2>1, <3>1, <3>4, <3>5, <3>6 DEF Calls
    <3>8. RefreshesUnderLease' /\ Clients'
      BY <1>0, <2>1, <2>5, <3>1, <3>2, NoRefresh DEF Clients, procVars
    <3> QED
      BY <2>3, <3>7, <3>8 DEF LeaseInv
  <2> QED
    BY <1>1, <2>4, <2>5 DEF Check
<1>2. CASE Acquire(t)
  <2>1. call[t].pc = "acquire" /\ call[t].pc \in FreshPc
    BY <1>2, <1>d DEF Acquire
  <2>2. Rows'
    BY <1>0, <1>2, <2>1, Places DEF Acquire, Rows, Calls
  <2>3. CASE Grants(call[t].p) /\ lease' = call[t].p /\ Go(t, "send") /\ UNCHANGED procVars
    <3>1. PICK r \in Call : Turn(t, r) /\ r.pc = "send" /\ r.p = call[t].p /\ r.late = call[t].late
      BY <1>0, <1>c, <1>d, <2>3, Going
    <3>2. Clients' /\ Calls' /\ RefreshesUnderLease'
      BY <1>0, <1>c, <1>d, <2>1, <2>3, <3>1, Refreshing DEF Grants
    <3> QED
      BY <2>2, <3>2 DEF LeaseInv
  <2>4. CASE Go(t, "poll") /\ UNCHANGED <<lease, procVars>>
    <3>1. PICK r \in Call : Turn(t, r) /\ r.pc = "poll" /\ r.p = call[t].p /\ r.late = call[t].late
      BY <1>0, <1>c, <1>d, <2>4, Going
    <3>2. Clients' /\ Calls' /\ RefreshesUnderLease'
      BY <1>0, <1>c, <1>d, <2>1, <2>4, <3>1, Refreshing
    <3> QED
      BY <2>2, <3>2 DEF LeaseInv
  <2>5. CASE Exit(t, FALSE, call[t].cur) /\ UNCHANGED lease
    <3>1. Clients' /\ Calls' /\ RefreshesUnderLease'
      BY <1>0, <1>a, <2>1, <2>5, Returning
    <3> QED
      BY <2>2, <3>1 DEF LeaseInv
  <2> QED
    BY <1>2, <2>3, <2>4, <2>5 DEF Acquire
<1>3. CASE Poll(t)
  <2>1. call[t].pc \in FreshPc /\ lease' = lease
    BY <1>3, <1>d DEF Poll
  <2>2. Rows'
    BY <1>0, <1>3 DEF Poll, Rows
  <2>3. \E ok \in BOOLEAN, c \in Credential : Exit(t, ok, c)
    BY <1>3, <1>a DEF Poll
  <2>4. Clients' /\ Calls' /\ RefreshesUnderLease'
    BY <1>0, <2>1, <2>3, Returning
  <2> QED
    BY <2>2, <2>4 DEF LeaseInv
<1>4. CASE Send(t)
  <2>1. call[t].pc \in RefreshPc /\ lease' = lease /\ UNCHANGED procVars
    BY <1>4, <1>d DEF Send
  <2>2. Rows'
    BY <1>0, <1>4, <1>a, LeaseAssumption DEF Send, Rows, Pair
  <2>3. \E r \in Call : /\ Turn(t, r) /\ r.p = call[t].p /\ r.late = call[t].late
                      /\ r.pc \in RefreshPc
    <3>1. CASE Go(t, "failed")
      BY <1>0, <1>c, <1>d, <3>1, Going
    <3>2. CASE /\ issued < MaxPair
               /\ call' = [call EXCEPT ![t] = [@ EXCEPT !.pc = IF Reports(t) THEN "answered" ELSE "save",
                                                       !.cur.refresh = issued + 1]]
      <4> DEFINE c == [call[t].cur EXCEPT !.refresh = issued + 1]
                 pc == IF Reports(t) THEN "answered" ELSE "save"
      <4>1. c \in Credential
        <5>1. issued + 1 \in Pair
          BY <1>a, <3>2, LeaseAssumption DEF Pair
        <5> QED
          BY <1>a, <5>1 DEF Credential
      <4>2. call' = [call EXCEPT ![t] = [@ EXCEPT !.pc = pc, !.cur = c]]
        BY <3>2
      <4>3. pc \in RefreshPc
        BY <1>d
      <4> HIDE DEF c, pc
      <4> QED
        BY <1>0, <1>c, <4>1, <4>2, <4>3, GoingWith
    <3> QED
      BY <1>4, <3>1, <3>2 DEF Send
  <2>4. Clients' /\ Calls' /\ RefreshesUnderLease'
    BY <1>0, <1>c, <2>1, <2>3, Refreshing
  <2> QED
    BY <2>2, <2>4 DEF LeaseInv
<1>5. CASE Callback(t)
  <2>1. call[t].pc \in RefreshPc /\ lease' = lease /\ UNCHANGED procVars
    BY <1>5, <1>d DEF Callback
  <2>2. Both(call[t].cur.refresh, "nil") \in Credential
    BY <1>a, <1>b
  <2>3. Rows'
    BY <1>0, <1>5, <2>2 DEF Callback, Rows
  <2>4. \E r \in Call : Turn(t, r) /\ r.p = call[t].p /\ r.late = call[t].late /\ r.pc = "save"
    <3> DEFINE c == Both(call[t].cur.refresh, "nil")
    <3>1. "save" \in CallPc /\ c \in Credential
      BY <1>c, <1>d, <2>2
    <3>2. call' = [call EXCEPT ![t] = [@ EXCEPT !.pc = "save", !.cur = c]]
      BY <1>5 DEF Callback
    <3> HIDE DEF c
    <3> QED
      BY <1>0, <3>1, <3>2, GoingWith
  <2>5. Clients' /\ Calls' /\ RefreshesUnderLease'
    BY <1>0, <1>c, <1>d, <2>1, <2>4, Refreshing
  <2> QED
    BY <2>3, <2>5 DEF LeaseInv
<1>6. CASE Save(t)
  <2>1. call[t].pc \in RefreshPc /\ lease' = lease /\ UNCHANGED procVars
    BY <1>6, <1>d DEF Save
  <2>2. Both(call[t].cur.refresh, "time") \in Credential
    BY <1>a, <1>b
  <2>3. Rows'
    BY <1>0, <1>6, <2>2 DEF Save, Rows
  <2>4. \E r \in Call : Turn(t, r) /\ r.p = call[t].p /\ r.late = call[t].late /\ r.pc \in RefreshPc
    <3>1. CASE Go(t, "undo")
      BY <1>0, <1>c, <1>d, <3>1, Going
    <3>2. CASE call' = [call EXCEPT ![t] = [@ EXCEPT !.pc = "release", !.cur = Both(call[t].cur.refresh, "time")]]
      <4> DEFINE c == Both(call[t].cur.refresh, "time")
      <4>1. "release" \in CallPc /\ c \in Credential
        BY <1>c, <1>d, <2>2
      <4>2. call' = [call EXCEPT ![t] = [@ EXCEPT !.pc = "release", !.cur = c]]
        BY <3>2
      <4> HIDE DEF c
      <4>3. \E r \in Call : Turn(t, r) /\ r.pc = "release" /\ r.p = call[t].p /\ r.late = call[t].late
        BY <1>0, <4>1, <4>2, GoingWith
      <4> QED
        BY <1>d, <4>3
    <3> QED
      BY <1>6, <3>1, <3>2 DEF Save
  <2>5. Clients' /\ Calls' /\ RefreshesUnderLease'
    BY <1>0, <1>c, <2>1, <2>4, Refreshing
  <2> QED
    BY <2>3, <2>5 DEF LeaseInv
<1>7. CASE Cool(t)
  <2>1. call[t].pc \in RefreshPc /\ call[t].p \in Proc
    BY <1>0, <1>7, <1>d, Places DEF Cool, Calls
  <2>2. Rows'
    BY <1>0, <1>7, <2>1 DEF Cool, Rows
  <2>3. CASE Grants(call[t].p) /\ lease' = call[t].p /\ Exit(t, FALSE, call[t].cur)
    <3>1. Clients' /\ Calls' /\ RefreshesUnderLease'
      BY <1>0, <1>a, <1>c, <2>1, <2>3, Returning DEF Grants
    <3> QED
      BY <2>2, <3>1 DEF LeaseInv
  <2>4. CASE Go(t, "undo") /\ UNCHANGED <<lease, procVars>>
    <3>1. PICK r \in Call : Turn(t, r) /\ r.pc = "undo" /\ r.p = call[t].p /\ r.late = call[t].late
      BY <1>0, <1>c, <1>d, <2>4, Going
    <3>2. Clients' /\ Calls' /\ RefreshesUnderLease'
      BY <1>0, <1>c, <1>d, <2>1, <2>4, <3>1, Refreshing
    <3> QED
      BY <2>2, <3>2 DEF LeaseInv
  <2> QED
    BY <1>7, <2>3, <2>4 DEF Cool
<1>8. CASE Release(t)
  <2>1. call[t].pc \in FreshPc /\ call[t].p \in Proc
    BY <1>0, <1>8, <1>c, <1>d, Places DEF Release, Calls
  <2>2. Rows'
    BY <1>0, <1>8, <2>1 DEF Release, Released, Rows
  <2>3. \E ok \in BOOLEAN : Exit(t, ok, call[t].cur)
    BY <1>8 DEF Release
  <2>4. lease' = lease \/ (lease = call[t].p /\ lease' = "none")
    BY <1>8 DEF Release, Released
  <2>5. Clients' /\ Calls' /\ RefreshesUnderLease'
    BY <1>0, <1>a, <2>1, <2>3, <2>4, Returning
  <2> QED
    BY <2>2, <2>5 DEF LeaseInv
<1> QED
  BY <1>1, <1>2, <1>3, <1>4, <1>5, <1>6, <1>7, <1>8 DEF EnsureFresh

\* The steps of an update keep the invariant.
LEMMA UpdateStep ==
  ASSUME LeaseInv, NEW t \in Thread, Update(t)
  PROVE  LeaseInv'
<1>0. Rows /\ Clients /\ Calls /\ RefreshesUnderLease /\ Caller \cap User = {}
  BY LeaseAssumption DEF LeaseInv
<1> USE DEF remoteVars
<1>a. call[t] \in Call /\ call[t].cur \in Credential /\ cred \in Credential
  BY <1>0 DEF Calls, Call, Rows
<1>b. /\ {"tokens", "store", "judge", "keep", "expire", "giveback"} \subseteq UpdatePc \ FreshPc
      /\ {"acquire"} \subseteq UpdatePc \ RefreshPc /\ UpdatePc \subseteq CallPc /\ RefreshPc \subseteq FreshPc
  BY Places, Pcs
<1>c. t \in User /\ call[t].pc \in UpdatePc \ FreshPc
  <2>1. call[t].pc \in {"tokens", "store", "judge", "keep", "expire", "giveback"}
    BY DEF Update, Tokens, Store, Judge, Keep, Expire, GiveBack
  <2> QED
    BY <1>0, <1>b, <2>1, Places DEF Calls, Roles, CallerPc
<1>d. ASSUME Stop(t), UNCHANGED <<lease, procVars>>
      PROVE  Clients' /\ Calls' /\ RefreshesUnderLease'
  <2>1. Calls' /\ Turn(t, Idle)
    BY <1>0, <1>c, <1>d, Stopping DEF procVars
  <2>2. RefreshesUnderLease'
    BY <1>0, <1>d, <2>1, NoRefresh, IdleRests
  <2> QED
    BY <1>0, <1>d, <2>1, <2>2 DEF Clients, procVars
<1>e. ASSUME NEW r \in Call, Turn(t, r), r.p = call[t].p, r.late = call[t].late,
             r.pc \in UpdatePc \ RefreshPc, UNCHANGED <<lease, procVars>>
      PROVE  Clients' /\ Calls' /\ RefreshesUnderLease'
  BY <1>0, <1>c, <1>e, Refreshing
<1>f. ASSUME NEW pc \in UpdatePc \ RefreshPc, Go(t, pc), UNCHANGED <<lease, procVars>>
      PROVE  Clients' /\ Calls' /\ RefreshesUnderLease'
  <2>1. PICK r \in Call : Turn(t, r) /\ r.pc = pc /\ r.p = call[t].p /\ r.late = call[t].late
    BY <1>0, <1>b, <1>f, Going
  <2> QED
    BY <1>e, <1>f, <2>1
<1>g. ASSUME Exit(t, TRUE, call[t].cur), UNCHANGED lease
      PROVE  Clients' /\ Calls' /\ RefreshesUnderLease'
  BY <1>0, <1>a, <1>c, <1>g, Returning
<1>h. \A new, c : Verdict(new, c) \subseteq UpdatePc \ RefreshPc
  BY <1>b DEF Verdict
<1>1. ASSUME NEW k \in Pair, NEW sub \in SUBSET {"access", "refresh"}, Tokens(t, k, sub)
      PROVE  LeaseInv'
  <2> DEFINE new  == {f \in sub : cred[f] # k}
             cand == [access  |-> IF "access" \in new THEN k ELSE cred.access,
                      refresh |-> IF "refresh" \in new THEN k ELSE cred.refresh,
                      exp     |-> IF "access" \in new THEN "nil" ELSE cred.exp]
  <2>1. cand \in Credential /\ new \in SUBSET {"access", "refresh"}
    BY <1>a DEF Credential
  <2>2. Rows'
    BY <1>0, <1>1 DEF Tokens, Rows
  <2>3. UNCHANGED <<lease, procVars>>
    BY <1>1 DEF Tokens
  <2>4. \/ Stop(t)
        \/ \E pc \in IF "access" \in new THEN {"store"} ELSE Verdict(new, cand) :
             call' = [call EXCEPT ![t] = [@ EXCEPT !.pc = pc, !.new = new, !.cur = cand]]
    BY <1>1 DEF Tokens
  <2> HIDE DEF new, cand
  <2>5. ASSUME NEW pc \in UpdatePc \ RefreshPc,
               call' = [call EXCEPT ![t] = [@ EXCEPT !.pc = pc, !.new = new, !.cur = cand]]
        PROVE  Clients' /\ Calls' /\ RefreshesUnderLease'
    <3> DEFINE r == [call[t] EXCEPT !.pc = pc, !.new = new, !.cur = cand]
    <3>1. r \in Call /\ r.pc = pc /\ r.p = call[t].p /\ r.late = call[t].late
      BY <1>a, <1>b, <2>1 DEF Call
    <3>2. Turn(t, r)
      BY <2>5 DEF Turn
    <3> HIDE DEF r
    <3> QED
      BY <1>e, <2>3, <3>1, <3>2
  <2>6. Clients' /\ Calls' /\ RefreshesUnderLease'
    BY <1>b, <1>d, <1>h, <2>3, <2>4, <2>5
  <2> QED
    BY <2>2, <2>6 DEF LeaseInv
<1>2. CASE Store(t)
  <2>1. Rows' /\ UNCHANGED <<lease, procVars>>
    BY <1>0, <1>2, <1>a DEF Store, Rows
  <2>2. Stop(t) \/ \E pc \in UpdatePc \ RefreshPc : Go(t, pc)
    BY <1>2, <1>h DEF Store
  <2> QED
    BY <1>d, <1>f, <2>1, <2>2 DEF LeaseInv
<1>3. CASE Judge(t)
  <2>1. Rows' /\ UNCHANGED lease
    BY <1>0, <1>3 DEF Judge, Rows
  <2>2. \/ Stop(t) /\ UNCHANGED procVars
        \/ Exit(t, TRUE, call[t].cur)
        \/ \E pc \in UpdatePc \ RefreshPc : Go(t, pc) /\ UNCHANGED procVars
    BY <1>3, <1>b DEF Judge
  <2> QED
    BY <1>d, <1>f, <1>g, <2>1, <2>2 DEF LeaseInv
<1>4. CASE Keep(t)
  <2>1. Rows' /\ UNCHANGED lease
    BY <1>0, <1>4, <1>a DEF Keep, Rows
  <2>2. (Stop(t) /\ UNCHANGED procVars) \/ Exit(t, TRUE, call[t].cur)
    BY <1>4 DEF Keep
  <2> QED
    BY <1>d, <1>g, <2>1, <2>2 DEF LeaseInv
<1>5. CASE Expire(t)
  <2>1. [call[t].cur EXCEPT !.exp = "past"] \in Credential
    BY <1>a, CallTypes
  <2>2. Rows' /\ UNCHANGED <<lease, procVars>>
    BY <1>0, <1>5, <2>1 DEF Expire, Rows
  <2>3. CASE Stop(t)
    BY <1>d, <2>2, <2>3 DEF LeaseInv
  <2>4. CASE call' = [call EXCEPT ![t] = [@ EXCEPT !.pc = "giveback", !.cur = cred', !.new = {}]]
    <3> DEFINE r == [call[t] EXCEPT !.pc = "giveback", !.cur = cred', !.new = {}]
    <3>1. cred' \in Credential /\ "giveback" \in CallPc
      BY <1>b, <2>2 DEF Rows
    <3>2. r \in Call /\ r.pc = "giveback" /\ r.p = call[t].p /\ r.late = call[t].late
      BY <1>a, <3>1 DEF Call
    <3>3. Turn(t, r) /\ "giveback" \in UpdatePc \ RefreshPc
      BY <1>b, <2>4 DEF Turn
    <3> HIDE DEF r
    <3> QED
      BY <1>e, <2>2, <3>2, <3>3 DEF LeaseInv
  <2> QED
    BY <1>5, <2>3, <2>4 DEF Expire
<1>6. CASE GiveBack(t)
  <2>1. call[t].p \in Proc /\ "acquire" \in CallPc /\ Go(t, "acquire") /\ UNCHANGED procVars
    BY <1>0, <1>6, <1>b DEF GiveBack, Calls
  <2>2. Rows'
    BY <1>0, <1>6, <2>1 DEF GiveBack, Released, Rows
  <2>3. lease' = lease \/ (lease = call[t].p /\ lease' = "none")
    BY <1>6 DEF GiveBack, Released
  <2>4. PICK r \in Call : Turn(t, r) /\ r.pc = "acquire" /\ r.p = call[t].p /\ r.late = call[t].late
    BY <1>0, <2>1, Going
  <2>5. Clients' /\ Calls' /\ RefreshesUnderLease'
    BY <1>0, <1>b, <1>c, <2>1, <2>3, <2>4, Refreshing
  <2> QED
    BY <2>2, <2>5 DEF LeaseInv
<1> QED
  BY <1>1, <1>2, <1>3, <1>4, <1>5, <1>6 DEF Update

----------------------------------------------------------------------------
\* LeaseInv holds in every reachable state: what ensureFresh and UpdateTokens
\* rely on when one has returned and the other begins.
THEOREM LeaseInvariant == Spec => []LeaseInv
<1>1. ASSUME LeaseInv, [Next]_vars
      PROVE  LeaseInv'
  <2>1. CASE UNCHANGED vars
    <3>1. \A p \in Proc : Holders(p)' = Holders(p)
      BY <2>1 DEF vars, Holders, Of
    <3> QED
      BY <1>1, <2>1, <3>1 DEF LeaseInv, Rows, Clients, Calls, Roles, Locks, Together, SlotsCounted,
                              RefreshesUnderLease, vars
  <2>2. CASE Next
    BY <1>1, <2>2, OutsideStep, FreshStep, UpdateStep DEF Next, Run, Wait
  <2> QED
    BY <1>1, <2>1, <2>2
<1> QED
  BY <1>1, Initially, PTL DEF Spec

\* Every variable of the model keeps its type: a slot is never given back twice
\* nor taken above the limiter's capacity.
THEOREM LeaseTypesHold == Spec => []LeaseTypeOK
<1>1. LeaseInv => LeaseTypeOK
  BY DEF LeaseInv, Rows, Clients, Calls, LeaseTypeOK
<1> QED
  BY <1>1, LeaseInvariant, PTL

\* The limiter counts the calls that hold a slot, however a call ends.
THEOREM SlotsAreCounted == Spec => []SlotsCounted
<1>1. LeaseInv => SlotsCounted
  BY DEF LeaseInv, Calls
<1> QED
  BY <1>1, LeaseInvariant, PTL

\* A refresh that has not outlived its lease is under the lease.
THEOREM RefreshesAreLeased == Spec => []RefreshesUnderLease
<1>1. LeaseInv => RefreshesUnderLease
  BY DEF LeaseInv
<1> QED
  BY <1>1, LeaseInvariant, PTL

\* Among all processes, one goroutine refreshes at a time: processes are kept
\* apart by the lease, goroutines of one process by refreshMu and requestMu.
THEOREM OnlyOneRefreshes == Spec => []OneRefresher
<1>1. LeaseInv => OneRefresher
  <2> SUFFICES ASSUME LeaseInv, NEW t \in Thread, NEW u \in Thread, t # u,
                      call[t].pc \in RefreshPc, call[u].pc \in RefreshPc,
                      ~call[t].late, ~call[u].late
               PROVE  FALSE
    BY DEF OneRefresher
  <2>1. Together(t, u) /\ Together(u, t)
    BY DEF LeaseInv, RefreshesUnderLease, Together
  <2>2. /\ call[t].pc \in FreshPc \cap UpdatePc /\ call[u].pc \in FreshPc \cap UpdatePc
        /\ UpdatePc \subseteq WritePc /\ FreshPc \subseteq ReadPc
    BY Places DEF WritePc, ReadPc
  <2>3. Locks
    BY DEF LeaseInv, Calls
  <2> QED
    BY <2>1, <2>2, <2>3 DEF Locks
<1> QED
  BY <1>1, LeaseInvariant, PTL
----------------------------------------------------------------------------
(* The lease service.  Every step of a goroutine is one of four kinds for  *)
(* the lease: it has nothing to do with a refresh, or a refresh begins,    *)
(* goes on or ends.                                                        *)

Outside(t, r) ==
  /\ call[t].pc \notin RefreshPc /\ r.pc \notin RefreshPc /\ (r.late => call[t].late)
  /\ \/ lease' = lease
     \/ call[t].pc \in MutexPc /\ lease = call[t].p /\ lease' = "none"
Starts(t, r) ==
  /\ call[t].pc \in FreshPc \ RefreshPc /\ r.pc \in RefreshPc
  /\ r.p = call[t].p /\ r.late = call[t].late
  /\ Grants(r.p) /\ lease' = r.p
GoesOn(t, r) ==
  /\ call[t].pc \in RefreshPc /\ r.pc \in RefreshPc
  /\ r.p = call[t].p /\ r.late = call[t].late /\ lease' = lease
Ends(t, r) ==
  /\ call[t].pc \in RefreshPc /\ r.pc \notin RefreshPc /\ ~r.late
  /\ \/ lease' = lease
     \/ lease = call[t].p /\ lease' = "none"
     \/ Grants(call[t].p) /\ lease' = call[t].p

Kinds(t, r) == Outside(t, r) \/ Starts(t, r) \/ GoesOn(t, r) \/ Ends(t, r)

\* Who leaves ensureFresh, or ends, is not late any more.
LEMMA IdleIsFresh == Idle \in Call /\ Idle.pc \notin RefreshPc /\ ~Idle.late
BY IdleRests DEF Idle

LEMMA ExitTurn ==
  ASSUME Calls, NEW t \in Thread, call[t].pc # "idle", NEW ok, NEW c, Exit(t, ok, c)
  PROVE  \E r \in Call : Turn(t, r) /\ r.pc \notin RefreshPc /\ ~r.late
<1>1. CASE Stop(t)
  BY <1>1, IdleIsFresh DEF Stop, Turn
<1>2. CASE Begin(t, call[t].p, "api")
  <2> DEFINE r == [Idle EXCEPT !.pc = "api", !.p = call[t].p]
  <2>1. call[t].p \in Proc /\ "api" \in CallPc
    BY Places DEF Calls, CallPc
  <2>2. r \in Call /\ r.pc = "api" /\ ~r.late
    BY <2>1, IdleIsFresh, CallUpdates DEF Idle
  <2>3. Turn(t, r)
    BY <1>2 DEF Begin, Turn
  <2> HIDE DEF r
  <2> QED BY <2>2, <2>3, Places
<1> QED BY <1>1, <1>2 DEF Exit, Leave

\* The steps outside ensureFresh have nothing to do with a refresh.
LEMMA OutsideKind ==
  ASSUME LeaseInv,
         \/ \E t \in Caller, p \in Proc : Start(t, p) \/ BeginCall(t, p)
         \/ \E t \in User, p \in Proc : BeginUpdate(t, p)
         \/ \E t \in Thread : GiveUp(t) \/ After(t) \/ ReadLock(t) \/ TakeSlot(t) \/ Announce(t) \/ WriteLock(t)
  PROVE  \E t \in Thread, r \in Call : Turn(t, r) /\ Kinds(t, r)
<1>0. Calls
  BY DEF LeaseInv
<1>1. ASSUME NEW t \in Thread, NEW p \in Proc, NEW pc \in {"read", "write"}, call[t].pc = "idle",
             Begin(t, p, pc), lease' = lease
      PROVE  \E r \in Call : Turn(t, r) /\ Kinds(t, r)
  <2> DEFINE r == [Idle EXCEPT !.pc = pc, !.p = p]
  <2>1. pc \in CallPc
    BY DEF CallPc
  <2>2. r \in Call /\ r.pc = pc /\ ~r.late
    BY <2>1, IdleIsFresh, CallUpdates DEF Idle
  <2>3. Turn(t, r)
    BY <1>1 DEF Begin, Turn
  <2> HIDE DEF r
  <2>4. Outside(t, r)
    BY <1>1, <2>2, Places DEF Outside
  <2> QED BY <2>2, <2>3, <2>4 DEF Kinds
<1>2. ASSUME NEW t \in Thread, Stop(t), call[t].pc \notin RefreshPc, lease' = lease
      PROVE  \E r \in Call : Turn(t, r) /\ Kinds(t, r)
  BY <1>2, IdleIsFresh DEF Stop, Turn, Kinds, Outside
<1>3. ASSUME NEW t \in Thread, NEW pc \in CallPc \ RefreshPc, Go(t, pc),
             call[t].pc \notin RefreshPc, lease' = lease
      PROVE  \E r \in Call : Turn(t, r) /\ Kinds(t, r)
  <2>1. PICK r \in Call : Turn(t, r) /\ r.pc = pc /\ r.p = call[t].p /\ r.late = call[t].late
    BY <1>0, <1>3, Going
  <2> QED BY <1>3, <2>1 DEF Kinds, Outside
<1>4. {"slot", "mutex", "drain", "tokens"} \subseteq CallPc \ RefreshPc
  BY Places DEF CallPc
<1>5. CASE \/ \E t \in Caller, p \in Proc : Start(t, p) \/ BeginCall(t, p)
           \/ \E t \in User, p \in Proc : BeginUpdate(t, p)
  <2>1. \E t \in Thread, p \in Proc, pc \in {"read", "write"} :
          call[t].pc = "idle" /\ Begin(t, p, pc) /\ lease' = lease
    BY <1>5 DEF Start, BeginCall, BeginUpdate
  <2> QED BY <1>1, <2>1
<1>6. ASSUME NEW t \in Thread, GiveUp(t) \/ After(t)
      PROVE  \E r \in Call : Turn(t, r) /\ Kinds(t, r)
  <2>1. Stop(t) /\ call[t].pc \notin RefreshPc /\ lease' = lease
    BY <1>6, Places DEF GiveUp, After, Leave
  <2> QED BY <1>2, <2>1
<1>7. ASSUME NEW t \in Thread, ReadLock(t) \/ TakeSlot(t) \/ Announce(t) \/ WriteLock(t)
      PROVE  \E r \in Call : Turn(t, r) /\ Kinds(t, r)
  <2>1. /\ Stop(t) \/ \E pc \in {"slot", "mutex", "drain", "tokens"} : Go(t, pc)
        /\ call[t].pc \notin RefreshPc /\ lease' = lease
    BY <1>7, Places DEF ReadLock, TakeSlot, Announce, WriteLock
  <2> QED BY <1>2, <1>3, <1>4, <2>1
<1> QED BY <1>5, <1>6, <1>7

LEMMA FreshKind ==
  ASSUME LeaseInv, NEW t \in Thread, Check(t) \/ EnsureFresh(t)
  PROVE  \E r \in Call : Turn(t, r) /\ Kinds(t, r)
<1>0. Calls /\ Clients /\ Rows
  BY DEF LeaseInv
<1>a. /\ call[t] \in Call /\ call[t].cur \in Credential /\ issued \in Pair
      /\ \A k \in Pair, e \in {"nil", "time", "past"} : Both(k, e) \in Credential
      /\ call[t].cur.refresh \in Pair
  BY <1>0, CallTypes DEF Calls, Call, Rows
<1>b. /\ RefreshPc = {"send", "answered", "failed", "save", "release", "undo"}
      /\ {"acquire", "poll"} \subseteq FreshPc \ RefreshPc
      /\ RefreshPc \cup {"acquire", "poll"} \subseteq CallPc
  BY Places, Pcs
<1>e. ASSUME NEW ok, NEW c, Exit(t, ok, c), call[t].pc # "idle"
      PROVE  \E r \in Call : Turn(t, r) /\ r.pc \notin RefreshPc /\ ~r.late
  BY <1>0, <1>e, ExitTurn
<1>g. ASSUME NEW pc \in CallPc, Go(t, pc)
      PROVE  \E r \in Call : Turn(t, r) /\ r.pc = pc /\ r.p = call[t].p /\ r.late = call[t].late
  BY <1>0, <1>g, Going
\* A step within a refresh.
<1>w. ASSUME NEW pc \in RefreshPc, NEW c \in Credential, call[t].pc \in RefreshPc, lease' = lease,
             call' = [call EXCEPT ![t] = [@ EXCEPT !.pc = pc, !.cur = c]]
      PROVE  \E r \in Call : Turn(t, r) /\ Kinds(t, r)
  <2>0. pc \in CallPc
    BY <1>b
  <2>1. PICK r \in Call : Turn(t, r) /\ r.pc = pc /\ r.p = call[t].p /\ r.late = call[t].late
    BY <1>0, <1>w, <2>0, GoingWith
  <2> QED BY <1>w, <2>1 DEF Kinds, GoesOn
<1>x. ASSUME NEW pc \in RefreshPc, call[t].pc \in RefreshPc, lease' = lease, Go(t, pc)
      PROVE  \E r \in Call : Turn(t, r) /\ Kinds(t, r)
  <2>1. PICK r \in Call : Turn(t, r) /\ r.pc = pc /\ r.p = call[t].p /\ r.late = call[t].late
    BY <1>b, <1>g, <1>x
  <2> QED BY <1>x, <2>1 DEF Kinds, GoesOn
<1>1. CASE Check(t)
  <2>1. call[t].pc = "mutex" /\ lease' = lease /\ mem[call[t].p] \in Credential
    BY <1>0, <1>1 DEF Check, Calls, Clients
  <2>2. \E r \in Call : Turn(t, r) /\ r.pc \notin RefreshPc /\ (r.late => call[t].late)
    <3>1. CASE Exit(t, TRUE, mem[call[t].p])
      BY <1>e, <2>1, <3>1
    <3>2. CASE call' = [call EXCEPT ![t] = [@ EXCEPT !.pc = "acquire", !.cur = mem[call[t].p]]]
      <4> DEFINE c == mem[call[t].p]
      <4>1. c \in Credential /\ "acquire" \in CallPc
        BY <1>b, <2>1
      <4>2. call' = [call EXCEPT ![t] = [@ EXCEPT !.pc = "acquire", !.cur = c]]
        BY <3>2
      <4> HIDE DEF c
      <4>3. \E r \in Call : Turn(t, r) /\ r.pc = "acquire" /\ r.p = call[t].p /\ r.late = call[t].late
        BY <1>0, <4>1, <4>2, GoingWith
      <4> QED BY <1>b, <4>3
    <3> QED BY <1>1, <3>1, <3>2 DEF Check
  <2> QED BY <1>b, <2>1, <2>2 DEF Kinds, Outside
<1>2. CASE Acquire(t)
  <2>1. call[t].pc = "acquire"
    BY <1>2 DEF Acquire
  <2>2. CASE Grants(call[t].p) /\ lease' = call[t].p /\ Go(t, "send")
    BY <1>b, <1>g, <2>1, <2>2 DEF Kinds, Starts
  <2>3. CASE lease' = lease /\ (Go(t, "poll") \/ Exit(t, FALSE, call[t].cur))
    <3>1. \E r \in Call : Turn(t, r) /\ r.pc \notin RefreshPc /\ (r.late => call[t].late)
      <4>1. CASE Go(t, "poll")
        <5>1. \E r \in Call : Turn(t, r) /\ r.pc = "poll" /\ r.p = call[t].p /\ r.late = call[t].late
          BY <1>b, <1>g, <4>1
        <5> QED BY <1>b, <5>1
      <4>2. CASE Exit(t, FALSE, call[t].cur)
        BY <1>e, <2>1, <4>2
      <4> QED BY <2>3, <4>1, <4>2
    <3> QED BY <1>b, <2>1, <2>3, <3>1 DEF Kinds, Outside
  <2> QED BY <1>2, <2>2, <2>3 DEF Acquire
<1>3. CASE Poll(t)
  <2>1. call[t].pc = "poll" /\ lease' = lease
    BY <1>3 DEF Poll
  <2>2. \E r \in Call : Turn(t, r) /\ r.pc \notin RefreshPc /\ ~r.late
    BY <1>3, <1>e, <2>1 DEF Poll
  <2> QED BY <1>b, <2>1, <2>2 DEF Kinds, Outside
<1>4. CASE Send(t)
  <2>1. call[t].pc \in RefreshPc /\ lease' = lease
    BY <1>4, <1>b DEF Send
  <2>2. CASE Go(t, "failed")
    BY <1>b, <1>x, <2>1, <2>2
  <2>3. CASE /\ issued < MaxPair
             /\ call' = [call EXCEPT ![t] = [@ EXCEPT !.pc = IF Reports(t) THEN "answered" ELSE "save",
                                                     !.cur.refresh = issued + 1]]
    <3> DEFINE c == [call[t].cur EXCEPT !.refresh = issued + 1]
               pc == IF Reports(t) THEN "answered" ELSE "save"
    <3>1. c \in Credential
      <4>1. issued + 1 \in Pair
        BY <1>a, <2>3, LeaseAssumption DEF Pair
      <4> QED BY <1>a, <4>1 DEF Credential
    <3>2. call' = [call EXCEPT ![t] = [@ EXCEPT !.pc = pc, !.cur = c]]
      BY <2>3
    <3>3. pc \in RefreshPc
      BY <1>b
    <3> HIDE DEF c, pc
    <3> QED BY <1>w, <2>1, <3>1, <3>2, <3>3
  <2> QED BY <1>4, <2>2, <2>3 DEF Send
<1>5. CASE Callback(t)
  <2> DEFINE c == Both(call[t].cur.refresh, "nil")
  <2>1. c \in Credential /\ call[t].pc \in RefreshPc /\ lease' = lease /\ "save" \in RefreshPc
    BY <1>5, <1>a, <1>b DEF Callback
  <2>2. call' = [call EXCEPT ![t] = [@ EXCEPT !.pc = "save", !.cur = c]]
    BY <1>5 DEF Callback
  <2> HIDE DEF c
  <2> QED BY <1>w, <2>1, <2>2
<1>6. CASE Save(t)
  <2> DEFINE c == Both(call[t].cur.refresh, "time")
  <2>1. /\ c \in Credential /\ call[t].pc \in RefreshPc /\ lease' = lease
        /\ "release" \in RefreshPc /\ "undo" \in RefreshPc
    BY <1>6, <1>a, <1>b DEF Save
  <2>2. \/ Go(t, "undo")
        \/ call' = [call EXCEPT ![t] = [@ EXCEPT !.pc = "release", !.cur = c]]
    BY <1>6 DEF Save
  <2> HIDE DEF c
  <2> QED BY <1>w, <1>x, <2>1, <2>2
<1>7. CASE Cool(t)
  <2>1. call[t].pc = "failed" /\ "undo" \in RefreshPc
    BY <1>7, <1>b DEF Cool
  <2>2. CASE Grants(call[t].p) /\ lease' = call[t].p /\ Exit(t, FALSE, call[t].cur)
    <3>1. \E r \in Call : Turn(t, r) /\ r.pc \notin RefreshPc /\ ~r.late
      BY <1>e, <2>1, <2>2
    <3> QED BY <1>b, <2>1, <2>2, <3>1 DEF Kinds, Ends
  <2>3. CASE Go(t, "undo") /\ lease' = lease
    BY <1>b, <1>x, <2>1, <2>3
  <2> QED BY <1>7, <2>2, <2>3 DEF Cool
<1>8. CASE Release(t)
  <2>1. call[t].pc \in RefreshPc /\ call[t].pc # "idle"
    BY <1>8, <1>b DEF Release
  <2>2. lease' = lease \/ (lease = call[t].p /\ lease' = "none")
    BY <1>8 DEF Release, Released
  <2>3. \E r \in Call : Turn(t, r) /\ r.pc \notin RefreshPc /\ ~r.late
    BY <1>8, <1>e, <2>1 DEF Release
  <2> QED BY <2>1, <2>2, <2>3 DEF Kinds, Ends
<1> QED
  BY <1>1, <1>2, <1>3, <1>4, <1>5, <1>6, <1>7, <1>8 DEF EnsureFresh

LEMMA UpdateKind ==
  ASSUME LeaseInv, NEW t \in Thread, Update(t)
  PROVE  \E r \in Call : Turn(t, r) /\ Kinds(t, r)
<1>0. Calls /\ Rows
  BY DEF LeaseInv
<1>a. call[t] \in Call /\ call[t].cur \in Credential /\ cred \in Credential
  BY <1>0 DEF Calls, Call, Rows
<1>b. /\ {"tokens", "store", "judge", "keep", "expire", "giveback"} \subseteq MutexPc \ RefreshPc
      /\ {"store", "judge", "keep", "expire", "giveback", "acquire"} \subseteq CallPc \ RefreshPc
  BY Places, Pcs DEF MutexPc
<1>c. call[t].pc \in MutexPc \ RefreshPc /\ call[t].pc # "idle"
  <2>1. call[t].pc \in {"tokens", "store", "judge", "keep", "expire", "giveback"}
    BY DEF Update, Tokens, Store, Judge, Keep, Expire, GiveBack
  <2> QED BY <1>b, <2>1
<1> SUFFICES /\ \E r \in Call : Turn(t, r) /\ r.pc \notin RefreshPc /\ (r.late => call[t].late)
             /\ lease' = lease \/ (lease = call[t].p /\ lease' = "none")
  BY <1>c DEF Kinds, Outside
<1>1. lease' = lease \/ (lease = call[t].p /\ lease' = "none")
  BY DEF Update, Tokens, Store, Judge, Keep, Expire, GiveBack, Released
<1>s. ASSUME Stop(t)
      PROVE  \E r \in Call : Turn(t, r) /\ r.pc \notin RefreshPc /\ (r.late => call[t].late)
  BY <1>s, IdleIsFresh DEF Stop, Turn
<1>g. ASSUME NEW pc \in CallPc \ RefreshPc, Go(t, pc)
      PROVE  \E r \in Call : Turn(t, r) /\ r.pc \notin RefreshPc /\ (r.late => call[t].late)
  BY <1>0, <1>g, Going
<1>e. ASSUME NEW ok, NEW c, Exit(t, ok, c)
      PROVE  \E r \in Call : Turn(t, r) /\ r.pc \notin RefreshPc /\ (r.late => call[t].late)
  BY <1>0, <1>c, <1>e, ExitTurn
<1>n. ASSUME NEW pc \in CallPc \ RefreshPc, NEW c \in Credential, NEW new \in SUBSET {"access", "refresh"},
             call' = [call EXCEPT ![t] = [@ EXCEPT !.pc = pc, !.new = new, !.cur = c]]
      PROVE  \E r \in Call : Turn(t, r) /\ r.pc \notin RefreshPc /\ (r.late => call[t].late)
  <2> DEFINE r == [call[t] EXCEPT !.pc = pc, !.new = new, !.cur = c]
  <2>1. r \in Call /\ r.pc = pc /\ r.late = call[t].late
    BY <1>a, <1>n DEF Call
  <2>2. Turn(t, r)
    BY <1>n DEF Turn
  <2> HIDE DEF r
  <2> QED BY <2>1, <2>2
<1>h. \A new, c : Verdict(new, c) \subseteq CallPc \ RefreshPc
  BY <1>b DEF Verdict
<1>2. ASSUME NEW k \in Pair, NEW sub \in SUBSET {"access", "refresh"}, Tokens(t, k, sub)
      PROVE  \E r \in Call : Turn(t, r) /\ r.pc \notin RefreshPc /\ (r.late => call[t].late)
  <2> DEFINE new  == {f \in sub : cred[f] # k}
             cand == [access  |-> IF "access" \in new THEN k ELSE cred.access,
                      refresh |-> IF "refresh" \in new THEN k ELSE cred.refresh,
                      exp     |-> IF "access" \in new THEN "nil" ELSE cred.exp]
  <2>1. cand \in Credential /\ new \in SUBSET {"access", "refresh"}
    BY <1>a DEF Credential
  <2>2. \/ Stop(t)
        \/ \E pc \in IF "access" \in new THEN {"store"} ELSE Verdict(new, cand) :
             call' = [call EXCEPT ![t] = [@ EXCEPT !.pc = pc, !.new = new, !.cur = cand]]
    BY <1>2 DEF Tokens
  <2> HIDE DEF new, cand
  <2> QED BY <1>b, <1>h, <1>n, <1>s, <2>1, <2>2
<1>3. CASE Store(t)
  <2>1. Stop(t) \/ \E pc \in CallPc \ RefreshPc : Go(t, pc)
    BY <1>3, <1>h DEF Store
  <2> QED BY <1>1, <1>g, <1>s, <2>1
<1>4. CASE Judge(t) \/ Keep(t) \/ GiveBack(t)
  <2>1. \/ Stop(t) \/ Exit(t, TRUE, call[t].cur)
        \/ \E pc \in CallPc \ RefreshPc : Go(t, pc)
    BY <1>4, <1>b DEF Judge, Keep, GiveBack
  <2> QED BY <1>1, <1>e, <1>g, <1>s, <2>1
<1>5. CASE Expire(t)
  <2>1. CASE Stop(t)
    BY <1>1, <1>s, <2>1
  <2>2. CASE /\ cred' = [call[t].cur EXCEPT !.exp = "past"]
             /\ call' = [call EXCEPT ![t] = [@ EXCEPT !.pc = "giveback", !.cur = cred', !.new = {}]]
    <3> DEFINE r == [call[t] EXCEPT !.pc = "giveback", !.cur = cred', !.new = {}]
    <3>1. cred' \in Credential /\ "giveback" \in CallPc \ RefreshPc
      BY <1>a, <1>b, <2>2, CallTypes
    <3>2. r \in Call /\ r.pc = "giveback" /\ r.late = call[t].late
      BY <1>a, <3>1 DEF Call
    <3>3. Turn(t, r)
      BY <2>2 DEF Turn
    <3> HIDE DEF r
    <3> QED BY <1>1, <3>1, <3>2, <3>3
  <2> QED BY <1>5, <2>1, <2>2 DEF Expire
<1> QED
  BY <1>1, <1>2, <1>3, <1>4, <1>5 DEF Update

LEMMA StepKinds ==
  ASSUME LeaseInv, Next
  PROVE  \/ LeaseExpires
         \/ \E p \in Proc : Crash(p)
         \/ \E t \in Thread, r \in Call : Turn(t, r) /\ Kinds(t, r)
BY OutsideKind, FreshKind, UpdateKind DEF Next, Run, Wait

\* What makes a step of a goroutine one of the lease service: a refresh is late
\* only while it lasts, so the next one of the goroutine begins in time.
LateInv == \A t \in Thread : call[t].pc \notin RefreshPc => ~call[t].late

LEMMA LateStep ==
  ASSUME LeaseInv, LateInv, Next
  PROVE  LateInv'
<1>0. call \in [Thread -> Call]
  BY DEF LeaseInv, Calls
<1>1. CASE LeaseExpires
  <2>1. \A t \in Thread : call'[t] = call[t] \/
          (call[t].pc \in RefreshPc /\ call'[t] = [call[t] EXCEPT !.late = TRUE])
    BY <1>1 DEF LeaseExpires
  <2>2. \A t \in Thread : call'[t].pc = call[t].pc
    BY <1>0, <2>1 DEF Call
  <2> QED BY <2>1, <2>2 DEF LateInv
<1>2. CASE \E p \in Proc : Crash(p)
  <2>1. \A t \in Thread : call'[t] = call[t] \/ call'[t] = Idle
    BY <1>2 DEF Crash
  <2> QED BY <2>1, IdleIsFresh DEF LateInv
<1>3. ASSUME NEW t \in Thread, NEW r \in Call, Turn(t, r), Kinds(t, r)
      PROVE  LateInv'
  <2>1. \A u \in Thread : call'[u] = IF u = t THEN r ELSE call[u]
    BY <1>0, <1>3 DEF Turn
  <2>2. r.pc \notin RefreshPc => ~r.late
    BY <1>3 DEF Kinds, Outside, Starts, GoesOn, Ends, LateInv
  <2> QED BY <2>1, <2>2 DEF LateInv
<1> QED BY <1>1, <1>2, <1>3, StepKinds

LEMMA LateInvariant == Spec => []LateInv
<1>1. Init => LateInv
  BY IdleIsFresh DEF Init, LateInv
<1>2. LeaseInv /\ LateInv /\ [Next]_vars => LateInv'
  <2>1. LateInv /\ UNCHANGED vars => LateInv'
    BY DEF LateInv, vars
  <2> QED BY <2>1, LateStep
<1> QED BY <1>1, <1>2, LeaseInvariant, PTL DEF Spec

\* Whoever is inside ensureFresh or updates keeps its client's other goroutines
\* from refreshing.
LEMMA Alone ==
  ASSUME Calls, NEW t \in Thread, call[t].pc \in MutexPc,
         NEW u \in Thread, call[u].p = call[t].p, call[u].pc \in RefreshPc
  PROVE  u = t
<1> SUFFICES ASSUME u # t PROVE FALSE
  OBVIOUS
<1>1. Together(t, u) /\ Together(u, t) /\ Roles /\ Locks
  BY DEF Together, Calls
<1>2. call[u].pc \in FreshPc \cap UpdatePc /\ UpdatePc \subseteq WritePc /\ FreshPc \subseteq ReadPc
  BY Places DEF WritePc, ReadPc
<1>3. call[t].pc \in FreshPc \/ (t \in User /\ call[t].pc \in UpdatePc)
  BY <1>1, Places DEF Roles, CallerPc, MutexPc
<1>4. call[t].pc \in FreshPc => call[t].pc \in ReadPc
  BY <1>2
<1>5. t \in User => call[t].pc \in UpdatePc
  BY <1>1, <1>3, Places DEF Roles, UserPc
<1> QED BY <1>1, <1>2, <1>3, <1>4, <1>5 DEF Locks

\* What a goroutine alone in ensureFresh makes its client do with the lease.
Mode(c) == IF c.pc \notin RefreshPc THEN "out" ELSE IF c.late THEN "late" ELSE "in"

LEMMA UseIsMode ==
  ASSUME Calls, NEW t \in Thread, call[t].pc \in MutexPc, NEW p \in Proc, p = call[t].p
  PROVE  UseOf(p) = Mode(call[t])
<1>1. Refreshers(p) = IF call[t].pc \in RefreshPc THEN {t} ELSE {}
  BY Alone DEF Refreshers, Of
<1> QED BY <1>1 DEF UseOf, Mode

LEMMA UseBecomesMode ==
  ASSUME Calls, NEW t \in Thread, call[t].pc \in MutexPc, NEW p \in Proc, p = call[t].p,
         NEW r \in Call, Turn(t, r), r.pc \in RefreshPc => r.p = p
  PROVE  UseOf(p)' = Mode(r)
<1>1. \A u \in Thread : call'[u] = IF u = t THEN r ELSE call[u]
  BY DEF Calls, Turn
<1>2. Refreshers(p)' = IF r.pc \in RefreshPc THEN {t} ELSE {}
  BY <1>1, Alone DEF Refreshers, Of
<1> QED BY <1>1, <1>2 DEF UseOf, Mode

\* A client does nothing else with the lease while none of its own begins, ends
\* or is in the middle of a refresh.
LEMMA UseKept ==
  ASSUME Calls, NEW t \in Thread, NEW r \in Call, Turn(t, r), NEW p \in Proc,
         call[t].pc \in RefreshPc => call[t].p # p, r.pc \in RefreshPc => r.p # p
  PROVE  UseOf(p)' = UseOf(p)
<1>1. \A u \in Thread : call'[u] = IF u = t THEN r ELSE call[u]
  BY DEF Calls, Turn
<1>2. Refreshers(p)' = Refreshers(p) /\ t \notin Refreshers(p)
  BY <1>1 DEF Refreshers, Of
<1>3. (\E u \in Refreshers(p) : call[u].late)' <=> \E u \in Refreshers(p) : call[u].late
  BY <1>1, <1>2 DEF Refreshers, Of
<1> QED BY <1>2, <1>3 DEF UseOf

LEMMA UsesKept ==
  ASSUME \A p \in Proc : UseOf(p)' = UseOf(p)
  PROVE  [p \in Proc |-> UseOf(p)]' = [p \in Proc |-> UseOf(p)]
OBVIOUS

LEMMA UsesChange ==
  ASSUME NEW p \in Proc, NEW v, UseOf(p)' = v, \A q \in Proc : q # p => UseOf(q)' = UseOf(q)
  PROVE  [q \in Proc |-> UseOf(q)]' = [[q \in Proc |-> UseOf(q)] EXCEPT ![p] = v]
<1>1. \A q \in Proc : UseOf(q)' = IF q = p THEN v ELSE UseOf(q)
  OBVIOUS
<1> QED BY <1>1

\* Every step of a goroutine is one of the lease service, or none.
LEMMA TurnImplements ==
  ASSUME LeaseInv, LateInv, NEW t \in Thread, NEW r \in Call, Turn(t, r), Kinds(t, r)
  PROVE  Lease!Next \/ UNCHANGED Lease!leaseVars
<1>0. Calls /\ \A u \in Thread : call[u].pc \in MutexPc => call[u].p \in Proc
  BY Places DEF LeaseInv, Calls, MutexPc
<1>1. CASE Outside(t, r)
  <2>1. [p \in Proc |-> UseOf(p)]' = [p \in Proc |-> UseOf(p)]
    BY <1>0, <1>1, UseKept, UsesKept DEF Outside
  <2>2. CASE lease' = lease
    BY <2>1, <2>2 DEF Lease!leaseVars
  <2>3. CASE call[t].pc \in MutexPc /\ lease = call[t].p /\ lease' = "none"
    <3>1. PICK p \in Proc : p = call[t].p
      BY <1>0, <2>3
    <3>2. UseOf(p) = "out"
      BY <1>0, <1>1, <2>3, <3>1, UseIsMode DEF Outside, Mode
    <3> QED BY <2>1, <2>3, <3>1, <3>2 DEF Lease!Next, Lease!EndCoolDown
  <2> QED BY <1>1, <2>2, <2>3 DEF Outside
<1>2. CASE ~Outside(t, r)
  <2>1. /\ Starts(t, r) \/ GoesOn(t, r) \/ Ends(t, r)
        /\ call[t].pc \in MutexPc
    BY <1>2, Places DEF Kinds, Starts, GoesOn, Ends, MutexPc
  <2>2. PICK p \in Proc : p = call[t].p
    BY <1>0, <2>1
  <2>3. r.pc \in RefreshPc => r.p = p
    BY <2>1, <2>2 DEF Starts, GoesOn, Ends
  <2>4. /\ UseOf(p) = Mode(call[t]) /\ UseOf(p)' = Mode(r)
        /\ \A q \in Proc : q # p => UseOf(q)' = UseOf(q)
    BY <1>0, <2>1, <2>2, <2>3, UseIsMode, UseBecomesMode, UseKept
  <2>5. [q \in Proc |-> UseOf(q)]' = [[q \in Proc |-> UseOf(q)] EXCEPT ![p] = Mode(r)]
    BY <2>4, UsesChange
  <2>6. CASE Starts(t, r)
    <3>1. Mode(call[t]) = "out" /\ Mode(r) = "in"
      BY <2>6 DEF Starts, Mode, LateInv
    <3> QED BY <2>2, <2>4, <2>5, <2>6, <3>1
            DEF Starts, Grants, Lease!Next, Lease!Take, Lease!MayTake
  <2>7. CASE GoesOn(t, r)
    <3>1. Mode(call[t]) = Mode(r)
      BY <2>7 DEF GoesOn, Mode
    <3>2. \A q \in Proc : UseOf(q)' = UseOf(q)
      BY <2>4, <3>1
    <3> QED BY <2>7, <3>2, UsesKept DEF GoesOn, Lease!leaseVars
  <2>8. CASE Ends(t, r)
    <3>1. Mode(call[t]) # "out" /\ Mode(r) = "out"
      BY <2>8 DEF Ends, Mode
    <3> QED BY <2>2, <2>4, <2>5, <2>8, <3>1
            DEF Ends, Grants, Lease!Next, Lease!Finish, Lease!CoolDown, Lease!MayTake
  <2> QED BY <2>1, <2>6, <2>7, <2>8
<1> QED BY <1>1, <1>2

\* So are the end of a lease's time ...
LEMMA ExpiryImplements ==
  ASSUME LeaseInv, LeaseExpires
  PROVE  Lease!Next
<1>0. /\ lease \in Proc \cup {"gone"} /\ lease' = "none" /\ call \in [Thread -> Call]
      /\ \A t \in Thread : call[t].pc \in RefreshPc => call[t].p \in Proc
  BY Places DEF LeaseInv, Rows, Calls, LeaseExpires
<1>1. /\ \A t \in Thread : call'[t].pc = call[t].pc /\ call'[t].p = call[t].p
      /\ \A t \in Thread :
           call'[t].late = (call[t].late \/ (call[t].p = lease /\ call[t].pc \in RefreshPc))
  BY <1>0 DEF LeaseExpires, Call
<1>2. \A p \in Proc : Refreshers(p)' = Refreshers(p)
  BY <1>1 DEF Refreshers, Of
<1>3. ASSUME NEW p \in Proc, p # lease
      PROVE  UseOf(p)' = UseOf(p)
  <2>1. (\E u \in Refreshers(p) : call[u].late)' <=> \E u \in Refreshers(p) : call[u].late
    BY <1>1, <1>2, <1>3 DEF Refreshers, Of
  <2> QED BY <1>2, <2>1 DEF UseOf
<1>4. CASE lease = "gone"
  <2>1. \A p \in Proc : UseOf(p)' = UseOf(p)
    BY <1>3, <1>4, LeaseAssumption
  <2> QED BY <1>0, <1>4, <2>1, UsesKept DEF Lease!Next, Lease!Forgotten
<1>5. CASE lease \in Proc
  <2>1. PICK p \in Proc : p = lease
    BY <1>5
  <2>2. Refreshers(p) # {} => \E u \in Refreshers(p)' : call'[u].late
    BY <1>1, <1>2, <2>1 DEF Refreshers, Of
  <2>3. UseOf(p)' = IF UseOf(p) = "in" THEN "late" ELSE UseOf(p)
    BY <1>2, <2>2 DEF UseOf
  <2>4. [q \in Proc |-> UseOf(q)]' =
          [[q \in Proc |-> UseOf(q)] EXCEPT ![p] = IF UseOf(p) = "in" THEN "late" ELSE UseOf(p)]
    BY <1>3, <2>1, <2>3, UsesChange
  <2> QED BY <1>0, <2>1, <2>4 DEF Lease!Next, Lease!TimeOut
<1> QED BY <1>0, <1>4, <1>5

\* ... and the end of a process.
LEMMA CrashImplements ==
  ASSUME LeaseInv, NEW p \in Proc, Crash(p)
  PROVE  Lease!Next
<1>0. \A t \in Thread : call'[t] = IF call[t].p = p THEN Idle ELSE call[t]
  BY DEF Crash
<1>1. Refreshers(p)' = {}
  BY <1>0, IdleIsFresh DEF Refreshers, Of
<1>2. UseOf(p)' = "out"
  BY <1>1 DEF UseOf
<1>3. ASSUME NEW q \in Proc, q # p
      PROVE  UseOf(q)' = UseOf(q)
  <2>1. Refreshers(q)' = Refreshers(q)
    BY <1>0, <1>3, IdleIsFresh DEF Refreshers, Of
  <2>2. \A u \in Refreshers(q) : call'[u] = call[u]
    BY <1>0, <1>3 DEF Refreshers, Of
  <2> QED BY <2>1, <2>2 DEF UseOf
<1>4. [q \in Proc |-> UseOf(q)]' = [[q \in Proc |-> UseOf(q)] EXCEPT ![p] = "out"]
  BY <1>2, <1>3, UsesChange
<1> QED BY <1>4 DEF Crash, Lease!Next, Lease!Die

\* All clients together implement the lease service: a refresh begins only under a
\* lease of its own and with no other of its client on its way, and the lease is
\* taken, prolonged and given up by whom it belongs to only.
THEOREM TokensUseLease == Spec => ImplementsLease
<1>1. Init => Lease!Init
  <2> SUFFICES ASSUME Init PROVE Lease!Init
    OBVIOUS
  <2>1. \A p \in Proc : Refreshers(p) = {}
    BY IdleIsFresh DEF Init, Refreshers, Of
  <2>2. \A p \in Proc : UseOf(p) = "out"
    BY <2>1 DEF UseOf
  <2> QED BY <2>2 DEF Init, Lease!Init
<1>2. LeaseInv /\ LateInv /\ [Next]_vars => [Lease!Next]_(Lease!leaseVars)
  <2>1. LeaseInv /\ LateInv /\ Next => Lease!Next \/ UNCHANGED Lease!leaseVars
    BY StepKinds, TurnImplements, ExpiryImplements, CrashImplements
  <2>2. UNCHANGED vars => UNCHANGED Lease!leaseVars
    BY DEF vars, Lease!leaseVars, UseOf, Refreshers, Of
  <2> QED BY <2>1, <2>2
<1> QED BY <1>1, <1>2, LeaseInvariant, LateInvariant, PTL DEF Spec, ImplementsLease, Lease!Spec

\* The lease service keeps its promise: who refreshes in time is the owner.
THEOREM LeaseIsExclusive == Spec => []Lease!Exclusive
<1>1. Lease!Init => Lease!Exclusive
  BY DEF Lease!Init, Lease!Exclusive
<1>2. Lease!Exclusive /\ [Lease!Next]_(Lease!leaseVars) => Lease!Exclusive'
  BY LeaseAssumption DEF Lease!Exclusive, Lease!Next, Lease!leaseVars, Lease!Take, Lease!MayTake,
     Lease!Finish, Lease!CoolDown, Lease!EndCoolDown, Lease!TimeOut, Lease!Die, Lease!Forgotten
<1> QED BY <1>1, <1>2, TokensUseLease, PTL DEF ImplementsLease, Lease!Spec

----------------------------------------------------------------------------
(* The pairs of tokens.  Nobody knows one that 115 has not issued, and the *)
(* one a refresh has got is nobody else's to spend while the lease lasts.  *)

PairInv ==
  /\ spent \subseteq 1..issued /\ cred.refresh \in 1..issued
  /\ \A p \in Proc : mem[p].refresh \in 1..issued
  /\ \A t \in Thread : call[t].cur.refresh \in 1..issued

\* Inductive for FreshPairs: nobody is about to send the new pair either.
NewPairInv ==
  \A t \in Storing : call[t].late \/
    /\ call[t].cur.refresh \notin spent
    /\ \A u \in Thread : call[u].pc = "send" => call[u].cur.refresh # call[t].cur.refresh

\* What a step of t that makes it r does with the pairs: it spends the one it
\* sends only, sends under the lease only, and has a new one from 115 only.
Carries(t, r) ==
  /\ issued' \in Nat /\ issued <= issued' /\ r.cur.refresh \in 1..issued'
  /\ cred'.refresh \in 1..issued' /\ \A p \in Proc : mem'[p].refresh \in 1..issued'
  /\ spent' = spent \/ (call[t].pc = "send" /\ spent' = spent \cup {call[t].cur.refresh})
  /\ r.pc = "send" => call[t].pc = "acquire" /\ Grants(call[t].p)
  /\ r.pc \in {"answered", "save"} =>
       \/ call[t].pc = "send" /\ issued' = issued + 1 /\ r.cur.refresh = issued'
       \/ /\ call[t].pc = "answered" /\ spent' = spent
          /\ r.cur.refresh = call[t].cur.refresh /\ r.late = call[t].late

NewPc == {"send", "answered", "save"}

\* A step that neither sends nor has sent ...
LEMMA RestCarries ==
  ASSUME PairInv, NEW t \in Thread, NEW r \in Call, r.pc \notin NewPc,
         issued' \in Nat, issued <= issued', issued \in Nat, spent' = spent,
         r.cur.refresh \in 1..issued',
         cred'.refresh \in 1..issued', \A p \in Proc : mem'[p].refresh \in 1..issued'
  PROVE  Carries(t, r)
BY DEF Carries, NewPc

\* ... such as that which leaves ensureFresh.
LEMMA ExitCarries ==
  ASSUME Calls, Clients, Rows, PairInv, NEW t \in Thread, call[t].pc # "idle", NEW ok,
         NEW c \in Credential, c.refresh \in 1..issued, Exit(t, ok, c),
         UNCHANGED remoteVars, cred'.refresh \in 1..issued
  PROVE  \E r \in Call : Turn(t, r) /\ Carries(t, r)
<1>1. issued \in Nat /\ 1 \in 1..issued /\ UNCHANGED <<issued, spent>>
  BY LeaseAssumption DEF Rows, Pair, remoteVars
<1>2. \A p \in Proc : mem'[p].refresh \in 1..issued
  <2>1. mem' = [mem EXCEPT ![call[t].p] = c]
    BY DEF Exit
  <2> QED BY <2>1 DEF PairInv, Clients
<1>3. \E r \in Call : Turn(t, r) /\ r.pc \notin NewPc /\ r.cur.refresh = 1
  <2>1. CASE Stop(t)
    <3>1. Idle \in Call /\ Idle.pc \notin NewPc /\ Idle.cur.refresh = 1
      BY IdleRests DEF Idle, Unknown, Both, NewPc
    <3> QED BY <2>1, <3>1 DEF Stop, Turn
  <2>2. CASE Begin(t, call[t].p, "api")
    <3> DEFINE r == [Idle EXCEPT !.pc = "api", !.p = call[t].p]
    <3>1. call[t].p \in Proc /\ "api" \in CallPc
      BY Places DEF Calls, CallPc
    <3>2. r \in Call /\ r.pc = "api" /\ r.cur.refresh = 1
      BY <3>1, IdleRests, CallUpdates DEF Idle, Unknown, Both
    <3>3. Turn(t, r)
      BY <2>2 DEF Begin, Turn
    <3> HIDE DEF r
    <3> QED BY <3>2, <3>3 DEF NewPc
  <2> QED BY <2>1, <2>2 DEF Exit, Leave
<1>4. PICK r \in Call : Turn(t, r) /\ r.pc \notin NewPc /\ r.cur.refresh = 1
  BY <1>3
<1> QED BY <1>1, <1>2, <1>4, RestCarries

\* A goroutine goes on with the credential it has, or with another.
LEMMA GoingOn ==
  ASSUME Calls, NEW t \in Thread, NEW pc \in CallPc, Go(t, pc)
  PROVE  \E r \in Call : Turn(t, r) /\ r.pc = pc /\ r.cur = call[t].cur /\ r.late = call[t].late
<1> call[t] \in Call /\ [call[t] EXCEPT !.pc = pc] \in Call
  BY CallUpdates DEF Calls
<1> WITNESS [call[t] EXCEPT !.pc = pc] \in Call
<1> QED BY DEF Go, Turn, Call

LEMMA GoingOnWith ==
  ASSUME Calls, NEW t \in Thread, NEW pc \in CallPc, NEW c \in Credential,
         call' = [call EXCEPT ![t] = [@ EXCEPT !.pc = pc, !.cur = c]]
  PROVE  \E r \in Call : Turn(t, r) /\ r.pc = pc /\ r.cur.refresh = c.refresh /\ r.late = call[t].late
<1> call[t] \in Call /\ [call[t] EXCEPT !.pc = pc, !.cur = c] \in Call
  BY CallUpdates DEF Calls
<1> WITNESS [call[t] EXCEPT !.pc = pc, !.cur = c] \in Call
<1> QED BY DEF Turn, Call

\* The steps outside ensureFresh.
LEMMA OutsideCarries ==
  ASSUME LeaseInv, PairInv,
         \/ \E t \in Caller, p \in Proc : Start(t, p) \/ BeginCall(t, p)
         \/ \E t \in User, p \in Proc : BeginUpdate(t, p)
         \/ \E t \in Thread : GiveUp(t) \/ After(t) \/ ReadLock(t) \/ TakeSlot(t) \/ Announce(t) \/ WriteLock(t)
  PROVE  \E t \in Thread, r \in Call : Turn(t, r) /\ Carries(t, r)
<1>0. Calls /\ issued \in Nat /\ 1 \in 1..issued /\ mem \in [Proc -> Credential]
  BY LeaseAssumption DEF LeaseInv, Rows, Clients, Pair
<1>u. UNCHANGED <<issued, spent, cred>>
  BY DEF remoteVars, Start, BeginCall, BeginUpdate, GiveUp, After, ReadLock, TakeSlot, Announce, WriteLock
<1>1. \A p \in Proc : mem'[p].refresh \in 1..issued
  <2>1. UNCHANGED mem \/ \E p \in Proc : mem' = [mem EXCEPT ![p] = cred]
    BY DEF procVars, Start, BeginCall, BeginUpdate, GiveUp, After, Leave, ReadLock, TakeSlot, Announce, WriteLock
  <2> QED BY <1>0, <2>1 DEF PairInv
<1>2. \E t \in Thread, r \in Call : Turn(t, r) /\ r.pc \notin NewPc /\ r.cur.refresh \in 1..issued
  <2>1. ASSUME NEW t \in Thread, NEW p \in Proc, NEW pc \in {"read", "write"}, Begin(t, p, pc)
        PROVE  \E r \in Call : Turn(t, r) /\ r.pc \notin NewPc /\ r.cur.refresh \in 1..issued
    <3> DEFINE r == [Idle EXCEPT !.pc = pc, !.p = p]
    <3>1. pc \in CallPc
      BY DEF CallPc
    <3>2. r \in Call /\ r.pc = pc /\ r.cur.refresh = 1
      BY <3>1, IdleRests, CallUpdates DEF Idle, Unknown, Both
    <3>3. Turn(t, r)
      BY <2>1 DEF Begin, Turn
    <3> HIDE DEF r
    <3> QED BY <1>0, <3>2, <3>3 DEF NewPc
  <2>2. ASSUME NEW t \in Thread, Stop(t)
        PROVE  \E r \in Call : Turn(t, r) /\ r.pc \notin NewPc /\ r.cur.refresh \in 1..issued
    <3>1. Idle \in Call /\ Idle.pc \notin NewPc /\ Idle.cur.refresh = 1
      BY IdleRests DEF Idle, Unknown, Both, NewPc
    <3> QED BY <1>0, <2>2, <3>1 DEF Stop, Turn
  <2>3. ASSUME NEW t \in Thread, NEW pc \in {"slot", "mutex", "drain", "tokens"}, Go(t, pc)
        PROVE  \E r \in Call : Turn(t, r) /\ r.pc \notin NewPc /\ r.cur.refresh \in 1..issued
    <3>1. pc \in CallPc
      BY Places DEF CallPc
    <3>2. PICK r \in Call : Turn(t, r) /\ r.pc = pc /\ r.cur = call[t].cur
      BY <1>0, <2>3, <3>1, GoingOn
    <3> QED BY <3>2 DEF NewPc, PairInv
  <2>4. \/ \E t \in Thread, p \in Proc, pc \in {"read", "write"} : Begin(t, p, pc)
        \/ \E t \in Thread : Stop(t)
        \/ \E t \in Thread, pc \in {"slot", "mutex", "drain", "tokens"} : Go(t, pc)
    <3>1. CASE \/ \E t \in Caller, p \in Proc : Start(t, p) \/ BeginCall(t, p)
               \/ \E t \in User, p \in Proc : BeginUpdate(t, p)
      BY <3>1 DEF Start, BeginCall, BeginUpdate
    <3>2. CASE \E t \in Thread : GiveUp(t) \/ After(t)
      BY <3>2 DEF GiveUp, After, Leave
    <3>3. CASE \E t \in Thread : ReadLock(t) \/ TakeSlot(t) \/ Announce(t) \/ WriteLock(t)
      BY <3>3 DEF ReadLock, TakeSlot, Announce, WriteLock
    <3> QED BY <3>1, <3>2, <3>3
  <2> QED BY <2>1, <2>2, <2>3, <2>4
<1>3. PICK t \in Thread, r \in Call : Turn(t, r) /\ r.pc \notin NewPc /\ r.cur.refresh \in 1..issued
  BY <1>2
<1>4. Carries(t, r)
  BY <1>0, <1>1, <1>3, <1>u, RestCarries DEF PairInv
<1> QED BY <1>3, <1>4

\* The steps of ensureFresh.
LEMMA FreshCarries ==
  ASSUME LeaseInv, PairInv, NEW t \in Thread, Check(t) \/ EnsureFresh(t)
  PROVE  \E r \in Call : Turn(t, r) /\ Carries(t, r)
<1>0. /\ Calls /\ Clients /\ Rows /\ issued \in Nat /\ cred \in Credential /\ mem \in [Proc -> Credential]
      /\ call[t].cur \in Credential /\ call[t].cur.refresh \in Pair
      /\ call[t].cur.refresh \in 1..issued /\ cred.refresh \in 1..issued
      /\ \A p \in Proc : mem[p].refresh \in 1..issued
  BY CallTypes DEF LeaseInv, Rows, Clients, Calls, Call, PairInv, Pair
<1>d. Calls
  BY <1>0
<1>b. /\ "acquire" \in CallPc /\ "poll" \in CallPc /\ "send" \in CallPc /\ "answered" \in CallPc
      /\ "failed" \in CallPc /\ "save" \in CallPc /\ "release" \in CallPc /\ "undo" \in CallPc
  BY Places, Pcs
<1>c. \A k \in Pair, e \in {"nil", "time", "past"} : Both(k, e) \in Credential /\ Both(k, e).refresh = k
  BY CallTypes DEF Both
\* A step that changes neither a pair nor a row.
<1>p. ASSUME NEW r \in Call, Turn(t, r), UNCHANGED <<issued, spent, cred, mem>>, r.pc \notin NewPc,
             r.cur = call[t].cur
      PROVE  \E q \in Call : Turn(t, q) /\ Carries(t, q)
  BY <1>0, <1>p, RestCarries
<1>1. CASE Check(t)
  <2>1. /\ call[t].p \in Proc /\ call[t].pc # "idle" /\ UNCHANGED <<issued, spent, cred>>
        /\ UNCHANGED remoteVars
    BY <1>0, <1>1 DEF Check, Calls, remoteVars
  <2> DEFINE c == mem[call[t].p]
  <2>2. c \in Credential /\ c.refresh \in 1..issued
    BY <1>0, <2>1
  <2>3. \/ Exit(t, TRUE, c)
        \/ call' = [call EXCEPT ![t] = [@ EXCEPT !.pc = "acquire", !.cur = c]] /\ UNCHANGED mem
    BY <1>1 DEF Check, procVars
  <2> HIDE DEF c
  <2>4. CASE Exit(t, TRUE, c)
    BY <1>0, <2>1, <2>2, <2>4, ExitCarries
  <2>5. CASE call' = [call EXCEPT ![t] = [@ EXCEPT !.pc = "acquire", !.cur = c]] /\ UNCHANGED mem
    <3>p. PICK pc \in CallPc : pc = "acquire"
      BY <1>b
    <3>q. call' = [call EXCEPT ![t] = [@ EXCEPT !.pc = pc, !.cur = c]]
      BY <2>5, <3>p
    <3>1. PICK r \in Call : Turn(t, r) /\ r.pc = pc /\ r.cur.refresh = c.refresh /\ r.late = call[t].late
      BY <1>d, <2>2, <3>q, GoingOnWith
    <3>2. Carries(t, r)
      BY <1>0, <2>1, <2>2, <2>5, <3>1, <3>p, RestCarries DEF NewPc
    <3> QED BY <3>1, <3>2
  <2> QED BY <2>3, <2>4, <2>5
<1>2. CASE Acquire(t)
  <2>1. call[t].pc = "acquire" /\ UNCHANGED remoteVars /\ UNCHANGED <<issued, spent, cred>>
    BY <1>2 DEF Acquire, remoteVars
  <2>2. CASE Grants(call[t].p) /\ Go(t, "send") /\ UNCHANGED procVars
    <3>1. PICK r \in Call : Turn(t, r) /\ r.pc = "send" /\ r.cur = call[t].cur
      BY <1>d, <1>b, <2>2, GoingOn
    <3>2. Carries(t, r)
      BY <1>0, <2>1, <2>2, <3>1 DEF Carries, procVars
    <3> QED BY <3>1, <3>2
  <2>3. CASE Go(t, "poll") /\ UNCHANGED procVars
    <3>1. PICK r \in Call : Turn(t, r) /\ r.pc = "poll" /\ r.cur = call[t].cur
      BY <1>d, <1>b, <2>3, GoingOn
    <3> QED BY <1>p, <2>1, <2>3, <3>1 DEF procVars, NewPc
  <2>4. CASE Exit(t, FALSE, call[t].cur)
    BY <1>0, <2>1, <2>4, ExitCarries
  <2> QED BY <1>2, <2>2, <2>3, <2>4 DEF Acquire
<1>3. CASE Poll(t)
  <2>1. call[t].pc # "idle" /\ UNCHANGED remoteVars /\ UNCHANGED cred
    BY <1>3 DEF Poll
  <2>2. Exit(t, TRUE, cred) \/ Exit(t, FALSE, call[t].cur)
    BY <1>3 DEF Poll
  <2>3. CASE Exit(t, TRUE, cred)
    BY <1>0, <2>1, <2>3, ExitCarries
  <2>4. CASE Exit(t, FALSE, call[t].cur)
    BY <1>0, <2>1, <2>4, ExitCarries
  <2> QED BY <2>2, <2>3, <2>4
<1>4. CASE Send(t)
  <2>1. call[t].pc = "send" /\ UNCHANGED <<cred, mem>>
    BY <1>4 DEF Send, procVars
  <2>2. \/ issued' = issued /\ spent' = spent
        \/ issued' = issued + 1 /\ issued < MaxPair /\ spent' = spent \cup {call[t].cur.refresh}
    BY <1>4 DEF Send, remoteVars
  <2>3. issued' \in Nat /\ issued <= issued' /\ 1..issued \subseteq 1..issued'
    BY <1>0, <2>2
  <2>4. CASE Go(t, "failed")
    <3>1. PICK r \in Call : Turn(t, r) /\ r.pc = "failed" /\ r.cur = call[t].cur
      BY <1>d, <1>b, <2>4, GoingOn
    <3>2. Carries(t, r)
      BY <1>0, <2>1, <2>2, <2>3, <3>1 DEF Carries
    <3> QED BY <3>1, <3>2
  <2>5. CASE /\ issued' = issued + 1 /\ issued < MaxPair /\ spent' = spent \cup {call[t].cur.refresh}
             /\ call' = [call EXCEPT ![t] = [@ EXCEPT !.pc = IF Reports(t) THEN "answered" ELSE "save",
                                                     !.cur.refresh = issued + 1]]
    <3> DEFINE c == [call[t].cur EXCEPT !.refresh = issued + 1]
               pc == IF Reports(t) THEN "answered" ELSE "save"
    <3>1. c \in Credential /\ c.refresh = issued + 1
      <4>1. issued + 1 \in Pair
        BY <1>0, <2>5, LeaseAssumption DEF Pair
      <4> QED BY <1>0, <4>1 DEF Credential
    <3>2. call' = [call EXCEPT ![t] = [@ EXCEPT !.pc = pc, !.cur = c]]
      BY <2>5
    <3>3. pc \in CallPc /\ pc \in {"answered", "save"}
      BY <1>b
    <3> HIDE DEF c, pc
    <3>4. PICK r \in Call : Turn(t, r) /\ r.pc = pc /\ r.cur.refresh = c.refresh /\ r.late = call[t].late
      BY <1>d, <3>1, <3>2, <3>3, GoingOnWith
    <3>5. Carries(t, r)
      BY <1>0, <2>1, <2>3, <2>5, <3>1, <3>3, <3>4 DEF Carries
    <3> QED BY <3>4, <3>5
  <2> QED BY <1>4, <2>4, <2>5 DEF Send
<1>5. CASE Callback(t)
  <2> DEFINE c == Both(call[t].cur.refresh, "nil")
  <2>1. c \in Credential /\ c.refresh = call[t].cur.refresh
    BY <1>0, <1>c
  <2>2. /\ call[t].pc = "answered" /\ UNCHANGED <<issued, spent, mem>> /\ cred' \in {cred, c}
        /\ call' = [call EXCEPT ![t] = [@ EXCEPT !.pc = "save", !.cur = c]]
    BY <1>5 DEF Callback, procVars, remoteVars
  <2> HIDE DEF c
  <2>p. PICK pc \in CallPc : pc = "save"
    BY <1>b
  <2>q. call' = [call EXCEPT ![t] = [@ EXCEPT !.pc = pc, !.cur = c]]
    BY <2>2, <2>p
  <2>3. PICK r \in Call : Turn(t, r) /\ r.pc = pc /\ r.cur.refresh = c.refresh /\ r.late = call[t].late
    BY <1>d, <2>1, <2>q, GoingOnWith
  <2>4. Carries(t, r)
    BY <1>0, <2>1, <2>2, <2>3, <2>p DEF Carries
  <2> QED BY <2>3, <2>4
<1>6. CASE Save(t)
  <2> DEFINE c == Both(call[t].cur.refresh, "time")
  <2>1. c \in Credential /\ c.refresh = call[t].cur.refresh
    BY <1>0, <1>c
  <2>2. /\ UNCHANGED <<issued, spent, mem>>
        /\ \/ cred' = c /\ call' = [call EXCEPT ![t] = [@ EXCEPT !.pc = "release", !.cur = c]]
           \/ cred' = cred /\ Go(t, "undo")
    BY <1>6 DEF Save, procVars, remoteVars
  <2> HIDE DEF c
  <2>3. CASE cred' = c /\ call' = [call EXCEPT ![t] = [@ EXCEPT !.pc = "release", !.cur = c]]
    <3>p. PICK pc \in CallPc : pc = "release"
      BY <1>b
    <3>q. call' = [call EXCEPT ![t] = [@ EXCEPT !.pc = pc, !.cur = c]]
      BY <2>3, <3>p
    <3>1. PICK r \in Call : Turn(t, r) /\ r.pc = pc /\ r.cur.refresh = c.refresh /\ r.late = call[t].late
      BY <1>d, <2>1, <3>q, GoingOnWith
    <3>2. Carries(t, r)
      BY <1>0, <2>1, <2>2, <2>3, <3>1, <3>p, RestCarries DEF NewPc
    <3> QED BY <3>1, <3>2
  <2>4. CASE cred' = cred /\ Go(t, "undo")
    <3>1. PICK r \in Call : Turn(t, r) /\ r.pc = "undo" /\ r.cur = call[t].cur
      BY <1>d, <1>b, <2>4, GoingOn
    <3> QED BY <1>p, <2>2, <2>4, <3>1 DEF NewPc
  <2> QED BY <2>2, <2>3, <2>4
<1>7. CASE Cool(t)
  <2>1. call[t].pc # "idle" /\ UNCHANGED remoteVars /\ UNCHANGED <<issued, spent, cred>>
    BY <1>7 DEF Cool, remoteVars
  <2>2. CASE Exit(t, FALSE, call[t].cur)
    BY <1>0, <2>1, <2>2, ExitCarries
  <2>3. CASE Go(t, "undo") /\ UNCHANGED procVars
    <3>1. PICK r \in Call : Turn(t, r) /\ r.pc = "undo" /\ r.cur = call[t].cur
      BY <1>d, <1>b, <2>3, GoingOn
    <3> QED BY <1>p, <2>1, <2>3, <3>1 DEF procVars, NewPc
  <2> QED BY <1>7, <2>2, <2>3 DEF Cool
<1>8. CASE Release(t)
  <2>1. call[t].pc # "idle" /\ UNCHANGED remoteVars /\ UNCHANGED cred
    BY <1>8 DEF Release
  <2>2. \E ok \in BOOLEAN : Exit(t, ok, call[t].cur)
    BY <1>8 DEF Release
  <2> QED BY <1>0, <2>1, <2>2, ExitCarries
<1> QED
  BY <1>1, <1>2, <1>3, <1>4, <1>5, <1>6, <1>7, <1>8 DEF EnsureFresh

\* The steps of UpdateTokens.
LEMMA UpdateCarries ==
  ASSUME LeaseInv, PairInv, NEW t \in Thread, Update(t)
  PROVE  \E r \in Call : Turn(t, r) /\ Carries(t, r)
<1>0. /\ Calls /\ Clients /\ Rows /\ issued \in Nat /\ cred \in Credential
      /\ call[t] \in Call /\ call[t].cur \in Credential
      /\ call[t].cur.refresh \in 1..issued /\ cred.refresh \in 1..issued
      /\ \A p \in Proc : mem[p].refresh \in 1..issued
  BY CallTypes DEF LeaseInv, Rows, Clients, Calls, Call, PairInv, Pair
<1>d. Calls
  BY <1>0
<1>b. /\ {"store", "judge", "keep", "expire", "giveback", "acquire"} \subseteq CallPc
      /\ {"store", "judge", "keep", "expire", "giveback", "acquire"} \cap NewPc = {}
  BY Places, Pcs DEF NewPc
<1>c. /\ call[t].pc # "idle"
      /\ spent' = spent
  BY DEF Update, Tokens, Store, Judge, Keep, Expire, GiveBack, remoteVars
<1>s. ASSUME Stop(t), UNCHANGED mem, issued' \in Nat, issued <= issued', cred'.refresh \in 1..issued'
      PROVE  \E r \in Call : Turn(t, r) /\ Carries(t, r)
  <2>1. Idle \in Call /\ Idle.pc \notin NewPc /\ Idle.cur.refresh = 1
    BY IdleRests DEF Idle, Unknown, Both, NewPc
  <2>2. Turn(t, Idle)
    BY <1>s DEF Stop, Turn
  <2>3. Idle.cur.refresh \in 1..issued' /\ \A p \in Proc : mem'[p].refresh \in 1..issued'
    BY <1>0, <1>s, <2>1
  <2>4. Carries(t, Idle)
    BY <1>0, <1>c, <1>s, <2>1, <2>3, RestCarries
  <2> QED BY <2>1, <2>2, <2>4
<1>g. ASSUME NEW pc \in CallPc \ NewPc, Go(t, pc), UNCHANGED <<issued, mem>>, cred'.refresh \in 1..issued
      PROVE  \E r \in Call : Turn(t, r) /\ Carries(t, r)
  <2>1. PICK r \in Call : Turn(t, r) /\ r.pc = pc /\ r.cur = call[t].cur
    BY <1>d, <1>g, GoingOn
  <2>2. Carries(t, r)
    BY <1>0, <1>c, <1>g, <2>1, RestCarries
  <2> QED BY <2>1, <2>2
<1>e. ASSUME NEW ok, Exit(t, ok, call[t].cur), UNCHANGED remoteVars, cred'.refresh \in 1..issued
      PROVE  \E r \in Call : Turn(t, r) /\ Carries(t, r)
  BY <1>0, <1>c, <1>e, ExitCarries
<1>n. ASSUME NEW pc \in CallPc \ NewPc, NEW c \in Credential, NEW new \in SUBSET {"access", "refresh"},
             call' = [call EXCEPT ![t] = [@ EXCEPT !.pc = pc, !.new = new, !.cur = c]], UNCHANGED mem,
             issued' \in Nat, issued <= issued', c.refresh \in 1..issued', cred'.refresh \in 1..issued'
      PROVE  \E r \in Call : Turn(t, r) /\ Carries(t, r)
  <2> DEFINE r == [call[t] EXCEPT !.pc = pc, !.new = new, !.cur = c]
  <2>1. r \in Call /\ r.pc = pc /\ r.cur.refresh = c.refresh
    BY <1>0, <1>n DEF Call
  <2>2. Turn(t, r)
    BY <1>n DEF Turn
  <2> HIDE DEF r
  <2>3. \A p \in Proc : mem'[p].refresh \in 1..issued'
    BY <1>0, <1>n
  <2>4. Carries(t, r)
    BY <1>0, <1>c, <1>n, <2>1, <2>3, RestCarries
  <2> QED BY <2>1, <2>2, <2>4
<1>h. \A new, c : Verdict(new, c) \subseteq CallPc \ NewPc
  BY <1>b DEF Verdict
<1>1. ASSUME NEW k \in Pair, NEW sub \in SUBSET {"access", "refresh"}, Tokens(t, k, sub)
      PROVE  \E r \in Call : Turn(t, r) /\ Carries(t, r)
  <2> DEFINE new  == {f \in sub : cred[f] # k}
             cand == [access  |-> IF "access" \in new THEN k ELSE cred.access,
                      refresh |-> IF "refresh" \in new THEN k ELSE cred.refresh,
                      exp     |-> IF "access" \in new THEN "nil" ELSE cred.exp]
  <2>1. UNCHANGED <<cred, mem>> /\ issued' = IF k > issued THEN k ELSE issued
    BY <1>1 DEF Tokens, procVars
  <2>2. k \in Nat \ {0} /\ issued' \in Nat /\ issued <= issued' /\ k \in 1..issued' /\ 1..issued \subseteq 1..issued'
    BY <1>0, <2>1 DEF Pair
  <2>3. cand \in Credential /\ new \in SUBSET {"access", "refresh"}
    BY <1>0 DEF Credential
  <2>4. cand.refresh \in 1..issued' /\ cred'.refresh \in 1..issued'
    BY <1>0, <2>1, <2>2
  <2>5. \/ Stop(t)
        \/ \E pc \in IF "access" \in new THEN {"store"} ELSE Verdict(new, cand) :
             call' = [call EXCEPT ![t] = [@ EXCEPT !.pc = pc, !.new = new, !.cur = cand]]
    BY <1>1 DEF Tokens
  <2> HIDE DEF new, cand
  <2>6. CASE Stop(t)
    BY <1>s, <2>1, <2>2, <2>4, <2>6
  <2>7. CASE \E pc \in IF "access" \in new THEN {"store"} ELSE Verdict(new, cand) :
               call' = [call EXCEPT ![t] = [@ EXCEPT !.pc = pc, !.new = new, !.cur = cand]]
    <3>1. \E pc \in CallPc \ NewPc :
            call' = [call EXCEPT ![t] = [@ EXCEPT !.pc = pc, !.new = new, !.cur = cand]]
      BY <1>b, <1>h, <2>7
    <3> QED BY <1>n, <2>1, <2>2, <2>3, <2>4, <3>1
  <2> QED BY <2>5, <2>6, <2>7
<1>2. CASE Store(t)
  <2>1. UNCHANGED <<issued, mem>> /\ cred'.refresh \in 1..issued
    BY <1>0, <1>2 DEF Store, remoteVars, procVars
  <2>2. Stop(t) \/ \E pc \in CallPc \ NewPc : Go(t, pc)
    BY <1>2, <1>h DEF Store
  <2> QED BY <1>0, <1>g, <1>s, <2>1, <2>2
<1>3. CASE Judge(t)
  <2>1. UNCHANGED <<issued, cred>> /\ UNCHANGED remoteVars
    BY <1>3 DEF Judge, remoteVars
  <2>2. \/ Exit(t, TRUE, call[t].cur)
        \/ UNCHANGED mem /\ (Stop(t) \/ \E pc \in CallPc \ NewPc : Go(t, pc))
    BY <1>3, <1>b DEF Judge, procVars
  <2>3. CASE Exit(t, TRUE, call[t].cur)
    BY <1>0, <1>e, <2>1, <2>3
  <2>4. CASE UNCHANGED mem /\ (Stop(t) \/ \E pc \in CallPc \ NewPc : Go(t, pc))
    BY <1>0, <1>g, <1>s, <2>1, <2>4
  <2> QED BY <2>2, <2>3, <2>4
<1>4. CASE Keep(t)
  <2>1. UNCHANGED issued /\ UNCHANGED remoteVars /\ cred'.refresh \in 1..issued
    BY <1>0, <1>4 DEF Keep, remoteVars
  <2>2. Exit(t, TRUE, call[t].cur) \/ (Stop(t) /\ UNCHANGED mem)
    BY <1>4 DEF Keep, procVars
  <2>3. CASE Exit(t, TRUE, call[t].cur)
    BY <1>e, <2>1, <2>3
  <2>4. CASE Stop(t) /\ UNCHANGED mem
    BY <1>0, <1>s, <2>1, <2>4
  <2> QED BY <2>2, <2>3, <2>4
<1>5. CASE Expire(t)
  <2>1. UNCHANGED <<issued, mem>>
    BY <1>5 DEF Expire, remoteVars, procVars
  <2>2. CASE Stop(t) /\ UNCHANGED cred
    BY <1>0, <1>s, <2>1, <2>2
  <2>3. CASE /\ cred' = [call[t].cur EXCEPT !.exp = "past"]
             /\ call' = [call EXCEPT ![t] = [@ EXCEPT !.pc = "giveback", !.cur = cred', !.new = {}]]
    <3> DEFINE r == [call[t] EXCEPT !.pc = "giveback", !.cur = cred', !.new = {}]
    <3>1. cred' \in Credential /\ cred'.refresh = call[t].cur.refresh
      BY <1>0, <2>3 DEF Credential
    <3>2. "giveback" \in CallPc \ NewPc
      BY <1>b
    <3>3. r \in Call /\ r.pc = "giveback" /\ r.cur.refresh = cred'.refresh
      BY <1>0, <3>1, <3>2 DEF Call
    <3>4. Turn(t, r)
      BY <2>3 DEF Turn
    <3> HIDE DEF r
    <3>5. Carries(t, r)
      BY <1>0, <1>c, <2>1, <3>1, <3>2, <3>3, RestCarries
    <3> QED BY <3>3, <3>4, <3>5
  <2> QED BY <1>5, <2>2, <2>3 DEF Expire
<1>6. CASE GiveBack(t)
  <2>1. UNCHANGED <<issued, mem, cred>> /\ Go(t, "acquire")
    BY <1>6 DEF GiveBack, remoteVars, procVars
  <2> QED BY <1>0, <1>b, <1>g, <2>1
<1> QED BY <1>1, <1>2, <1>3, <1>4, <1>5, <1>6 DEF Update

\* The steps keep the pairs known, and a new one unspent.
LEMMA PairStep ==
  ASSUME LeaseInv, PairInv, NewPairInv, Next
  PROVE  PairInv' /\ NewPairInv'
<1>0. /\ call \in [Thread -> Call] /\ Calls /\ RefreshesUnderLease /\ issued \in Nat /\ 1 \in 1..issued
      /\ mem \in [Proc -> Credential]
  BY LeaseAssumption DEF LeaseInv, Calls, Rows, Clients, Pair
<1>1. CASE LeaseExpires
  <2>1. /\ UNCHANGED <<issued, spent, cred, mem>>
        /\ \A t \in Thread : call'[t] = call[t] \/ call'[t] = [call[t] EXCEPT !.late = TRUE]
    BY <1>1 DEF LeaseExpires, remoteVars, procVars
  <2>2. \A t \in Thread : /\ call'[t].pc = call[t].pc /\ call'[t].cur = call[t].cur
                          /\ call[t].late => call'[t].late
    BY <1>0, <2>1 DEF Call
  <2> QED BY <2>1, <2>2 DEF PairInv, NewPairInv, Storing
<1>2. ASSUME NEW p \in Proc, Crash(p)
      PROVE  PairInv' /\ NewPairInv'
  <2>1. /\ UNCHANGED <<issued, spent, cred>> /\ mem' = [mem EXCEPT ![p] = Unknown]
        /\ \A t \in Thread : call'[t] = call[t] \/ call'[t] = Idle
    BY <1>2 DEF Crash, remoteVars
  <2>2. Unknown.refresh = 1 /\ Idle.cur.refresh = 1 /\ Idle.pc = "idle"
    BY DEF Unknown, Idle, Both
  <2>3. PairInv'
    BY <1>0, <2>1, <2>2 DEF PairInv
  <2>4. NewPairInv'
    BY <2>1, <2>2 DEF NewPairInv, Storing
  <2> QED BY <2>3, <2>4
<1>3. ASSUME NEW t \in Thread, NEW r \in Call, Turn(t, r), Carries(t, r)
      PROVE  PairInv' /\ NewPairInv'
  <2>1. \A u \in Thread : call'[u] = IF u = t THEN r ELSE call[u]
    BY <1>0, <1>3 DEF Turn
  <2>2. 1..issued \subseteq 1..issued' /\ issued' \in Nat
    BY <1>0, <1>3 DEF Carries
  <2>s. spent' \subseteq 1..issued
    <3>1. spent \subseteq 1..issued /\ call[t].cur.refresh \in 1..issued
      BY DEF PairInv
    <3>2. spent' = spent \/ spent' = spent \cup {call[t].cur.refresh}
      BY <1>3 DEF Carries
    <3> QED BY <3>1, <3>2
  <2>3. PairInv'
    <3>1. spent' \subseteq 1..issued'
      BY <2>2, <2>s
    <3>2. \A u \in Thread : call'[u].cur.refresh \in 1..issued'
      BY <1>3, <2>1, <2>2 DEF Carries, PairInv
    <3> QED BY <1>3, <3>1, <3>2 DEF Carries, PairInv
  <2>4. ASSUME NEW v \in Thread, call'[v].pc \in {"answered", "save"}, ~call'[v].late
        PROVE  /\ call'[v].cur.refresh \notin spent'
               /\ \A u \in Thread : call'[u].pc = "send" => call'[u].cur.refresh # call'[v].cur.refresh
    <3>1. CASE v = t
      <4>1. call'[v] = r /\ r.pc # "send"
        BY <2>1, <2>4, <3>1
      <4>2. CASE call[t].pc = "send" /\ issued' = issued + 1 /\ r.cur.refresh = issued'
        <5>1. issued' \notin 1..issued
          BY <1>0, <4>2
        <5> QED BY <2>1, <2>s, <3>1, <4>1, <4>2, <5>1 DEF PairInv
      <4>3. CASE /\ call[t].pc = "answered" /\ spent' = spent
                 /\ r.cur.refresh = call[t].cur.refresh /\ r.late = call[t].late
        <5>1. t \in Storing /\ ~call[t].late
          BY <2>4, <4>1, <4>3 DEF Storing
        <5>2. /\ call[t].cur.refresh \notin spent
              /\ \A u \in Thread : call[u].pc = "send" => call[u].cur.refresh # call[t].cur.refresh
          BY <5>1 DEF NewPairInv
        <5> QED BY <2>1, <3>1, <4>1, <4>3, <5>2
      <4> QED BY <1>3, <2>4, <4>1, <4>2, <4>3 DEF Carries
    <3>2. CASE v # t
      <4>1. call'[v] = call[v] /\ v \in Storing /\ ~call[v].late /\ call[v].pc \in RefreshPc
        BY <2>1, <2>4, <3>2, Places DEF Storing
      <4>2. /\ call[v].cur.refresh \notin spent
            /\ \A u \in Thread : call[u].pc = "send" => call[u].cur.refresh # call[v].cur.refresh
        BY <4>1 DEF NewPairInv
      <4>3. call[v].cur.refresh \notin spent'
        BY <1>3, <4>2 DEF Carries
      <4>4. r.pc # "send"
        <5> SUFFICES ASSUME r.pc = "send" PROVE FALSE
          OBVIOUS
        <5>1. call[t].pc = "acquire" /\ lease \in {"none", call[t].p}
          BY <1>3 DEF Carries, Grants
        <5>2. lease = call[v].p /\ call[v].p \in Proc
          BY <1>0, <4>1, Places DEF RefreshesUnderLease, Calls
        <5>3. call[v].p = call[t].p /\ call[t].pc \in MutexPc
          BY <5>1, <5>2, Places, LeaseAssumption DEF MutexPc
        <5> QED BY <1>0, <3>2, <4>1, <5>3, Alone
      <4> QED BY <2>1, <4>1, <4>2, <4>3, <4>4
    <3> QED BY <3>1, <3>2
  <2> QED BY <2>3, <2>4 DEF NewPairInv, Storing
<1> QED
  BY <1>1, <1>2, <1>3, OutsideCarries, FreshCarries, UpdateCarries DEF Next, Run, Wait

LEMMA PairInvariant == Spec => [](PairInv /\ NewPairInv)
<1>1. Init => PairInv /\ NewPairInv
  BY IdleRests DEF Init, PairInv, NewPairInv, Storing, Both, Unknown, Idle
<1>2. LeaseInv /\ PairInv /\ NewPairInv /\ [Next]_vars => (PairInv /\ NewPairInv)'
  <2>1. PairInv /\ NewPairInv /\ UNCHANGED vars => (PairInv /\ NewPairInv)'
    BY DEF PairInv, NewPairInv, Storing, vars
  <2> QED BY <2>1, PairStep
<1> QED BY <1>1, <1>2, LeaseInvariant, PTL DEF Spec

\* The pair a refresh has got is nobody's to spend while the lease lasts.
THEOREM NewPairsAreUnspent == Spec => []FreshPairs
<1>1. NewPairInv => FreshPairs
  BY DEF NewPairInv, FreshPairs
<1> QED BY <1>1, PairInvariant, PTL

\* A step of a goroutine that neither sends nor stores leaves the row and the
\* pairs as they are, and those who have a new pair to themselves.
LEMMA RowKept ==
  ASSUME NEW t \in Thread, call[t].pc \notin {"answered", "save"}, UNCHANGED <<spent, cred>>,
         \A u \in Thread : u # t => call'[u] = call[u], ~RowLost
  PROVE  ~RowLost'
<1>1. \A u \in Storing : u \in Storing'
  BY DEF Storing
<1> QED BY <1>1 DEF RowLost

LEMMA OutsideKeepsRow ==
  ASSUME \/ \E t \in Caller, p \in Proc : Start(t, p) \/ BeginCall(t, p)
         \/ \E t \in User, p \in Proc : BeginUpdate(t, p)
         \/ \E t \in Thread : GiveUp(t) \/ After(t) \/ ReadLock(t) \/ TakeSlot(t) \/ Announce(t) \/ WriteLock(t),
         call \in [Thread -> Call], ~RowLost
  PROVE  ~RowLost'
<1>1. UNCHANGED <<spent, cred>>
  BY DEF remoteVars, Start, BeginCall, BeginUpdate, GiveUp, After, ReadLock, TakeSlot, Announce, WriteLock
<1>2. \E t \in Thread : call[t].pc \notin {"answered", "save"} /\ \A u \in Thread : u # t => call'[u] = call[u]
  <2>1. CASE \/ \E t \in Caller, p \in Proc : Start(t, p) \/ BeginCall(t, p)
             \/ \E t \in User, p \in Proc : BeginUpdate(t, p)
    BY <2>1 DEF Start, BeginCall, BeginUpdate, Begin
  <2>2. CASE \E t \in Thread : GiveUp(t) \/ After(t)
    BY <2>2 DEF GiveUp, After, Leave, Stop
  <2>3. CASE \E t \in Thread : ReadLock(t) \/ TakeSlot(t) \/ Announce(t) \/ WriteLock(t)
    BY <2>3 DEF ReadLock, TakeSlot, Announce, WriteLock, Stop, Go
  <2> QED BY <2>1, <2>2, <2>3
<1> QED BY <1>1, <1>2, RowKept

LEMMA FreshKeepsRow ==
  ASSUME LeaseInv, PairInv, NewPairInv, NEW t \in Thread, Check(t) \/ EnsureFresh(t), ~Loses(t), ~RowLost
  PROVE  ~RowLost'
<1>1. PICK r \in Call : Turn(t, r)
  BY FreshCarries
<1>2. \A u \in Thread : call'[u] = IF u = t THEN r ELSE call[u]
  BY <1>1 DEF LeaseInv, Calls, Turn
<1>3. call[t] \in Call /\ call \in [Thread -> Call]
  BY DEF LeaseInv, Calls
<1>4. CASE Check(t) \/ Acquire(t) \/ Poll(t) \/ Cool(t) \/ Release(t)
  <2>1. UNCHANGED <<spent, cred>> /\ call[t].pc \notin {"answered", "save"}
    BY <1>4 DEF remoteVars, Check, Acquire, Poll, Cool, Release
  <2> QED BY <1>2, <2>1, RowKept
<1>5. CASE Send(t)
  <2>1. Go(t, "failed") => call'[t].pc = "failed"
    BY <1>3 DEF Go, Call
  <2>2. call' = [call EXCEPT ![t] = [@ EXCEPT !.pc = IF Reports(t) THEN "answered" ELSE "save",
                                             !.cur.refresh = issued + 1]]
    BY <1>5, <2>1 DEF Send, Loses
  <2>3. call'[t].pc \in {"answered", "save"}
    BY <1>3, <2>2 DEF Call
  <2> QED BY <2>3 DEF RowLost, Storing
<1>6. CASE Callback(t)
  <2>1. call'[t].pc = "save"
    BY <1>3, <1>6 DEF Callback, Call
  <2> QED BY <2>1 DEF RowLost, Storing
<1>7. CASE Save(t)
  <2>1. Go(t, "undo") => call'[t].pc = "undo"
    BY <1>3 DEF Go, Call
  <2>2. ~call[t].late /\ cred' = Both(call[t].cur.refresh, "time") /\ spent' = spent /\ t \in Storing
    BY <1>7, <2>1 DEF Save, Loses, Storing, remoteVars
  <2>3. cred'.refresh \notin spent'
    BY <2>2 DEF NewPairInv, Both
  <2> QED BY <2>3 DEF RowLost
<1> QED BY <1>4, <1>5, <1>6, <1>7 DEF EnsureFresh

LEMMA UpdateKeepsRow ==
  ASSUME LeaseInv, PairInv, NEW t \in Thread, Update(t), ~Loses(t), ~RowLost
  PROVE  ~RowLost'
<1>1. PICK r \in Call : Turn(t, r)
  BY UpdateCarries
<1>2. \A u \in Thread : call'[u] = IF u = t THEN r ELSE call[u]
  BY <1>1 DEF LeaseInv, Calls, Turn
<1>3. UNCHANGED <<spent, cred>> /\ call[t].pc \notin {"answered", "save"}
  BY DEF remoteVars, Update, Tokens, Judge, GiveBack, Loses
<1> QED BY <1>2, <1>3, RowKept

LEMMA RowLossStep ==
  ASSUME LeaseInv, PairInv, NewPairInv, Next
  PROVE  LosingRow
<1> SUFFICES ASSUME ~RowLost, ~(\E t \in Thread : Loses(t)), ~(\E p \in Proc : Crash(p))
             PROVE  ~RowLost'
  BY DEF LosingRow
<1>0. call \in [Thread -> Call]
  BY DEF LeaseInv, Calls
<1>1. CASE LeaseExpires
  <2>1. UNCHANGED <<spent, cred>> /\ \A t \in Thread : call'[t].pc = call[t].pc
    BY <1>0, <1>1 DEF LeaseExpires, remoteVars, Call
  <2> QED BY <2>1 DEF RowLost, Storing
<1>2. CASE ~LeaseExpires
  <2>1. \/ \/ \E t \in Caller, p \in Proc : Start(t, p) \/ BeginCall(t, p)
           \/ \E t \in User, p \in Proc : BeginUpdate(t, p)
           \/ \E t \in Thread : GiveUp(t) \/ After(t) \/ ReadLock(t) \/ TakeSlot(t) \/ Announce(t) \/ WriteLock(t)
        \/ \E t \in Thread : Check(t) \/ EnsureFresh(t)
        \/ \E t \in Thread : Update(t)
    BY <1>2 DEF Next, Run, Wait
  <2> QED BY <1>0, <2>1, OutsideKeepsRow, FreshKeepsRow, UpdateKeepsRow
<1> QED BY <1>1, <1>2

\* The row is lost by an answer, a save or an update that goes wrong, or a
\* process that dies, never by refreshes side by side.
THEOREM RowsLostOnlyThen == Spec => RowLostOnlyThen
<1>1. LeaseInv /\ PairInv /\ NewPairInv /\ [Next]_vars => [LosingRow]_vars
  BY RowLossStep
<1> QED BY <1>1, LeaseInvariant, PairInvariant, PTL DEF Spec, RowLostOnlyThen
=============================================================================
