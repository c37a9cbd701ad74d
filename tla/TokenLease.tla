----------------------------- MODULE TokenLease -----------------------------
(***************************************************************************)
(* internal/provider/p115: how the processes that share one database keep  *)
(* the 115 tokens fresh.  A process wraps every API call in before and     *)
(* after: a read lock, a slot of the limiter, and ensureFresh, which       *)
(* refreshes a token that is about to expire under a lease stored in the   *)
(* database.  UpdateTokens imports tokens a user has entered.              *)
(*                                                                         *)
(* 115 is external: a refresh token works once and yields the next pair of *)
(* tokens.  A step is one statement on the database, one request to 115 or *)
(* one wait for a lock or the limiter, with the local statements that      *)
(* follow it.  Left out: the rate of calls, the import of tokens from old  *)
(* configuration files, and what the SDK does when 115 rejects an access   *)
(* token in the middle of a call, and empty tokens.                        *)
(***************************************************************************)
EXTENDS Naturals, FiniteSets

CONSTANTS
  Proc,      \* clients, each with an owner name of its own
  Caller,    \* goroutines that call 115
  User,      \* goroutines that serve a user who edits the tokens
  Slots,     \* calls a client makes at the same time
  MaxPair    \* bound on the pairs of tokens 115 issues

ASSUME LeaseAssumption ==
  /\ Slots \in Nat \ {0} /\ MaxPair \in Nat \ {0}
  /\ Caller \cap User = {} /\ IsFiniteSet(Caller)
  /\ Proc \cap {"none", "gone"} = {}

VARIABLES
  issued,    \* 115: how many pairs of tokens it has issued
  spent,     \* 115: the pairs whose refresh token has been used
  cred,      \* the row of credentials
  lease,     \* the row of leases: whose it is until its time has passed
  status,    \* whether a process runs and its client is available
  mem,       \* Client.credential, but for the refresh token the one in Client.sdk
  hooked,    \* whether Client.sdk has an OnRefreshToken
  slots,     \* how many slots of Client.limiter are taken
  call       \* the goroutines

remoteVars == <<issued, spent>>
procVars   == <<status, mem, hooked, slots>>
vars == <<issued, spent, cred, lease, status, mem, hooked, slots, call>>

Thread == Caller \cup User
Pair   == 1..MaxPair

\* A Credential: its tokens, named by the pair they came in, and what is known
\* of its expiry: nothing, the time 115 has told, or that it has passed.
Credential == [access : Pair, refresh : Pair, exp : {"nil", "time", "past"}]
Both(k, e) == [access |-> k, refresh |-> k, exp |-> e]
Unknown    == Both(1, "past")
\* Whether it expires within refreshAhead: time passes, and is not modelled.
Expiring(c) == CASE c.exp = "past" -> {TRUE} [] c.exp = "time" -> BOOLEAN [] c.exp = "nil" -> {FALSE}

\* A goroutine: where it is, in which client, the credential it works on, the
\* tokens an update changes, and whether its lease has run out.
Idle == [pc |-> "idle", p |-> "none", cur |-> Unknown, new |-> {}, late |-> FALSE]

----------------------------------------------------------------------------
(* Locks: where a goroutine is tells what it holds.                        *)

RefreshPc == {"send", "answered", "failed", "save", "release", "undo"}
FreshPc   == {"acquire", "poll"} \cup RefreshPc
SlotPc    == {"mutex", "api"} \cup FreshPc
UpdatePc  == {"tokens", "store", "judge", "keep", "expire", "giveback"} \cup FreshPc

At(t, pc) == call[t].pc = pc
Of(p)     == {t \in Thread : call[t].p = p}

Readers(p) == {t \in Of(p) \cap Caller : call[t].pc \in {"slot"} \cup SlotPc}
\* An update that waits for the readers to leave keeps new ones out.
Writers(p) == {t \in Of(p) \cap User : call[t].pc \in {"drain"} \cup UpdatePc}
\* Who is inside ensureFresh, or updates, has refreshMu.
RefreshMuFree(p) == \A t \in Of(p) : call[t].pc \notin FreshPc \cup UpdatePc

Go(t, pc)       == call' = [call EXCEPT ![t] = [@ EXCEPT !.pc = pc]]
Begin(t, p, pc) == call' = [call EXCEPT ![t] = [Idle EXCEPT !.pc = pc, !.p = p]]
Stop(t)         == call' = [call EXCEPT ![t] = Idle]

----------------------------------------------------------------------------
(* before and after.                                                       *)

\* The lease's time has passed; who still refreshes under it is late.
LeaseExpires ==
  /\ lease # "none"
  /\ lease' = "none"
  /\ call' = [t \in Thread |-> IF call[t].p = lease /\ call[t].pc \in RefreshPc
                               THEN [call[t] EXCEPT !.late = TRUE] ELSE call[t]]
  /\ UNCHANGED <<remoteVars, cred, procVars>>

\* A process starts with what is stored; its first call is a probe.
Start(t, p) ==
  /\ status[p] = "down" /\ At(t, "idle")
  /\ status' = [status EXCEPT ![p] = "starting"]
  /\ mem' = [mem EXCEPT ![p] = cred]
  /\ hooked' = [hooked EXCEPT ![p] = TRUE]
  /\ Begin(t, p, "read")
  /\ UNCHANGED <<remoteVars, cred, lease, slots>>

\* A process ends, at any point.  The next one has another owner name.
Crash(p) ==
  /\ status[p] # "down"
  /\ status' = [status EXCEPT ![p] = "down"]
  /\ slots' = [slots EXCEPT ![p] = 0]
  /\ lease' = IF lease = p THEN "gone" ELSE lease
  /\ call' = [t \in Thread |-> IF call[t].p = p THEN Idle ELSE call[t]]
  /\ mem' = [mem EXCEPT ![p] = Unknown] /\ hooked' = [hooked EXCEPT ![p] = TRUE]
  /\ UNCHANGED <<remoteVars, cred>>

BeginCall(t, p) ==
  /\ At(t, "idle") /\ status[p] \in {"up", "disabled"}
  /\ Begin(t, p, "read")
  /\ UNCHANGED <<remoteVars, cred, lease, procVars>>

\* requestMu.RLock, and whether the client is available.
ReadLock(t) ==
  /\ At(t, "read") /\ Writers(call[t].p) = {}
  /\ IF status[call[t].p] = "disabled" THEN Stop(t) ELSE Go(t, "slot")
  /\ UNCHANGED <<remoteVars, cred, lease, procVars>>

TakeSlot(t) ==
  /\ At(t, "slot") /\ slots[call[t].p] < Slots
  /\ slots' = [slots EXCEPT ![call[t].p] = @ + 1]
  /\ Go(t, "mutex")
  /\ UNCHANGED <<remoteVars, cred, lease, status, mem, hooked>>

\* A probe settles whether the client is available.
Probed(p, ok) == IF status[p] = "starting" THEN [status EXCEPT ![p] = IF ok THEN "up" ELSE "disabled"]
                 ELSE status

\* The context of a call is done while it waits for a slot.
GiveUp(t) ==
  /\ At(t, "slot")
  /\ status' = Probed(call[t].p, FALSE)
  /\ Stop(t)
  /\ UNCHANGED <<remoteVars, cred, lease, mem, hooked, slots>>

\* Faulty variant of Leave: a call that got no token keeps its slot.
LeaveWithSlot(t, ok) ==
  LET p == call[t].p
  IN  slots' = [slots EXCEPT ![p] = IF ok THEN @ - 1 ELSE @] /\ status' = Probed(p, ok) /\ Stop(t)

\* before fails, or after: the slot and the read lock are given back.
Leave(t, ok) ==
  LET p == call[t].p
  IN  slots' = [slots EXCEPT ![p] = @ - 1] /\ status' = Probed(p, ok) /\ Stop(t)

\* The call to 115 has returned.
After(t) ==
  /\ At(t, "api")
  /\ Leave(t, TRUE)
  /\ UNCHANGED <<remoteVars, cred, lease, mem, hooked>>

----------------------------------------------------------------------------
(* ensureFresh.                                                            *)

\* ensureFresh returns to a call or to an update: c is what it leaves in the
\* client, and the locks it was called under are unlocked.  An update that fails
\* here leaves its SDK without OnRefreshToken.
Exit(t, ok, c) ==
  LET p == call[t].p
  IN  /\ mem' = [mem EXCEPT ![p] = c]
      /\ hooked' = IF t \in User THEN [hooked EXCEPT ![p] = ok] ELSE hooked
      /\ \/ /\ t \in User
            /\ status' = IF ok THEN [status EXCEPT ![p] = "up"] ELSE status
            /\ Stop(t) /\ UNCHANGED slots
         \/ t \in Caller /\ ok /\ Begin(t, p, "api") /\ UNCHANGED <<status, slots>>
         \/ t \in Caller /\ ~ok /\ Leave(t, FALSE)

\* refreshMu.Lock, getCredential and whether that is about to expire.
Check(t) ==
  LET c == mem[call[t].p]
  IN  /\ At(t, "mutex") /\ RefreshMuFree(call[t].p)
      /\ \/ /\ TRUE \in Expiring(c)
            /\ call' = [call EXCEPT ![t] = [@ EXCEPT !.pc = "acquire", !.cur = c]]
            /\ UNCHANGED procVars
         \/ FALSE \in Expiring(c) /\ Exit(t, TRUE, c)
      /\ UNCHANGED <<remoteVars, cred, lease>>

\* Faulty variant of Grants: the row is written whoever owns it.
GrantsAnyway(p) == TRUE

\* AcquireLease: the row is missing, has expired or is the owner's own.
Grants(p) == lease \in {"none", p}

\* AcquireLease may also fail.
Acquire(t) ==
  /\ At(t, "acquire")
  /\ \/ Grants(call[t].p) /\ lease' = call[t].p /\ Go(t, "send") /\ UNCHANGED procVars
     \/ ~Grants(call[t].p) /\ Go(t, "poll") /\ UNCHANGED <<lease, procVars>>
     \/ Exit(t, FALSE, call[t].cur) /\ UNCHANGED lease
  /\ UNCHANGED <<remoteVars, cred>>

\* Faulty variant of Poll: no deadline.
PollForEver(t) ==
  /\ At(t, "poll") /\ cred.access # call[t].cur.access
  /\ Exit(t, TRUE, cred)
  /\ UNCHANGED <<remoteVars, cred, lease>>

\* Another process refreshes: the row is read until its access token changes,
\* or the time is up.
Poll(t) ==
  /\ At(t, "poll")
  /\ \/ cred.access # call[t].cur.access /\ Exit(t, TRUE, cred)
     \/ Exit(t, FALSE, call[t].cur)
  /\ UNCHANGED <<remoteVars, cred, lease>>

\* The SDK of an update, or of a client whose last update failed, has nobody to
\* report to.
Reports(t) == t \in Caller /\ hooked[call[t].p]

\* 115 gives a new pair for a refresh token that has not been used, and the
\* SDK goes on with it; the answer can get lost.  Or the request fails.
Send(t) ==
  /\ At(t, "send")
  /\ \/ /\ call[t].cur.refresh \notin spent /\ issued < MaxPair
        /\ issued' = issued + 1
        /\ spent' = spent \cup {call[t].cur.refresh}
        /\ \/ call' = [call EXCEPT ![t] = [@ EXCEPT !.pc = IF Reports(t) THEN "answered" ELSE "save",
                                                    !.cur.refresh = issued + 1]]
           \/ Go(t, "failed")
     \/ Go(t, "failed") /\ UNCHANGED remoteVars
  /\ UNCHANGED <<cred, lease, procVars>>

\* The SDK reports the pair to OnRefreshToken, which stores it without an expiry.
Callback(t) ==
  LET new == Both(call[t].cur.refresh, "nil")
  IN  /\ At(t, "answered")
      /\ cred' \in {cred, new}
      /\ call' = [call EXCEPT ![t] = [@ EXCEPT !.pc = "save", !.cur = new]]
      /\ UNCHANGED <<remoteVars, lease, procVars>>

\* The pair is stored with its expiry, unless the context is done.
Save(t) ==
  LET new == Both(call[t].cur.refresh, "time")
  IN  /\ At(t, "save")
      /\ \/ cred' = new /\ call' = [call EXCEPT ![t] = [@ EXCEPT !.pc = "release", !.cur = new]]
         \/ Go(t, "undo") /\ UNCHANGED cred
      /\ UNCHANGED <<remoteVars, lease, procVars>>

\* Faulty variant of Cool: the cooldown is written without asking whose the
\* lease is by now.
CoolAnyway(t) ==
  /\ At(t, "failed")
  /\ \/ lease' = call[t].p /\ Exit(t, FALSE, call[t].cur)
     \/ Go(t, "undo") /\ UNCHANGED <<lease, procVars>>
  /\ UNCHANGED <<remoteVars, cred>>

\* After a failure the lease is prolonged and kept, as a cooldown.
Cool(t) ==
  /\ At(t, "failed")
  /\ \/ Grants(call[t].p) /\ lease' = call[t].p /\ Exit(t, FALSE, call[t].cur)
     \/ Go(t, "undo") /\ UNCHANGED <<lease, procVars>>
  /\ UNCHANGED <<remoteVars, cred>>

\* Faulty variant of Released: the row goes whoever owns it.
ReleasedAnyway(p) == {"none", lease}

\* ReleaseLease: the row goes if it is the owner's.  An error is ignored.
Released(p) == IF lease = p THEN {"none", p} ELSE {lease}

\* ensureFresh has succeeded ("release") or failed ("undo").
Release(t) ==
  /\ call[t].pc \in {"release", "undo"}
  /\ lease' \in Released(call[t].p)
  /\ Exit(t, At(t, "release"), call[t].cur)
  /\ UNCHANGED <<remoteVars, cred>>

----------------------------------------------------------------------------
(* UpdateTokens.                                                           *)

BeginUpdate(t, p) ==
  /\ At(t, "idle") /\ status[p] \in {"up", "disabled"}
  /\ Begin(t, p, "write")
  /\ UNCHANGED <<remoteVars, cred, lease, procVars>>

\* requestMu.Lock: no new readers ...
Announce(t) ==
  /\ At(t, "write") /\ Writers(call[t].p) = {}
  /\ Go(t, "drain")
  /\ UNCHANGED <<remoteVars, cred, lease, procVars>>

\* ... and those that are there leave.  Then refreshMu is free.
WriteLock(t) ==
  /\ At(t, "drain") /\ Readers(call[t].p) = {}
  /\ Go(t, "tokens")
  /\ UNCHANGED <<remoteVars, cred, lease, procVars>>

\* A new refresh token or an access token that has expired is refreshed, of
\* another access token 115 is asked.
Verdict(new, c) == {IF "refresh" \in new \/ x THEN "expire" ELSE "judge" : x \in Expiring(c)}

\* Submitted are the refresh token or the access token of pair k, both or
\* neither; k is one 115 has issued, maybe now and to the user.  The candidate
\* is the stored credential with them in it.
Tokens(t, k, sub) ==
  LET new  == {f \in sub : cred[f] # k}
      cand == [access  |-> IF "access" \in new THEN k ELSE cred.access,
               refresh |-> IF "refresh" \in new THEN k ELSE cred.refresh,
               exp     |-> IF "access" \in new THEN "nil" ELSE cred.exp]
  IN  /\ At(t, "tokens")
      /\ k <= issued + 1 /\ issued' = IF k > issued THEN k ELSE issued
      /\ \/ \E pc \in IF "access" \in new THEN {"store"} ELSE Verdict(new, cand) :
              call' = [call EXCEPT ![t] = [@ EXCEPT !.pc = pc, !.new = new, !.cur = cand]]
         \/ Stop(t)
      /\ UNCHANGED <<spent, cred, lease, procVars>>

\* SaveCredential of a new access token, before it is judged.
Store(t) ==
  /\ At(t, "store")
  /\ \/ cred' = call[t].cur /\ \E pc \in Verdict(call[t].new, cred') : Go(t, pc)
     \/ Stop(t) /\ UNCHANGED cred
  /\ UNCHANGED <<remoteVars, lease, procVars>>

\* 115 is asked whether the access token is valid; one that is not is refreshed.
\* A request that fails ends the update.
Judge(t) ==
  /\ At(t, "judge")
  /\ \/ Go(t, "expire") /\ UNCHANGED procVars
     \/ "access" \in call[t].new /\ Go(t, "keep") /\ UNCHANGED procVars
     \/ "access" \notin call[t].new /\ Exit(t, TRUE, call[t].cur)
     \/ Stop(t) /\ UNCHANGED procVars
  /\ UNCHANGED <<remoteVars, cred, lease>>

\* A valid new access token is saved once more.
Keep(t) ==
  /\ At(t, "keep")
  /\ \/ cred' = call[t].cur /\ Exit(t, TRUE, call[t].cur)
     \/ Stop(t) /\ UNCHANGED <<cred, procVars>>
  /\ UNCHANGED <<remoteVars, lease>>

\* The candidate is saved as expired: the refresh token is kept for a retry.
Expire(t) ==
  /\ At(t, "expire")
  /\ \/ /\ cred' = [call[t].cur EXCEPT !.exp = "past"]
        /\ call' = [call EXCEPT ![t] = [@ EXCEPT !.pc = "giveback", !.cur = cred', !.new = {}]]
     \/ Stop(t) /\ UNCHANGED cred
  /\ UNCHANGED <<remoteVars, lease, procVars>>

\* A cooldown of this client ends, and ensureFresh is called.
GiveBack(t) ==
  /\ At(t, "giveback")
  /\ lease' \in Released(call[t].p)
  /\ Go(t, "acquire")
  /\ UNCHANGED <<remoteVars, cred, procVars>>

----------------------------------------------------------------------------
Init ==
  /\ issued = 1
  /\ spent = {}
  /\ cred = Both(1, "past")
  /\ lease = "none"
  /\ status = [p \in Proc |-> "down"]
  /\ mem = [p \in Proc |-> Unknown] /\ hooked = [p \in Proc |-> TRUE]
  /\ slots = [p \in Proc |-> 0]
  /\ call = [t \in Thread |-> Idle]

EnsureFresh(t) ==
  Acquire(t) \/ Poll(t) \/ Send(t) \/ Callback(t) \/ Save(t) \/ Cool(t) \/ Release(t)
Update(t) ==
  \/ \E k \in Pair, sub \in SUBSET {"access", "refresh"} : Tokens(t, k, sub)
  \/ Store(t) \/ Judge(t) \/ Keep(t) \/ Expire(t) \/ GiveBack(t)

\* Steps that wait for nobody, and steps that wait for a lock or a slot.
Run(t)  == EnsureFresh(t) \/ Update(t) \/ After(t)
Wait(t) == ReadLock(t) \/ TakeSlot(t) \/ Check(t) \/ Announce(t) \/ WriteLock(t)

Next ==
  \/ LeaseExpires
  \/ \E t \in Caller, p \in Proc : Start(t, p) \/ BeginCall(t, p)
  \/ \E t \in User, p \in Proc : BeginUpdate(t, p)
  \/ \E p \in Proc : Crash(p)
  \/ \E t \in Thread : Run(t) \/ Wait(t) \/ GiveUp(t)

Spec == Init /\ [][Next]_vars

\* Goroutines run, statements and requests return, the fifteen seconds another
\* process is given pass, and Go's locks and channels serve who waits long.
Fairness == \A t \in Thread : WF_vars(Run(t)) /\ SF_vars(Wait(t))

FairSpec == Spec /\ Fairness

----------------------------------------------------------------------------
(* Properties.                                                             *)

CallPc == {"idle", "read", "slot", "write", "drain"} \cup SlotPc \cup UpdatePc

Call   == [pc : CallPc, p : Proc \cup {"none"}, cur : Credential,
           new : SUBSET {"access", "refresh"}, late : BOOLEAN]

\* Who holds a slot of p.
Holders(p) == {t \in Of(p) \cap Caller : call[t].pc \in SlotPc}

\* Every variable has the shape its declaration says.
LeaseTypeOK ==
  /\ issued \in Pair /\ spent \subseteq Pair
  /\ cred \in Credential
  /\ lease \in Proc \cup {"none", "gone"}
  /\ status \in [Proc -> {"down", "starting", "up", "disabled"}]
  /\ mem \in [Proc -> Credential] /\ hooked \in [Proc -> BOOLEAN]
  /\ slots \in [Proc -> 0..Slots]
  /\ call \in [Thread -> Call]
  /\ \A t \in Thread : At(t, "idle") \/ call[t].p \in Proc

\* The limiter counts exactly the calls that hold a slot, whichever way they
\* end: a slot is neither lost nor given back twice (before, after).
SlotsCounted == \A p \in Proc : slots[p] = Cardinality(Holders(p))

\* Who refreshes has the lease, or its time has run out: another's lease or
\* cooldown is never overrun, and an update or a failing refresh never gives up
\* the lease of somebody else.
RefreshesUnderLease ==
  \A t \in Thread : call[t].pc \in RefreshPc => call[t].late \/ lease = call[t].p

\* Two refreshes are never on their way at once, in one process or in two,
\* unless one has outlived its lease.
OneRefresher ==
  \A t, u \in Thread : call[t].pc \in RefreshPc /\ call[u].pc \in RefreshPc =>
    t = u \/ call[t].late \/ call[u].late

\* Who has got a pair that is not stored yet.
Storing == {t \in Thread : call[t].pc \in {"answered", "save"}}

\* The pair a refresh has got is unused until it is stored: nobody gets hold of
\* it, by a poll, a start or an update, and spends it meanwhile, unless the
\* refresh has outlived its lease (ensureFresh, OnRefreshToken).
FreshPairs == \A t \in Storing : call[t].late \/ call[t].cur.refresh \notin spent

\* The stored refresh token has been used, and nobody is about to replace it:
\* whoever starts from the row is refused, until a user enters new tokens or a
\* process that remembers a later pair refreshes with it.
RowLost == cred.refresh \in spent /\ Storing = {}

Loses(t) ==
  \/ Send(t) /\ call'[t].pc = "failed"
  \/ Save(t) /\ (call[t].late \/ call'[t].pc = "undo")
  \/ Store(t) \/ Keep(t) \/ Expire(t)
LosingRow == ~RowLost /\ RowLost' => (\E t \in Thread : Loses(t)) \/ \E p \in Proc : Crash(p)

\* The row is lost only by an answer of 115 that gets lost, a save that fails or
\* that follows the end of the lease, an update that writes what it has read
\* before or a user has entered, or a process that dies: never because calls,
\* probes and updates of several processes refresh side by side.
RowLostOnlyThen == [][LosingRow]_vars

\* A client refreshes while one of its goroutines does.
Refreshers(p) == {t \in Of(p) : call[t].pc \in RefreshPc}
UseOf(p) == IF Refreshers(p) = {} THEN "out"
            ELSE IF \E t \in Refreshers(p) : call[t].late THEN "late" ELSE "in"

Lease == INSTANCE LeaseService WITH owner <- lease, use <- [p \in Proc |-> UseOf(p)]

\* Calls, probes and updates of all clients together use the lease as the lease
\* service allows: a refresh begins only under a lease of its own and with no
\* other of its client on its way, and a lease is taken, prolonged and given up
\* by whom it belongs to only (ensureFresh, UpdateTokens, AcquireLease,
\* ReleaseLease).
ImplementsLease == Lease!Spec

\* Every call and every update comes to its end: nobody waits for ever for
\* requestMu, a slot, refreshMu or another process.
CallsEnd == \A t \in Thread : ~At(t, "idle") ~> At(t, "idle")
=============================================================================
