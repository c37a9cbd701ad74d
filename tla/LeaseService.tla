---------------------------- MODULE LeaseService ----------------------------
(***************************************************************************)
(* What the lease in the database promises the clients that refresh the    *)
(* tokens under it (AcquireLease, ReleaseLease and how ensureFresh uses    *)
(* them), whatever goroutines, locks and tokens they have: a client that   *)
(* refreshes holds the lease until its time has passed, and nobody else    *)
(* takes it, prolongs it or gives it up.  A client that has outlived its   *)
(* lease is late; late clients are why refreshes can still overlap.        *)
(***************************************************************************)
CONSTANT Proc    \* the clients

VARIABLES
  owner,   \* whose the lease is: a client, "none", or "gone" for one that died
  use      \* per client: not refreshing ("out"), refreshing in time, or late

leaseVars == <<owner, use>>

Init == owner = "none" /\ use = [p \in Proc |-> "out"]

MayTake(p) == owner \in {"none", p}

\* A refresh begins.  One that a cooldown of the client itself precedes takes
\* the lease again.
Take(p) ==
  /\ use[p] = "out" /\ MayTake(p)
  /\ owner' = p
  /\ use' = [use EXCEPT ![p] = "in"]

\* A refresh ends and gives the lease up, if it is still its own, or leaves it.
Finish(p) ==
  /\ use[p] # "out"
  /\ owner' = owner \/ (owner = p /\ owner' = "none")
  /\ use' = [use EXCEPT ![p] = "out"]

\* A refresh fails and keeps the others away for a while.
CoolDown(p) ==
  /\ use[p] # "out" /\ MayTake(p)
  /\ owner' = p
  /\ use' = [use EXCEPT ![p] = "out"]

\* The user ends the cooldown of a client that does not refresh.
EndCoolDown(p) ==
  /\ use[p] = "out" /\ owner = p
  /\ owner' = "none"
  /\ UNCHANGED use

\* The time of the lease has passed.
TimeOut(p) ==
  /\ owner = p
  /\ owner' = "none"
  /\ use' = [use EXCEPT ![p] = IF @ = "in" THEN "late" ELSE @]

\* The lease of a client that has died stays until its time has passed.
Die(p) ==
  /\ owner' = IF owner = p THEN "gone" ELSE owner
  /\ use' = [use EXCEPT ![p] = "out"]

Forgotten == owner = "gone" /\ owner' = "none" /\ UNCHANGED use

Next ==
  \/ \E p \in Proc : Take(p) \/ Finish(p) \/ CoolDown(p) \/ EndCoolDown(p) \/ TimeOut(p) \/ Die(p)
  \/ Forgotten

Spec == Init /\ [][Next]_leaseVars

----------------------------------------------------------------------------
\* A client that refreshes in time is the owner, so no two of them do.
Exclusive == \A p \in Proc : use[p] = "in" => owner = p
=============================================================================
