---------------------------- MODULE AddressCache ----------------------------
(***************************************************************************)
(* What the cache of download addresses promises, without its clients: one *)
(* fetch at a time for a key, and only while the key has no address; an     *)
(* address stays until it was refused or is no address; what was refused   *)
(* never comes back.                                                       *)
(***************************************************************************)
EXTENDS Naturals

CONSTANTS
  Key,          \* what an address is cached for
  Malformed     \* the addresses that are none

VARIABLES
  held,         \* the address of a key, or 0
  fetching,     \* the keys being fetched
  denied        \* the pairs of a key and an address that was refused

cacheVars == <<held, fetching, denied>>

CacheInit == held = [k \in Key |-> 0] /\ fetching = {} /\ denied = {}

Begin(k) ==
  /\ held[k] = 0 /\ k \notin fetching
  /\ fetching' = fetching \cup {k}
  /\ UNCHANGED <<held, denied>>

Succeed(k) ==
  /\ k \in fetching /\ fetching' = fetching \ {k}
  /\ held' = [held EXCEPT ![k] = held'[k]]
  /\ held'[k] \in Nat \ {0} /\ <<k, held'[k]>> \notin denied
  /\ UNCHANGED denied

Fail(k) ==
  /\ k \in fetching /\ fetching' = fetching \ {k}
  /\ UNCHANGED <<held, denied>>

Deny(k) ==
  /\ denied \subseteq denied' /\ denied' \ denied \subseteq {k} \X Nat
  /\ UNCHANGED <<held, fetching>>

Drop(k) ==
  /\ held[k] \in Malformed \/ <<k, held[k]>> \in denied
  /\ held' = [held EXCEPT ![k] = 0]
  /\ UNCHANGED <<fetching, denied>>

CacheNext == \E k \in Key : Begin(k) \/ Succeed(k) \/ Fail(k) \/ Deny(k) \/ Drop(k)

CacheSpec == CacheInit /\ [][CacheNext]_cacheVars
=============================================================================
