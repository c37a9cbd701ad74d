---------------------------- MODULE DownloadURLs ----------------------------
(***************************************************************************)
(* Downloads through WebDAV (internal/transport/webdav/handler.go): a      *)
(* request needs a temporary address of 115 for its key, the pick code and *)
(* user agent.  Addresses are cached without an expiry, concurrent fetches *)
(* for a key are merged into one flight, and an address the download       *)
(* server refuses (401, 403, 410) is evicted and fetched again, once.      *)
(*                                                                         *)
(* An address is the number of the answer of 115 it came with: 115 signs a *)
(* new one for every call.  What the server answers to an address is open. *)
(* A flight is its leader, and closing its channel hands the result to the *)
(* requests that joined: both happen in one critical section.              *)
(***************************************************************************)
EXTENDS Naturals

CONSTANTS
  Key,          \* pick codes with a user agent
  Request,      \* GET and HEAD requests for a file
  Malformed,    \* the answers of 115 that are no http address
  NoOne         \* not a request

ASSUME DownloadAssumption == Malformed \subseteq Nat /\ NoOne \notin Request

VARIABLES
  entries,      \* cache.entries: the address of a key, or NoLink
  flights,      \* cache.flights: the leader of the fetch of a key, or NoOne
  reqs,         \* where each request is
  issued,       \* how many addresses 115 has given out for a key
  denied        \* history: the addresses that were refused to a client

downVars == <<entries, flights, reqs, issued, denied>>

NoLink == 0

Download == [at : {"new", "lookup", "join", "told", "fetch", "ask", "discard", "refused", "over"},
             key : Key,
             link : Nat,     \* the address in use, or the result of the flight that was joined
             first : Nat]    \* the address refused at the first attempt, NoLink during it

At(r, where) == reqs[r].at = where
KeyOf(r)     == reqs[r].key
Used(r)      == <<KeyOf(r), reqs[r].link>>

Goto(r, where)      == reqs' = [reqs EXCEPT ![r].at = where]
Follow(r, n)        == reqs' = [reqs EXCEPT ![r].at = "ask", ![r].link = n]

----------------------------------------------------------------------------
(* A request, and the first half of cachedDownloadURL.                     *)

\* No such file, no pick code, a condition of the request that is not met.
Reject(r) ==
  /\ At(r, "new") /\ Goto(r, "over")
  /\ UNCHANGED <<entries, flights, issued, denied>>

Come(r) ==
  /\ At(r, "new") /\ Goto(r, "lookup")
  /\ UNCHANGED <<entries, flights, issued, denied>>

Hit(r) ==
  /\ At(r, "lookup") /\ entries[KeyOf(r)] # NoLink
  /\ Follow(r, entries[KeyOf(r)])
  /\ UNCHANGED <<entries, flights, issued, denied>>

Join(r) ==
  /\ At(r, "lookup") /\ entries[KeyOf(r)] = NoLink /\ flights[KeyOf(r)] # NoOne
  /\ Goto(r, "join")
  /\ UNCHANGED <<entries, flights, issued, denied>>

\* Faulty variant of Lead: the flights are not looked at.
LeadAnyway(r) ==
  /\ At(r, "lookup") /\ entries[KeyOf(r)] = NoLink
  /\ Goto(r, "fetch") /\ flights' = [flights EXCEPT ![KeyOf(r)] = r]
  /\ UNCHANGED <<entries, issued, denied>>

Lead(r) ==
  /\ At(r, "lookup") /\ entries[KeyOf(r)] = NoLink /\ flights[KeyOf(r)] = NoOne
  /\ Goto(r, "fetch") /\ flights' = [flights EXCEPT ![KeyOf(r)] = r]
  /\ UNCHANGED <<entries, issued, denied>>

----------------------------------------------------------------------------
(* The second half, after the call to 115.                                 *)

\* The leader goes on at `where', those that joined its flight learn the result n.
Land(r, where, n) ==
  reqs' = [q \in Request |->
             IF q = r THEN [reqs[q] EXCEPT !.at = where, !.link = n]
             ELSE IF At(q, "join") /\ KeyOf(q) = KeyOf(r)
                  THEN [reqs[q] EXCEPT !.at = "told", !.link = n]
             ELSE reqs[q]]

\* Faulty variant of Fetched: the flight stays registered.
FetchedStays(r) ==
  LET k == KeyOf(r)
      n == issued[k] + 1
  IN /\ At(r, "fetch") /\ Land(r, "ask", n)
     /\ issued'  = [issued EXCEPT ![k] = n]
     /\ entries' = [entries EXCEPT ![k] = n]
     /\ UNCHANGED <<flights, denied>>

Fetched(r) ==
  LET k == KeyOf(r)
      n == issued[k] + 1
  IN /\ At(r, "fetch") /\ Land(r, "ask", n)
     /\ issued'  = [issued EXCEPT ![k] = n]
     /\ entries' = [entries EXCEPT ![k] = n]
     /\ flights' = [flights EXCEPT ![k] = NoOne]
     /\ UNCHANGED denied

\* Faulty variants of FetchFails: it unregisters the flight without closing it, or closes it
\* without unregistering it.
FailUnseen(r) ==
  /\ At(r, "fetch") /\ Goto(r, "over") /\ flights' = [flights EXCEPT ![KeyOf(r)] = NoOne]
  /\ UNCHANGED <<entries, issued, denied>>

FailStays(r) ==
  /\ At(r, "fetch") /\ Land(r, "over", NoLink)
  /\ UNCHANGED <<entries, flights, issued, denied>>

\* 115 answers with an error, or the client of the leader is gone: its context ends the call.
FetchFails(r) ==
  /\ At(r, "fetch") /\ Land(r, "over", NoLink)
  /\ flights' = [flights EXCEPT ![KeyOf(r)] = NoOne]
  /\ UNCHANGED <<entries, issued, denied>>

Wake(r) ==
  /\ At(r, "told")
  /\ IF reqs[r].link = NoLink THEN Goto(r, "over") ELSE Goto(r, "ask")
  /\ UNCHANGED <<entries, flights, issued, denied>>

\* The client of a request that joined is gone; select may take this case after the result, too.
Leave(r) ==
  /\ At(r, "join") \/ At(r, "told")
  /\ Goto(r, "over")
  /\ UNCHANGED <<entries, flights, issued, denied>>

----------------------------------------------------------------------------
(* The rest of download.                                                   *)

\* Faulty variants of Invalidate: the entry goes whatever it is; nothing goes.
InvalidateKey(r)  == entries' = [entries EXCEPT ![KeyOf(r)] = NoLink]
InvalidateNone(r) == UNCHANGED entries

\* invalidateDownloadURL: the entry goes only if it still is the address in use.
Invalidate(r) ==
  entries' = IF entries[KeyOf(r)] = reqs[r].link
             THEN [entries EXCEPT ![KeyOf(r)] = NoLink] ELSE entries

Unusable(r) ==
  /\ At(r, "ask") /\ reqs[r].link \in Malformed
  /\ Invalidate(r) /\ Goto(r, "over")
  /\ UNCHANGED <<flights, issued, denied>>

\* The file or another answer, which is passed on, or no answer at all.
Served(r) ==
  /\ At(r, "ask") /\ reqs[r].link \notin Malformed
  /\ Goto(r, "over")
  /\ UNCHANGED <<entries, flights, issued, denied>>

Refused(r) ==
  /\ At(r, "ask") /\ reqs[r].link \notin Malformed
  /\ Goto(r, "discard") /\ denied' = denied \cup {Used(r)}
  /\ UNCHANGED <<entries, flights, issued>>

\* The first refusal leads to the second attempt, the second one is passed on.
Evict(r) ==
  /\ At(r, "discard") /\ Invalidate(r)
  /\ IF reqs[r].first = NoLink
     THEN reqs' = [reqs EXCEPT ![r].at = "lookup", ![r].first = reqs[r].link]
     ELSE Goto(r, "refused")
  /\ UNCHANGED <<flights, issued, denied>>

----------------------------------------------------------------------------

DownInit ==
  /\ entries = [k \in Key |-> NoLink]
  /\ flights = [k \in Key |-> NoOne]
  /\ reqs \in [Request -> [at : {"new"}, key : Key, link : {NoLink}, first : {NoLink}]]
  /\ issued = [k \in Key |-> 0]
  /\ denied = {}

\* What goes on by itself: 115 and the download server answer, or their calls fail.
Progress(r) ==
  \/ Hit(r) \/ Join(r) \/ Lead(r) \/ Fetched(r) \/ FetchFails(r) \/ Wake(r)
  \/ Unusable(r) \/ Served(r) \/ Refused(r) \/ Evict(r)

DownNext == \E r \in Request : Reject(r) \/ Come(r) \/ Leave(r) \/ Progress(r)

DownSpec     == DownInit /\ [][DownNext]_downVars
DownFairSpec == DownSpec /\ \A r \in Request : WF_downVars(Progress(r))

----------------------------------------------------------------------------
(* Properties.                                                             *)

\* The types; an address in use is one that 115 has given out for the key.
DownTypeOK ==
  /\ issued \in [Key -> Nat]
  /\ entries \in [Key -> Nat] /\ \A k \in Key : entries[k] <= issued[k]
  /\ flights \in [Key -> Request \cup {NoOne}]
  /\ reqs \in [Request -> Download]
  /\ \A r \in Request : reqs[r].link <= issued[KeyOf(r)] /\ reqs[r].first <= issued[KeyOf(r)]
  /\ denied \subseteq Key \X Nat /\ \A p \in denied : p[2] <= issued[p[1]]

\* 115 is asked by one request at a time for a key, the leader of its flight, and not while the
\* key has an address: two locks are taken around the call, and the state may change between.
OneCallPerKey ==
  /\ \A r \in Request : At(r, "fetch") => flights[KeyOf(r)] = r
  /\ \A k \in Key : flights[k] # NoOne =>
       entries[k] = NoLink /\ At(flights[k], "fetch") /\ KeyOf(flights[k]) = k

\* A request that joined a flight waits for one that is still going on: whatever becomes of the
\* leader, nobody waits for a channel that no one will close.
JoinedFlightsAreLed == \A r \in Request : At(r, "join") => flights[KeyOf(r)] # NoOne

\* An address 115 has given out is cached until it has been refused to a client or was none: a
\* late refusal of an old address never costs the new one, and 115 is not asked once more.
LinksWereRefused ==
  \A k \in Key : \A n \in 1..issued[k] :
    n = entries[k] \/ n \in Malformed \/ <<k, n>> \in denied

\* The second attempt never uses the address that was refused at the first one, even if others
\* were fetching, evicting and caching for the key: a refusal passed on is that of two addresses.
RetryUsesNewer ==
  \A r \in Request :
    /\ reqs[r].first # NoLink /\ reqs[r].at \in {"ask", "discard"} => reqs[r].link > reqs[r].first
    /\ At(r, "refused") => reqs[r].link > reqs[r].first /\ reqs[r].first # NoLink

\* The handler implements the cache of addresses.
Cache == INSTANCE AddressCache WITH
           held <- entries, fetching <- {k \in Key : flights[k] # NoOne}
ImplementsCache == Cache!CacheSpec

\* A request that comes is over at some time, if 115 and the download server answer or their
\* calls fail: no one waits for a flight that has ended without it.
DownloadsEnd == \A r \in Request : ~At(r, "new") ~> reqs[r].at \in {"refused", "over"}
=============================================================================
