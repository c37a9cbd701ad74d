------------------------- MODULE DownloadURLsProofs -------------------------
(***************************************************************************)
(* Proofs about DownloadURLs, for any sets of keys and requests: its safety *)
(* properties, and that it implements AddressCache.                        *)
(***************************************************************************)
EXTENDS DownloadURLs, TLAPS

\* The address of a key, if it has one, is the last 115 has given out.
LastIsCached == \A k \in Key : entries[k] \in {NoLink, issued[k]}

\* An address in use is one, and a client that discards it has been refused with it.
UsesAreReal ==
  \A r \in Request :
    /\ reqs[r].at \in {"ask", "discard"} => reqs[r].link # NoLink
    /\ At(r, "discard") => Used(r) \in denied

\* What the first attempt was refused with is neither cached again nor handed on by a flight.
FirstIsPast ==
  \A r \in Request : reqs[r].first # NoLink =>
    /\ entries[KeyOf(r)] = NoLink \/ entries[KeyOf(r)] > reqs[r].first
    /\ At(r, "told") => reqs[r].link = NoLink \/ reqs[r].link > reqs[r].first

DownInv ==
  /\ DownTypeOK /\ OneCallPerKey /\ JoinedFlightsAreLed /\ LinksWereRefused
  /\ LastIsCached /\ UsesAreReal /\ FirstIsPast /\ RetryUsesNewer

LEMMA DownInvInit == DownInit => DownInv
BY DownloadAssumption
DEF DownInit, DownInv, DownTypeOK, OneCallPerKey, JoinedFlightsAreLed, LinksWereRefused,
    LastIsCached, UsesAreReal, FirstIsPast, RetryUsesNewer, Download, At, KeyOf, Used, NoLink

----------------------------------------------------------------------------
(* What a step does to the requests, field by field.                       *)

\* Request r goes to `where', with the address n and the refused address f; no other moves.
Moved(r, where, n, f) ==
  /\ \A q \in Request : q # r => reqs'[q] = reqs[q]
  /\ reqs' \in [Request -> Download]
  /\ reqs'[r].at = where /\ reqs'[r].key = KeyOf(r)
  /\ reqs'[r].link = n /\ reqs'[r].first = f

LEMMA GotoMoves ==
  ASSUME DownTypeOK, NEW r \in Request,
         NEW where \in {"lookup", "join", "fetch", "ask", "discard", "refused", "over"},
         Goto(r, where)
  PROVE  Moved(r, where, reqs[r].link, reqs[r].first)
<1>1. reqs \in [Request -> Download]
  BY DEF DownTypeOK
<1>2. reqs[r] \in Download
  BY <1>1
<1>3. [reqs[r] EXCEPT !.at = where] \in Download
  BY <1>2 DEF Download
<1>4. reqs' = [reqs EXCEPT ![r] = [reqs[r] EXCEPT !.at = where]]
  BY <1>1 DEF Goto
<1>5. reqs' \in [Request -> Download] /\ reqs'[r] = [reqs[r] EXCEPT !.at = where]
  BY <1>1, <1>3, <1>4
<1> QED BY <1>1, <1>2, <1>4, <1>5 DEF Moved, KeyOf, Download

LEMMA FollowMoves ==
  ASSUME DownTypeOK, NEW r \in Request, NEW n \in Nat, Follow(r, n)
  PROVE  Moved(r, "ask", n, reqs[r].first)
<1> DEFINE d == [[reqs[r] EXCEPT !.at = "ask"] EXCEPT !.link = n]
<1>1. reqs \in [Request -> Download]
  BY DEF DownTypeOK
<1>2. reqs[r] \in Download
  BY <1>1
<1>3. d \in Download
  BY <1>2 DEF Download
<1>4. reqs' = [reqs EXCEPT ![r] = d]
  BY <1>1 DEF Follow
<1>5. reqs' \in [Request -> Download] /\ reqs'[r] = d
  BY <1>1, <1>3, <1>4
<1> QED BY <1>1, <1>2, <1>4, <1>5 DEF Moved, KeyOf, Download

LEMMA RetryMoves ==
  ASSUME DownTypeOK, NEW r \in Request,
         reqs' = [reqs EXCEPT ![r].at = "lookup", ![r].first = reqs[r].link]
  PROVE  Moved(r, "lookup", reqs[r].link, reqs[r].link)
<1> DEFINE d == [[reqs[r] EXCEPT !.at = "lookup"] EXCEPT !.first = reqs[r].link]
<1>1. reqs \in [Request -> Download]
  BY DEF DownTypeOK
<1>2. reqs[r] \in Download
  BY <1>1
<1>3. d \in Download
  BY <1>2 DEF Download
<1>4. reqs' = [reqs EXCEPT ![r] = d]
  BY <1>1
<1>5. reqs' \in [Request -> Download] /\ reqs'[r] = d
  BY <1>1, <1>3, <1>4
<1> QED BY <1>1, <1>2, <1>4, <1>5 DEF Moved, KeyOf, Download

\* The leader r lands at `where', and the requests that joined it are told n.
Landed(r, where, n) ==
  LET joined(q) == q # r /\ At(q, "join") /\ KeyOf(q) = KeyOf(r)
  IN /\ reqs' \in [Request -> Download]
     /\ \A q \in Request : q # r /\ ~joined(q) => reqs'[q] = reqs[q]
     /\ \A q \in Request : joined(q) =>
          /\ reqs'[q].at = "told" /\ reqs'[q].link = n
          /\ reqs'[q].key = KeyOf(r) /\ reqs'[q].first = reqs[q].first
     /\ reqs'[r].at = where /\ reqs'[r].key = KeyOf(r)
     /\ reqs'[r].link = n /\ reqs'[r].first = reqs[r].first

LEMMA LandLands ==
  ASSUME DownTypeOK, NEW r \in Request, NEW where \in {"ask", "over"}, NEW n \in Nat,
         Land(r, where, n)
  PROVE  Landed(r, where, n)
<1> DEFINE d(q, w) == [reqs[q] EXCEPT !.at = w, !.link = n]
<1>1. \A q \in Request : reqs[q] \in Download
  BY DEF DownTypeOK
<1>2. ASSUME NEW q \in Request, NEW w \in {"ask", "over", "told"}
      PROVE  /\ d(q, w) \in Download
             /\ d(q, w).at = w /\ d(q, w).link = n
             /\ d(q, w).key = reqs[q].key /\ d(q, w).first = reqs[q].first
  BY <1>1 DEF Download
<1> HIDE DEF d
<1>3. reqs' = [q \in Request |-> IF q = r THEN d(q, where)
                                 ELSE IF At(q, "join") /\ KeyOf(q) = KeyOf(r) THEN d(q, "told")
                                 ELSE reqs[q]]
  BY DEF Land, d
<1>4. reqs' \in [Request -> Download]
  BY <1>1, <1>2, <1>3
<1>5. reqs'[r] = d(r, where)
  BY <1>3
<1>6. \A q \in Request : q # r =>
        reqs'[q] = IF At(q, "join") /\ KeyOf(q) = KeyOf(r) THEN d(q, "told") ELSE reqs[q]
  BY <1>3
<1> QED BY <1>2, <1>4, <1>5, <1>6 DEF Landed, KeyOf

----------------------------------------------------------------------------
(* Every step keeps the invariant.                                         *)

\* Each kind of step, with what it does to the requests.
StepOf(r) ==
  \/ /\ Reject(r) \/ Leave(r) \/ Served(r) \/ (Wake(r) /\ reqs[r].link = NoLink)
     /\ Moved(r, "over", reqs[r].link, reqs[r].first)
  \/ Come(r) /\ Moved(r, "lookup", reqs[r].link, reqs[r].first)
  \/ Hit(r) /\ Moved(r, "ask", entries[KeyOf(r)], reqs[r].first)
  \/ Join(r) /\ Moved(r, "join", reqs[r].link, reqs[r].first)
  \/ Lead(r) /\ Moved(r, "fetch", reqs[r].link, reqs[r].first)
  \/ Fetched(r) /\ Landed(r, "ask", issued[KeyOf(r)] + 1)
  \/ FetchFails(r) /\ Landed(r, "over", NoLink)
  \/ Wake(r) /\ reqs[r].link # NoLink /\ Moved(r, "ask", reqs[r].link, reqs[r].first)
  \/ Unusable(r) /\ Moved(r, "over", reqs[r].link, reqs[r].first)
  \/ Refused(r) /\ Moved(r, "discard", reqs[r].link, reqs[r].first)
  \/ Evict(r) /\ reqs[r].first = NoLink /\ Moved(r, "lookup", reqs[r].link, reqs[r].link)
  \/ Evict(r) /\ reqs[r].first # NoLink /\ Moved(r, "refused", reqs[r].link, reqs[r].first)

LEMMA Typed ==
  ASSUME DownTypeOK
  PROVE  \A q \in Request : /\ reqs[q].key \in Key
                            /\ reqs[q].link \in Nat /\ reqs[q].first \in Nat
                            /\ issued[reqs[q].key] \in Nat /\ entries[reqs[q].key] \in Nat
<1>1. \A q \in Request : reqs[q] \in Download
  BY DEF DownTypeOK
<1> QED BY <1>1 DEF DownTypeOK, Download

LEMMA StepsMove == ASSUME DownTypeOK, DownNext PROVE \E r \in Request : StepOf(r)
<1> PICK r \in Request : Reject(r) \/ Come(r) \/ Leave(r) \/ Progress(r)
  BY DEF DownNext
<1>1. KeyOf(r) \in Key /\ issued[KeyOf(r)] + 1 \in Nat /\ entries[KeyOf(r)] \in Nat /\ NoLink \in Nat
  BY Typed DEF KeyOf, NoLink
<1>2. CASE Reject(r) \/ Leave(r) \/ Served(r)
  BY <1>2, GotoMoves DEF Reject, Leave, Served, StepOf
<1>3. CASE Come(r) \/ Join(r) \/ Lead(r) \/ Refused(r) \/ Unusable(r)
  <2>1. \/ Come(r) /\ Goto(r, "lookup")
        \/ Join(r) /\ Goto(r, "join")
        \/ Lead(r) /\ Goto(r, "fetch")
        \/ Refused(r) /\ Goto(r, "discard")
        \/ Unusable(r) /\ Goto(r, "over")
    BY <1>3 DEF Come, Join, Lead, Refused, Unusable
  <2> QED BY <2>1, GotoMoves DEF StepOf
<1>4. CASE Hit(r)
  BY <1>1, <1>4, FollowMoves DEF Hit, StepOf
<1>5. CASE Fetched(r)
  <2>1. Land(r, "ask", issued[KeyOf(r)] + 1)
    BY <1>5 DEF Fetched
  <2> QED BY <1>1, <1>5, <2>1, LandLands DEF StepOf
<1>6. CASE FetchFails(r)
  <2>1. Land(r, "over", NoLink)
    BY <1>6 DEF FetchFails
  <2> QED BY <1>1, <1>6, <2>1, LandLands DEF StepOf
<1>7. CASE Wake(r)
  BY <1>7, GotoMoves DEF Wake, StepOf
<1>8. CASE Evict(r)
  BY <1>8, GotoMoves, RetryMoves DEF Evict, StepOf
<1> QED BY <1>2, <1>3, <1>4, <1>5, <1>6, <1>7, <1>8 DEF Progress

\* What a step does to the rest: the only one to cache is Fetched, the only ones to evict are
\* Unusable and Evict, and these only the address in use.
LEMMA StepsChange ==
  ASSUME DownTypeOK, NEW r \in Request, StepOf(r)
  PROVE  /\ Fetched(r) =>
              /\ issued' = [issued EXCEPT ![KeyOf(r)] = issued[KeyOf(r)] + 1]
              /\ entries' = [entries EXCEPT ![KeyOf(r)] = issued[KeyOf(r)] + 1]
         /\ ~Fetched(r) =>
              /\ issued' = issued
              /\ entries' # entries =>
                   /\ Unusable(r) \/ Evict(r)
                   /\ entries[KeyOf(r)] = reqs[r].link
                   /\ entries' = [entries EXCEPT ![KeyOf(r)] = NoLink]
BY DEF StepOf, Fetched, Reject, Leave, Served, Wake, Come, Hit, Join, Lead, FetchFails, Unusable,
       Refused, Evict, Invalidate

LEMMA TypeStep ==
  ASSUME DownInv, NEW r \in Request, StepOf(r)
  PROVE  DownTypeOK'
<1>0. DownTypeOK /\ \A q \in Request : KeyOf(q) \in Key /\ reqs[q].link \in Nat /\ reqs[q].first \in Nat
  BY Typed DEF DownInv, KeyOf
<1>1. issued' \in [Key -> Nat] /\ entries' \in [Key -> Nat]
  BY <1>0, StepsChange DEF DownTypeOK, NoLink
<1>2. \A k \in Key : entries'[k] <= issued'[k] /\ issued[k] <= issued'[k]
  BY <1>0, StepsChange DEF DownTypeOK, NoLink
<1>3. flights' \in [Key -> Request \cup {NoOne}]
  BY <1>0 DEF DownTypeOK, StepOf, Fetched, Reject, Leave, Served, Wake, Come, Hit, Join, Lead,
              FetchFails, Unusable, Refused, Evict
<1>4. reqs' \in [Request -> Download]
  BY DEF StepOf, Moved, Landed
<1>5. \A q \in Request : reqs'[q].link <= issued'[reqs'[q].key] /\ reqs'[q].first <= issued'[reqs'[q].key]
  <2> SUFFICES ASSUME NEW q \in Request
               PROVE  reqs'[q].link <= issued'[reqs'[q].key] /\ reqs'[q].first <= issued'[reqs'[q].key]
    OBVIOUS
  <2>0. /\ issued[reqs[q].key] \in Nat /\ issued'[reqs[q].key] \in Nat
        /\ issued[reqs[q].key] <= issued'[reqs[q].key] /\ issued[reqs[r].key] <= issued'[reqs[r].key]
        /\ entries[reqs[r].key] <= issued[reqs[r].key] /\ entries[reqs[r].key] \in Nat
        /\ issued[reqs[r].key] \in Nat /\ issued'[reqs[r].key] \in Nat
        /\ reqs[q].link <= issued[reqs[q].key] /\ reqs[q].first <= issued[reqs[q].key]
        /\ reqs[r].link <= issued[reqs[r].key] /\ reqs[r].first <= issued[reqs[r].key]
    BY <1>0, <1>1, <1>2 DEF DownTypeOK, KeyOf
  <2>1. CASE Fetched(r) /\ Landed(r, "ask", issued[KeyOf(r)] + 1)
    <3>1. issued'[reqs[r].key] = issued[reqs[r].key] + 1
      BY <1>0, <2>1, StepsChange DEF DownTypeOK, KeyOf
    <3>2. \/ reqs'[q] = reqs[q]
          \/ /\ reqs'[q].key = reqs[r].key /\ reqs'[q].first = reqs[q].first
             /\ reqs[q].key = reqs[r].key
             /\ reqs'[q].link = issued[reqs[r].key] + 1
      BY <2>1 DEF Landed, KeyOf
    <3> QED BY <1>0, <2>0, <3>1, <3>2
  <2>2. CASE FetchFails(r) /\ Landed(r, "over", NoLink)
    BY <1>0, <1>2, <2>2 DEF DownTypeOK, Landed, KeyOf, At, NoLink, FetchFails
  <2>3. ASSUME NEW where, NEW n \in {reqs[r].link, entries[KeyOf(r)]},
               NEW f \in {reqs[r].link, reqs[r].first}, Moved(r, where, n, f)
        PROVE  reqs'[q].link <= issued'[reqs'[q].key] /\ reqs'[q].first <= issued'[reqs'[q].key]
    <3>1. \/ reqs'[q] = reqs[q]
          \/ reqs'[q].key = reqs[r].key /\ reqs'[q].link = n /\ reqs'[q].first = f
      BY <2>3 DEF Moved, KeyOf
    <3> QED BY <1>0, <2>0, <3>1 DEF KeyOf
  <2>4. \/ Fetched(r) /\ Landed(r, "ask", issued[KeyOf(r)] + 1)
        \/ FetchFails(r) /\ Landed(r, "over", NoLink)
        \/ \E where \in {"over", "lookup", "join", "fetch", "ask", "discard", "refused"} :
             \E n \in {reqs[r].link, entries[KeyOf(r)]} :
             \E f \in {reqs[r].link, reqs[r].first} : Moved(r, where, n, f)
    BY DEF StepOf
  <2> QED BY <2>1, <2>2, <2>3, <2>4
<1>6. denied' \subseteq Key \X Nat /\ \A p \in denied' : p[2] <= issued'[p[1]]
  <2>1. CASE Refused(r)
    BY <1>0, <2>1 DEF Refused, Used, DownTypeOK, KeyOf
  <2>2. CASE denied' = denied
    <3>1. \A p \in denied : p[1] \in Key /\ p[2] \in Nat /\ p[2] <= issued[p[1]]
      BY <1>0 DEF DownTypeOK
    <3> QED BY <1>0, <1>1, <1>2, <2>2, <3>1 DEF DownTypeOK
  <2> QED BY <2>1, <2>2 DEF StepOf, Fetched, Reject, Leave, Served, Wake, Come, Hit, Join, Lead,
                            FetchFails, Unusable, Evict
<1> QED BY <1>1, <1>2, <1>3, <1>4, <1>5, <1>6 DEF DownTypeOK, KeyOf

\* Flights are registered by Lead and gone with the call of their leader.
LEMMA FlightStep ==
  ASSUME DownInv, NEW r \in Request, StepOf(r)
  PROVE  OneCallPerKey' /\ JoinedFlightsAreLed'
<1>0. /\ DownTypeOK /\ OneCallPerKey /\ JoinedFlightsAreLed
      /\ \A q \in Request : KeyOf(q) \in Key
  BY Typed DEF DownInv, KeyOf
<1>1. CASE Lead(r) /\ Moved(r, "fetch", reqs[r].link, reqs[r].first)
  BY <1>0, <1>1, DownloadAssumption
  DEF Lead, Moved, OneCallPerKey, JoinedFlightsAreLed, At, KeyOf, DownTypeOK, NoLink
<1>2. ASSUME NEW where \in {"ask", "over"}, NEW n, Landed(r, where, n), At(r, "fetch"),
             flights' = [flights EXCEPT ![KeyOf(r)] = NoOne],
             \A k \in Key : k # KeyOf(r) => entries'[k] = entries[k]
      PROVE  OneCallPerKey' /\ JoinedFlightsAreLed'
  BY <1>0, <1>2, DownloadAssumption
  DEF Landed, OneCallPerKey, JoinedFlightsAreLed, At, KeyOf, DownTypeOK
<1>3. ASSUME NEW where \in {"over", "lookup", "join", "ask", "discard", "refused"}, NEW n, NEW f,
             Moved(r, where, n, f), ~At(r, "fetch"), flights' = flights,
             \A k \in Key : entries[k] = NoLink => entries'[k] = NoLink,
             where = "join" => flights[KeyOf(r)] # NoOne
      PROVE  OneCallPerKey' /\ JoinedFlightsAreLed'
  BY <1>0, <1>3 DEF Moved, OneCallPerKey, JoinedFlightsAreLed, At, KeyOf, DownTypeOK
<1>4. CASE Fetched(r) /\ Landed(r, "ask", issued[KeyOf(r)] + 1)
  BY <1>0, <1>2, <1>4 DEF Fetched, DownTypeOK
<1>5. CASE FetchFails(r) /\ Landed(r, "over", NoLink)
  BY <1>0, <1>2, <1>5 DEF FetchFails, DownTypeOK
<1>6. CASE /\ ~Lead(r) /\ ~Fetched(r) /\ ~FetchFails(r)
           /\ \E where \in {"over", "lookup", "join", "ask", "discard", "refused"} :
                \E n, f : /\ Moved(r, where, n, f)
                          /\ where = "join" => Join(r)
  <2>1. flights' = flights /\ ~At(r, "fetch")
    BY <1>6 DEF StepOf, Reject, Leave, Served, Wake, Come, Hit, Join, Unusable, Refused, Evict, At
  <2>2. \A k \in Key : entries[k] = NoLink => entries'[k] = NoLink
    BY <1>0, <1>6, StepsChange DEF DownTypeOK
  <2>3. Join(r) => flights[KeyOf(r)] # NoOne
    BY DEF Join
  <2> QED BY <1>3, <1>6, <2>1, <2>2, <2>3
<1>7. \/ Lead(r) /\ Moved(r, "fetch", reqs[r].link, reqs[r].first)
      \/ Fetched(r) /\ Landed(r, "ask", issued[KeyOf(r)] + 1)
      \/ FetchFails(r) /\ Landed(r, "over", NoLink)
      \/ /\ ~Lead(r) /\ ~Fetched(r) /\ ~FetchFails(r)
         /\ \E where \in {"over", "lookup", "join", "ask", "discard", "refused"} :
              \E n, f : /\ Moved(r, where, n, f)
                        /\ where = "join" => Join(r)
  BY DEF StepOf, Lead, Fetched, FetchFails, Reject, Leave, Served, Wake, Come, Hit, Join, Unusable,
         Refused, Evict, At
<1> QED BY <1>1, <1>4, <1>5, <1>6, <1>7

\* What is cached or dropped.
LEMMA AddressStep ==
  ASSUME DownInv, NEW r \in Request, StepOf(r)
  PROVE  LinksWereRefused' /\ LastIsCached'
<1>0. /\ DownTypeOK /\ OneCallPerKey /\ LinksWereRefused /\ LastIsCached /\ UsesAreReal
      /\ KeyOf(r) \in Key
  BY Typed DEF DownInv, KeyOf
<1>1. denied \subseteq denied'
  BY DEF StepOf, Fetched, Reject, Leave, Served, Wake, Come, Hit, Join, Lead, FetchFails, Unusable,
         Refused, Evict
<1>2. CASE Fetched(r)
  <2>1. entries[KeyOf(r)] = NoLink
    BY <1>0, <1>2, DownloadAssumption DEF Fetched, OneCallPerKey
  <2>2. LastIsCached'
    BY <1>0, <1>2, StepsChange DEF LastIsCached, DownTypeOK
  <2>3. LinksWereRefused'
    <3> SUFFICES ASSUME NEW k \in Key, NEW n \in 1..issued'[k]
                 PROVE  n = entries'[k] \/ n \in Malformed \/ <<k, n>> \in denied'
      BY DEF LinksWereRefused
    <3>1. issued[k] \in Nat
      BY <1>0 DEF DownTypeOK
    <3>2. CASE k = KeyOf(r) /\ n = issued[k] + 1
      BY <1>0, <1>2, <3>2, StepsChange DEF DownTypeOK
    <3>3. CASE n \in 1..issued[k]
      <4>1. n = entries[k] \/ n \in Malformed \/ <<k, n>> \in denied
        BY <1>0, <3>3 DEF LinksWereRefused
      <4>2. k # KeyOf(r) => entries'[k] = entries[k]
        BY <1>0, <1>2, StepsChange DEF DownTypeOK
      <4>3. k = KeyOf(r) => n # entries[k]
        BY <2>1, <3>3 DEF NoLink
      <4> QED BY <1>1, <4>1, <4>2, <4>3
    <3>4. issued'[k] = IF k = KeyOf(r) THEN issued[k] + 1 ELSE issued[k]
      BY <1>0, <1>2, StepsChange DEF DownTypeOK
    <3> QED BY <3>1, <3>2, <3>3, <3>4
  <2> QED BY <2>2, <2>3
<1>3. CASE ~Fetched(r) /\ entries' # entries
  <2>1. /\ issued' = issued /\ entries' = [entries EXCEPT ![KeyOf(r)] = NoLink]
        /\ entries[KeyOf(r)] = reqs[r].link
        /\ Unusable(r) \/ Evict(r)
    BY <1>0, <1>3, StepsChange
  <2>2. reqs[r].link \in Malformed \/ <<KeyOf(r), reqs[r].link>> \in denied
    BY <1>0, <2>1 DEF Unusable, Evict, UsesAreReal, Used, At
  <2>3. LastIsCached'
    BY <1>0, <2>1 DEF LastIsCached, DownTypeOK
  <2>4. LinksWereRefused'
    <3> SUFFICES ASSUME NEW k \in Key, NEW n \in 1..issued[k]
                 PROVE  n = entries'[k] \/ n \in Malformed \/ <<k, n>> \in denied'
      BY <2>1 DEF LinksWereRefused
    <3>1. n = entries[k] \/ n \in Malformed \/ <<k, n>> \in denied
      BY <1>0 DEF LinksWereRefused
    <3>2. CASE k = KeyOf(r)
      BY <1>1, <2>1, <2>2, <3>1, <3>2
    <3>3. CASE k # KeyOf(r)
      BY <1>0, <1>1, <2>1, <3>1, <3>3 DEF DownTypeOK
    <3> QED BY <3>2, <3>3
  <2> QED BY <2>3, <2>4
<1>4. CASE ~Fetched(r) /\ entries' = entries
  BY <1>0, <1>1, <1>4, StepsChange DEF LinksWereRefused, LastIsCached
<1> QED BY <1>2, <1>3, <1>4

\* The last three parts of the invariant, of one request.
Fine(q) ==
  /\ reqs[q].at \in {"ask", "discard"} => reqs[q].link # NoLink
  /\ reqs[q].at = "discard" => <<reqs[q].key, reqs[q].link>> \in denied
  /\ reqs[q].first # NoLink =>
       /\ entries[reqs[q].key] = NoLink \/ entries[reqs[q].key] > reqs[q].first
       /\ reqs[q].at = "told" => reqs[q].link = NoLink \/ reqs[q].link > reqs[q].first
       /\ reqs[q].at \in {"ask", "discard"} => reqs[q].link > reqs[q].first
  /\ reqs[q].at = "refused" => reqs[q].link > reqs[q].first /\ reqs[q].first # NoLink

LEMMA FineMeans == (\A q \in Request : Fine(q)) <=> UsesAreReal /\ FirstIsPast /\ RetryUsesNewer
BY DEF Fine, UsesAreReal, FirstIsPast, RetryUsesNewer, At, KeyOf, Used

LEMMA FineMeansNext ==
  (\A q \in Request : Fine(q)') => UsesAreReal' /\ FirstIsPast' /\ RetryUsesNewer'
BY DEF Fine, UsesAreReal, FirstIsPast, RetryUsesNewer, At, KeyOf, Used

\* What a request uses is what it was given, and what it was refused with is past.
LEMMA RequestStep ==
  ASSUME DownInv, NEW r \in Request, StepOf(r)
  PROVE  UsesAreReal' /\ FirstIsPast' /\ RetryUsesNewer'
<1>0. /\ DownTypeOK /\ LastIsCached /\ \A q \in Request : Fine(q)
      /\ KeyOf(r) \in Key
  BY Typed, FineMeans DEF DownInv, KeyOf
<1>1. denied \subseteq denied'
  BY DEF StepOf, Fetched, Reject, Leave, Served, Wake, Come, Hit, Join, Lead, FetchFails, Unusable,
         Refused, Evict
<1>2. \A q \in Request :
        /\ reqs[q].key \in Key /\ reqs[q].link \in Nat /\ reqs[q].first \in Nat
        /\ issued[reqs[q].key] \in Nat /\ entries[reqs[q].key] \in Nat
        /\ reqs[q].link <= issued[reqs[q].key] /\ reqs[q].first <= issued[reqs[q].key]
        /\ entries[reqs[q].key] \in {NoLink, issued[reqs[q].key]}
  BY <1>0, Typed DEF DownTypeOK, LastIsCached, KeyOf
\* The address of a key stays, goes, or is replaced by a new one.
<1>3. \A k \in Key : \/ entries'[k] = entries[k]
                     \/ entries'[k] = NoLink
                     \/ Fetched(r) /\ k = KeyOf(r) /\ entries'[k] = issued[k] + 1
  BY <1>0, StepsChange DEF DownTypeOK
<1>4. ASSUME NEW q \in Request, reqs'[q] = reqs[q]
      PROVE  Fine(q)'
  BY <1>0, <1>1, <1>2, <1>3, <1>4 DEF Fine, NoLink
\* The leader of a flight and the requests that joined it.
<1>5. CASE Fetched(r) /\ Landed(r, "ask", issued[KeyOf(r)] + 1)
  <2> SUFFICES ASSUME NEW q \in Request, reqs'[q] # reqs[q]
               PROVE  Fine(q)'
    BY <1>4, FineMeansNext
  <2>1. /\ reqs'[q].key = reqs[r].key /\ reqs[q].key = reqs[r].key
        /\ reqs'[q].first = reqs[q].first /\ reqs'[q].link = issued[reqs[r].key] + 1
        /\ reqs'[q].at \in {"ask", "told"}
    BY <1>5 DEF Landed, KeyOf
  <2>2. entries'[reqs[r].key] = issued[reqs[r].key] + 1
    BY <1>0, <1>5 DEF Fetched, DownTypeOK, KeyOf
  <2> QED BY <1>2, <2>1, <2>2 DEF Fine, NoLink
<1>6. CASE FetchFails(r) /\ Landed(r, "over", NoLink)
  <2> SUFFICES ASSUME NEW q \in Request, reqs'[q] # reqs[q]
               PROVE  Fine(q)'
    BY <1>4, FineMeansNext
  <2>1. /\ reqs'[q].key = reqs[q].key /\ reqs'[q].first = reqs[q].first
        /\ reqs'[q].link = NoLink /\ reqs'[q].at \in {"over", "told"}
    BY <1>6 DEF Landed, KeyOf
  <2>2. entries' = entries
    BY <1>6 DEF FetchFails
  <2> QED BY <1>0, <2>1, <2>2 DEF Fine, NoLink
\* A request that moves by itself.
<1>7. ASSUME NEW where, NEW n, NEW f, Moved(r, where, n, f), Fine(r)'
      PROVE  UsesAreReal' /\ FirstIsPast' /\ RetryUsesNewer'
  <2>1. \A q \in Request : Fine(q)'
    BY <1>4, <1>7 DEF Moved
  <2> QED BY <2>1, FineMeansNext
<1>8. CASE /\ ~Fetched(r)
           /\ \E where \in {"over", "lookup", "join", "fetch"} :
                Moved(r, where, reqs[r].link, reqs[r].first)
  <2>1. PICK where \in {"over", "lookup", "join", "fetch"} :
          Moved(r, where, reqs[r].link, reqs[r].first)
    BY <1>8
  <2>2. Fine(r)'
    BY <1>0, <1>2, <1>3, <1>8, <2>1 DEF Fine, Moved, KeyOf, NoLink
  <2> QED BY <1>7, <2>1, <2>2
<1>9. CASE Hit(r) /\ Moved(r, "ask", entries[KeyOf(r)], reqs[r].first)
  <2>1. entries' = entries /\ entries[KeyOf(r)] # NoLink
    BY <1>9 DEF Hit
  <2>2. Fine(r)'
    BY <1>0, <1>2, <1>9, <2>1 DEF Fine, Moved, KeyOf, NoLink
  <2> QED BY <1>7, <1>9, <2>2
<1>10. CASE Wake(r) /\ reqs[r].link # NoLink /\ Moved(r, "ask", reqs[r].link, reqs[r].first)
  <2>1. entries' = entries /\ reqs[r].at = "told"
    BY <1>10 DEF Wake, At
  <2>2. Fine(r)'
    BY <1>0, <1>2, <1>10, <2>1 DEF Fine, Moved, KeyOf, NoLink
  <2> QED BY <1>7, <1>10, <2>2
<1>11. CASE Refused(r) /\ Moved(r, "discard", reqs[r].link, reqs[r].first)
  <2>1. entries' = entries /\ reqs[r].at = "ask" /\ <<reqs[r].key, reqs[r].link>> \in denied'
    BY <1>11 DEF Refused, At, Used, KeyOf
  <2>2. Fine(r)'
    BY <1>0, <1>2, <1>11, <2>1 DEF Fine, Moved, KeyOf, NoLink
  <2> QED BY <1>7, <1>11, <2>2
<1>12. CASE Evict(r)
  <2>1. /\ reqs[r].at = "discard"
        /\ entries'[reqs[r].key] = IF entries[reqs[r].key] = reqs[r].link THEN NoLink
                                   ELSE entries[reqs[r].key]
    BY <1>0, <1>12 DEF Evict, Invalidate, At, KeyOf, DownTypeOK
  \* The refused address is not cached any more: what is cached is the last one.
  <2>2. entries'[reqs[r].key] = NoLink \/ entries'[reqs[r].key] > reqs[r].link
    BY <1>2, <2>1 DEF NoLink
  <2>3. CASE reqs[r].first = NoLink /\ Moved(r, "lookup", reqs[r].link, reqs[r].link)
    <3>1. Fine(r)'
      BY <1>0, <1>2, <2>1, <2>2, <2>3 DEF Fine, Moved, KeyOf, NoLink
    <3> QED BY <1>7, <2>3, <3>1
  <2>4. CASE reqs[r].first # NoLink /\ Moved(r, "refused", reqs[r].link, reqs[r].first)
    <3>1. Fine(r)'
      BY <1>0, <1>2, <1>3, <2>1, <2>2, <2>4 DEF Fine, Moved, KeyOf, NoLink
    <3> QED BY <1>7, <2>4, <3>1
  <2> QED BY <1>12, <2>3, <2>4
  DEF StepOf, Evict, Reject, Leave, Served, Wake, Come, Hit, Join, Lead, Fetched, FetchFails,
      Unusable, Refused, At
<1>13. \/ Fetched(r) /\ Landed(r, "ask", issued[KeyOf(r)] + 1)
       \/ FetchFails(r) /\ Landed(r, "over", NoLink)
       \/ /\ ~Fetched(r)
          /\ \E where \in {"over", "lookup", "join", "fetch"} :
               Moved(r, where, reqs[r].link, reqs[r].first)
       \/ Hit(r) /\ Moved(r, "ask", entries[KeyOf(r)], reqs[r].first)
       \/ Wake(r) /\ reqs[r].link # NoLink /\ Moved(r, "ask", reqs[r].link, reqs[r].first)
       \/ Refused(r) /\ Moved(r, "discard", reqs[r].link, reqs[r].first)
       \/ Evict(r)
  BY DEF StepOf, Reject, Leave, Served, Wake, Come, Join, Lead, Fetched, Unusable, At
<1> QED BY <1>5, <1>6, <1>8, <1>9, <1>10, <1>11, <1>12, <1>13

----------------------------------------------------------------------------
(* The theorems.                                                           *)

\* The invariant the other theorems follow from holds in every reachable state of the handler.
THEOREM DownInvHolds == DownSpec => []DownInv
<1>1. DownInv /\ DownNext => DownInv'
  BY StepsMove, TypeStep, FlightStep, AddressStep, RequestStep DEF DownInv
<1>2. DownInv /\ UNCHANGED downVars => DownInv'
  BY DEF downVars, DownInv, DownTypeOK, OneCallPerKey, JoinedFlightsAreLed, LinksWereRefused,
         LastIsCached, UsesAreReal, FirstIsPast, RetryUsesNewer, At, KeyOf, Used
<1> QED BY <1>1, <1>2, DownInvInit, PTL DEF DownSpec

\* Addresses in use are those 115 has given out, and the state has its types.
THEOREM DownTypeCorrect == DownSpec => []DownTypeOK
BY DownInvHolds, PTL DEF DownInv

\* 115 is asked by one request at a time for a key, and only while the key has no address.
THEOREM OneCallAtATime == DownSpec => []OneCallPerKey
BY DownInvHolds, PTL DEF DownInv

\* Whoever waits for a flight waits for one whose leader is still calling 115.
THEOREM JoinedFlightsAreAlwaysLed == DownSpec => []JoinedFlightsAreLed
BY DownInvHolds, PTL DEF DownInv

\* 115 gives out another address only after the last one was refused, or was none.
THEOREM OnlyRefusedLinksAreReplaced == DownSpec => []LinksWereRefused
BY DownInvHolds, PTL DEF DownInv

\* The second attempt of a download is made with another address than the first.
THEOREM RetriesUseNewerLinks == DownSpec => []RetryUsesNewer
BY DownInvHolds, PTL DEF DownInv

----------------------------------------------------------------------------
(* The refinement.                                                         *)

\* Every step of the handler is one of the cache of addresses, or none.
LEMMA StepImplements ==
  ASSUME DownInv, DownInv', NEW r \in Request, StepOf(r)
  PROVE  Cache!CacheNext \/ UNCHANGED Cache!cacheVars
<1>k. PICK k \in Key : k = KeyOf(r)
  BY Typed DEF DownInv, KeyOf
<1> DEFINE fetching == {l \in Key : flights[l] # NoOne}
<1>0. /\ DownTypeOK /\ DownTypeOK' /\ OneCallPerKey /\ UsesAreReal
      /\ issued[k] \in Nat /\ flights[k] \in Request \cup {NoOne}
  BY DEF DownInv, DownTypeOK
<1> USE DEF Cache!CacheNext, Cache!cacheVars
<1>1. CASE Lead(r)
  <2>1. entries[k] = 0 /\ k \notin fetching
    BY <1>k, <1>1 DEF Lead, NoLink
  <2>2. fetching' = fetching \cup {k} /\ UNCHANGED <<entries, denied>>
    BY <1>0, <1>k, <1>1, DownloadAssumption DEF Lead, DownTypeOK
  <2> QED BY <1>0, <2>1, <2>2 DEF Cache!Begin
<1>2. CASE Fetched(r)
  <2>1. k \in fetching /\ fetching' = fetching \ {k}
    BY <1>0, <1>k, <1>2, DownloadAssumption DEF Fetched, OneCallPerKey, DownTypeOK
  <2>2. /\ entries' = [entries EXCEPT ![k] = issued[k] + 1]
        /\ entries'[k] = issued[k] + 1 /\ denied' = denied
    BY <1>0, <1>k, <1>2 DEF Fetched, DownTypeOK
  <2>3. <<k, issued[k] + 1>> \notin denied
    BY <1>0 DEF DownTypeOK
  <2>4. entries'[k] \in Nat \ {0} /\ entries' = [entries EXCEPT ![k] = entries'[k]]
    <3>1. PICK n \in Nat \ {0} : n = issued[k] + 1
      BY <1>0
    <3>2. entries' = [entries EXCEPT ![k] = n] /\ entries'[k] = n
      BY <2>2, <3>1
    <3> QED BY <3>2
  <2>5. Cache!Succeed(k)
    BY <2>1, <2>2, <2>3, <2>4 DEF Cache!Succeed
  <2> QED BY <1>0, <2>5
<1>3. CASE FetchFails(r)
  <2>1. k \in fetching /\ fetching' = fetching \ {k}
    BY <1>0, <1>k, <1>3, DownloadAssumption DEF FetchFails, OneCallPerKey, DownTypeOK
  <2> QED BY <1>0, <1>k, <1>3, <2>1 DEF FetchFails, Cache!Fail
<1>4. CASE Refused(r)
  <2>1. reqs[r].link \in Nat
    BY <1>0, Typed
  <2> QED BY <1>0, <1>k, <1>4, <2>1 DEF Refused, Used, Cache!Deny
<1>5. CASE (Unusable(r) \/ Evict(r)) /\ entries' # entries
  <2>1. /\ entries' = [entries EXCEPT ![k] = 0] /\ entries[k] = reqs[r].link
        /\ UNCHANGED <<flights, denied>>
    BY <1>k, <1>5 DEF Unusable, Evict, Invalidate, NoLink
  <2>2. reqs[r].link \in Malformed \/ <<k, reqs[r].link>> \in denied
    BY <1>0, <1>k, <1>5 DEF Unusable, Evict, UsesAreReal, Used, At
  <2> QED BY <1>0, <2>1, <2>2 DEF Cache!Drop
<1>6. CASE /\ ~Lead(r) /\ ~Fetched(r) /\ ~FetchFails(r) /\ ~Refused(r)
           /\ ~((Unusable(r) \/ Evict(r)) /\ entries' # entries)
  BY <1>6 DEF StepOf, Reject, Leave, Served, Wake, Come, Hit, Join, Unusable, Evict
<1> QED BY <1>1, <1>2, <1>3, <1>4, <1>5, <1>6

\* The handler implements the cache of addresses: it fetches one address at a time and only for
\* a key without one, keeps it until it was refused, and never brings a refused one back.
THEOREM HandlerImplementsCache == DownSpec => ImplementsCache
<1>1. DownInit => Cache!CacheInit
  BY DEF DownInit, Cache!CacheInit, NoLink
<1>2. DownInv /\ DownInv' /\ [DownNext]_downVars => [Cache!CacheNext]_(Cache!cacheVars)
  <2>1. DownInv /\ DownInv' /\ DownNext => Cache!CacheNext \/ UNCHANGED Cache!cacheVars
    BY StepsMove, StepImplements DEF DownInv
  <2>2. UNCHANGED downVars => UNCHANGED Cache!cacheVars
    BY DEF downVars, Cache!cacheVars
  <2> QED BY <2>1, <2>2
<1> QED BY <1>1, <1>2, DownInvHolds, PTL DEF DownSpec, ImplementsCache, Cache!CacheSpec

=============================================================================
