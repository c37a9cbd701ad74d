----------------------------- MODULE MCPlayback -----------------------------
(***************************************************************************)
(* Playback on small instances.  The program proceeds without a bound.     *)
(* Either flights hang in their calls until their deadlines and nothing    *)
(* else comes in between, or at most MaxEvent events of any kind do and a  *)
(* flight that can go on goes on; one that cannot has its deadline.        *)
(*                                                                         *)
(* Requests are interchangeable and so are contents: the request First     *)
(* comes first and asks for FirstContent.  Unlike a symmetry set this      *)
(* leaves the liveness properties alone.                                   *)
(***************************************************************************)
EXTENDS Playback

CONSTANTS MaxEvent, First, FirstContent

VARIABLE events   \* how many there have been, or Hanging

mcVars == <<playVars, events>>

Hanging == MaxEvent + 1

MCInit == PlayInit /\ events = 0

Timeout(c) ==
  /\ Deadline(c)
  /\ \/ events \in {0, Hanging} /\ events' = Hanging
     \/ events \in 1..MaxEvent /\ ~ENABLED FlightStep(c) /\ UNCHANGED events

InOrder ==
  /\ asked[First] \in {NotYet, FirstContent, Over}
  /\ asked[First] = NotYet => \A p \in Request : asked[p] = NotYet

\* Somebody else holds fetchMu only where a flight waits for it: elsewhere nobody
\* would notice.
PollsInTheWay == polling' => polling \/ \E c \in Content : At(c, "conflict")

MCNext ==
  \/ Proceed /\ InOrder' /\ PollsInTheWay /\ UNCHANGED events
  \/ \E c \in Content : Timeout(c)
  \/ events < MaxEvent /\ Interfere /\ events' = events + 1

MCSpec == MCInit /\ [][MCNext]_mcVars

GoesOn(c) == Late(c) \/ events \in 1..MaxEvent

MCFairSpec ==
  /\ MCSpec /\ WF_mcVars(PollEnds /\ UNCHANGED events)
  /\ \A c \in Content :
       /\ WF_mcVars(GoesOn(c) /\ FlightStep(c) /\ UNCHANGED events) /\ WF_mcVars(Timeout(c))
       /\ SF_mcVars(LockFetch(c) /\ UNCHANGED events)
=============================================================================
