---------------------------- MODULE SearchGateway ----------------------------
(***************************************************************************)
(* The way of a search: search page, frontend, the API gateway with its    *)
(* limit on concurrent searches, and the stream of comics from the search  *)
(* service.  Handlers may panic, streams may break after any comic and     *)
(* clients may give up; the gateway has no time-out of its own.  GET       *)
(* /api/isearch has the same handler behind the rate limiter, which has    *)
(* its own module, and is not used by the page.                            *)
(***************************************************************************)
EXTENDS Naturals, FiniteSets

CONSTANTS
  Requests,      \* goroutines that serve requests of the gateway
  Concurrency,   \* the capacity of the semaphore
  MaxRows        \* bound: comics found by one search

ASSUME GatewayAssumption ==
  /\ IsFiniteSet(Requests)
  /\ Concurrency \in Nat
  /\ MaxRows \in Nat

VARIABLES
  sem,        \* how many elements the channel cl.sem holds
  pc,         \* pc[r]: where r is
  route,      \* route[r]: the route it takes
  found,      \* found[r]: how many comics the search service found for r
  comics,     \* comics[r]: how many of them the gateway has received
  panicking,  \* panicking[r]: the handler of r has panicked
  status,     \* status[r]: the HTTP status as translated so far, or ""
  shown       \* shown[r]: what the search page shows for r

requestVars == <<pc, route, found, comics, panicking, status, shown>>
vars == <<sem, requestVars>>

Init ==
  /\ sem = 0
  /\ pc = [r \in Requests |-> "idle"]
  /\ route = [r \in Requests |-> "search"]
  /\ found = [r \in Requests |-> 0]
  /\ comics = [r \in Requests |-> 0]
  /\ panicking = [r \in Requests |-> FALSE]
  /\ status = [r \in Requests |-> ""]
  /\ shown = [r \in Requests |-> ""]

Goto(r, loc) == pc' = [pc EXCEPT ![r] = loc]

\* The handler of r returns with status s.
Return(r, s) ==
  /\ Goto(r, "return")
  /\ status' = [status EXCEPT ![r] = s]
  /\ UNCHANGED <<sem, route, found, comics, panicking, shown>>

-----------------------------------------------------------------------------
(* The gateway *)

\* A request arrives, from the page or from another client.
Arrive(r) ==
  /\ pc[r] = "idle"
  /\ \E rt \in {"page", "search", "isearch"} :
       /\ route' = [route EXCEPT ![r] = rt]
       /\ Goto(r, IF rt = "isearch" THEN "handler" ELSE "limit")
  /\ UNCHANGED <<sem, found, comics, panicking, status, shown>>

\* Bug for TypeOK: the limiter counts, and compares before it counts.
AcquireOneMore(r) ==
  /\ pc[r] = "limit"
  /\ sem <= Concurrency
  /\ sem' = sem + 1
  /\ Goto(r, "handler")
  /\ UNCHANGED <<route, found, comics, panicking, status, shown>>

\* The semaphore has room.
Acquire(r) ==
  /\ pc[r] = "limit"
  /\ sem < Concurrency
  /\ sem' = sem + 1
  /\ Goto(r, "handler")
  /\ UNCHANGED <<route, found, comics, panicking, status, shown>>

\* Bug for Answered: the request waits for room.
BusyWaits(r) ==
  /\ pc[r] = "limit"
  /\ sem >= Concurrency
  /\ UNCHANGED vars

\* The semaphore is full: select takes its default branch.
Busy(r) ==
  /\ pc[r] = "limit"
  /\ sem >= Concurrency
  /\ Goto(r, "written")
  /\ status' = [status EXCEPT ![r] = "503"]
  /\ UNCHANGED <<sem, route, found, comics, panicking, shown>>

\* No phrase, or a limit that is not a positive number.
BadRequest(r) ==
  /\ pc[r] = "handler"
  /\ Return(r, "400")

\* The gateway's status for a code of the search service, when the stream is
\* opened: the client maps it.
OpenStatus(code) ==
  CASE code = "Unavailable" -> "503"
    [] code \in {"InvalidArgument", "ResourceExhausted"} -> "400"
    [] OTHER -> "500"

\* The stream is not opened.
OpenFails(r) ==
  /\ pc[r] = "handler"
  /\ \E code \in {"Unavailable", "ResourceExhausted", "Internal"} :
       Return(r, OpenStatus(code))

\* The stream is opened and the search service finds some comics.
Open(r) ==
  /\ pc[r] = "handler"
  /\ Goto(r, "recv")
  /\ \E n \in 0..MaxRows : found' = [found EXCEPT ![r] = n]
  /\ UNCHANGED <<sem, route, comics, panicking, status, shown>>

\* Recv returns a comic.
Recv(r) ==
  /\ pc[r] = "recv"
  /\ comics[r] < found[r]
  /\ comics' = [comics EXCEPT ![r] = @ + 1]
  /\ UNCHANGED <<sem, pc, route, found, panicking, status, shown>>

\* Recv returns io.EOF.
Eof(r) ==
  /\ pc[r] = "recv"
  /\ comics[r] = found[r]
  /\ Return(r, "200")

\* Bug for PageTrue: what was received before the stream broke is an answer.
BreakIsEnd(r) ==
  /\ pc[r] = "recv"
  /\ Return(r, "200")

\* Recv returns an error: the service returned one, it died, or the client is
\* gone.  Nothing maps it.
Break(r) ==
  /\ pc[r] = "recv"
  /\ Return(r, "500")

\* The handler panics.
Panic(r) ==
  /\ pc[r] \in {"handler", "recv"}
  /\ Goto(r, "return")
  /\ panicking' = [panicking EXCEPT ![r] = TRUE]
  /\ UNCHANGED <<sem, route, found, comics, status, shown>>

\* Bug for SlotsAccounted: the slot is returned after ServeHTTP, not deferred.
ReleaseAfter(r) ==
  /\ pc[r] = "return"
  /\ sem' = IF route[r] = "isearch" \/ panicking[r] THEN sem ELSE sem - 1
  /\ Goto(r, "recover")
  /\ UNCHANGED <<route, found, comics, panicking, status, shown>>

\* The deferred receive gives the slot back.
Release(r) ==
  /\ pc[r] = "return"
  /\ sem' = IF route[r] = "isearch" THEN sem ELSE sem - 1
  /\ Goto(r, "recover")
  /\ UNCHANGED <<route, found, comics, panicking, status, shown>>

\* PanicRecovery.
Recover(r) ==
  /\ pc[r] = "recover"
  /\ Goto(r, "written")
  /\ status' = IF panicking[r] THEN [status EXCEPT ![r] = "500"] ELSE status
  /\ UNCHANGED <<sem, route, found, comics, panicking, shown>>

-----------------------------------------------------------------------------
(* The frontend and its page *)

\* The frontend's client and handler.
WebStatus(s) == IF s \in {"200", "400", "503"} THEN s ELSE "500"

\* The frontend answers with what it got, or its client has given up.
WebReply(r) ==
  /\ pc[r] = "written"
  /\ route[r] = "page"
  /\ Goto(r, "web")
  /\ \E s \in {WebStatus(status[r]), "500"} : status' = [status EXCEPT ![r] = s]
  /\ UNCHANGED <<sem, route, found, comics, panicking, shown>>

\* search() shows the comics, or that there are none, or an error.
Show(r) ==
  /\ pc[r] = "web"
  /\ Goto(r, "seen")
  /\ shown' = [shown EXCEPT ![r] =
       CASE status[r] # "200" -> "Search failed"
         [] status[r] = "200" /\ comics[r] > 0 -> "comics"
         [] OTHER -> "No comics found"]
  /\ UNCHANGED <<sem, route, found, comics, panicking, status>>

\* The request is over.
Leave(r) ==
  /\ pc[r] = IF route[r] = "page" THEN "seen" ELSE "written"
  /\ Goto(r, "idle")
  /\ route' = [route EXCEPT ![r] = "search"]
  /\ found' = [found EXCEPT ![r] = 0]
  /\ comics' = [comics EXCEPT ![r] = 0]
  /\ panicking' = [panicking EXCEPT ![r] = FALSE]
  /\ status' = [status EXCEPT ![r] = ""]
  /\ shown' = [shown EXCEPT ![r] = ""]
  /\ UNCHANGED sem

-----------------------------------------------------------------------------

Handle(r) == BadRequest(r) \/ OpenFails(r) \/ Open(r)

Receive(r) == Recv(r) \/ Eof(r) \/ Break(r)

Next ==
  \E r \in Requests :
    \/ Arrive(r) \/ Acquire(r) \/ Busy(r) \/ Handle(r) \/ Receive(r) \/ Panic(r)
    \/ Release(r) \/ Recover(r) \/ WebReply(r) \/ Show(r) \/ Leave(r)

Spec == Init /\ [][Next]_vars

\* Goroutines run, and the search service goes on sending or fails: the gateway
\* does not guard itself against one that hangs.
Fairness ==
  \A r \in Requests :
    WF_vars(\/ Acquire(r) \/ Busy(r) \/ Handle(r) \/ Receive(r)
            \/ Release(r) \/ Recover(r) \/ WebReply(r) \/ Show(r) \/ Leave(r))

FairSpec == Spec /\ Fairness

-----------------------------------------------------------------------------
(* Properties *)

TypeOK ==
  /\ sem \in 0..Concurrency
  /\ pc \in [Requests -> {"idle", "limit", "handler", "recv", "return",
                          "recover", "written", "web", "seen"}]
  /\ route \in [Requests -> {"page", "search", "isearch"}]
  /\ found \in [Requests -> 0..MaxRows]
  /\ comics \in [Requests -> 0..MaxRows]
  /\ panicking \in [Requests -> BOOLEAN]
  /\ status \in [Requests -> {"", "200", "400", "500", "503"}]
  /\ shown \in [Requests -> {"", "comics", "No comics found", "Search failed"}]

\* The requests that have taken a slot and not given it back.
Holders ==
  {r \in Requests : route[r] # "isearch" /\ pc[r] \in {"handler", "recv", "return"}}

\* Every slot of the semaphore belongs to a request that is being served: none
\* is lost in a panic, an early return or a broken stream, so nobody is refused
\* while there is room, and never more than Concurrency searches run.
SlotsAccounted == sem = Cardinality(Holders)

\* The page shows a list only if it is complete, and says "No comics found" only
\* if the search service found none.
PageTrue ==
  \A r \in Requests :
    /\ shown[r] = "comics" => comics[r] = found[r]
    /\ shown[r] = "No comics found" => status[r] = "200" /\ found[r] = 0

\* Every search is answered, and its slot comes back.
Answered == \A r \in Requests : pc[r] # "idle" ~> pc[r] = "idle"
=============================================================================
