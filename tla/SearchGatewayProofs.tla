------------------------- MODULE SearchGatewayProofs -------------------------
(***************************************************************************)
(* The semaphore of the concurrency limiter and the answer the page shows, *)
(* for any number of requests, any capacity and any number of comics.      *)
(*                                                                         *)
(* That sem stays in 0..Concurrency does not follow from the steps alone:  *)
(* Release takes an element from the channel without looking, and is only  *)
(* safe because the request that releases is one of those counted          *)
(* (SlotsAccounted).                                                       *)
(***************************************************************************)
EXTENDS SearchGateway, FiniteSetTheorems, TLAPS

Locs == {"idle", "limit", "handler", "recv", "return", "recover", "written",
         "web", "seen"}

\* Until the handler returns there is no status; a status of 200 comes with
\* every comic found; the page shows nothing before it has its answer.
Progress ==
  \A r \in Requests :
    /\ pc[r] \in {"idle", "limit", "handler", "recv"} => status[r] = ""
    /\ status[r] = "200" => comics[r] = found[r]
    /\ pc[r] # "seen" => shown[r] = ""

\* GET /api/isearch is not behind the concurrency limiter.
Limited == \A r \in Requests : pc[r] = "limit" => route[r] # "isearch"

IInv == TypeOK /\ SlotsAccounted /\ Limited /\ Progress /\ PageTrue

LEMMA Bounds ==
  /\ MaxRows \in Nat /\ Concurrency \in Nat
  /\ 0 \in 0..MaxRows /\ 0 \in 0..Concurrency
BY GatewayAssumption

\* Counting up and down within bounds.
LEMMA Within ==
  ASSUME NEW n \in Nat, NEW i \in 0..n
  PROVE  /\ i \in Nat
         /\ \A j \in 0..n : i < j => i + 1 \in 0..n
         /\ i < n => i + 1 \in 0..n
         /\ i >= 1 => i - 1 \in 0..n
OBVIOUS

-----------------------------------------------------------------------------
(* Counting the holders *)

LEMMA HoldersFinite ==
  /\ IsFiniteSet(Holders)
  /\ Cardinality(Holders) \in Nat
  /\ \A r \in Holders : Cardinality(Holders) >= 1
<1>1. Holders \subseteq Requests
  BY DEF Holders
<1>2. IsFiniteSet(Holders)
  BY <1>1, GatewayAssumption, FS_Subset
<1>3. Cardinality(Holders) \in Nat
  BY <1>2, FS_CardinalityType
<1>4. \A r \in Holders : Cardinality(Holders) # 0
  BY <1>2, FS_EmptySet
<1> QED
  BY <1>2, <1>3, <1>4

\* A request that gets a slot is one more.
LEMMA OneMore ==
  ASSUME NEW r \in Requests, r \notin Holders, Holders' = Holders \cup {r}
  PROVE  Cardinality(Holders') = Cardinality(Holders) + 1
BY HoldersFinite, FS_AddElement

\* A request that gives its slot back is one less.
LEMMA OneLess ==
  ASSUME NEW r \in Requests, r \in Holders, Holders' = Holders \ {r}
  PROVE  Cardinality(Holders') = Cardinality(Holders) - 1
BY HoldersFinite, FS_RemoveElement

\* A step of r that leaves the semaphore alone and does not move r into or out
\* of the section it guards.
LEMMA SlotsKept ==
  ASSUME SlotsAccounted,
         NEW r \in Requests,
         sem' = sem,
         \A q \in Requests : q # r => pc'[q] = pc[q] /\ route'[q] = route[q],
         (r \in Holders)' <=> r \in Holders
  PROVE  SlotsAccounted'
<1>1. Holders' = Holders
  BY DEF Holders
<1> QED
  BY <1>1 DEF SlotsAccounted

\* A step of r that is not the last of its handler.
LEMMA PageKept ==
  ASSUME TypeOK, Progress, PageTrue, NEW r \in Requests,
         \A q \in Requests : q # r =>
           /\ pc'[q] = pc[q] /\ status'[q] = status[q] /\ shown'[q] = shown[q]
           /\ comics'[q] = comics[q] /\ found'[q] = found[q],
         pc'[r] \in {"idle", "limit", "handler", "recv"} => status'[r] = "",
         status'[r] = "200" => comics'[r] = found'[r],
         shown'[r] = ""
  PROVE  Progress' /\ PageTrue'
BY DEF Progress, PageTrue

-----------------------------------------------------------------------------
(* The inductive invariant *)

LEMMA InitIInv == Init => IInv
<1> SUFFICES ASSUME Init PROVE IInv
  OBVIOUS
<1>1. TypeOK
  BY Bounds DEF Init, TypeOK
<1>2. Holders = {}
  BY DEF Init, Holders
<1>3. SlotsAccounted
  BY <1>2, FS_EmptySet DEF Init, SlotsAccounted
<1>4. Limited /\ Progress /\ PageTrue
  BY DEF Init, Limited, Progress, PageTrue
<1> QED
  BY <1>1, <1>3, <1>4 DEF IInv

\* The channel neither overflows nor is taken from when it is empty.
LEMMA TypeStep == IInv /\ [Next]_vars => TypeOK'
<1> SUFFICES ASSUME IInv, [Next]_vars PROVE TypeOK'
  OBVIOUS
<1> USE Bounds DEF IInv, TypeOK
<1>1. ASSUME NEW r \in Requests, Arrive(r) PROVE TypeOK'
  <2>1. PICK rt \in {"page", "search", "isearch"} :
          /\ route' = [route EXCEPT ![r] = rt]
          /\ Goto(r, IF rt = "isearch" THEN "handler" ELSE "limit")
    BY <1>1 DEF Arrive
  <2> QED
    BY <1>1, <2>1 DEF Arrive, Goto
<1>2. ASSUME NEW r \in Requests, Acquire(r) PROVE TypeOK'
  <2>0. sem < Concurrency
    BY <1>2 DEF Acquire
  <2>1. sem + 1 \in 0..Concurrency
    BY <2>0, Within
  <2> QED
    BY <1>2, <2>1 DEF Acquire, Goto
<1>3. ASSUME NEW r \in Requests, Busy(r) PROVE TypeOK'
  BY <1>3 DEF Busy, Goto
<1>4. ASSUME NEW r \in Requests, NEW s \in {"200", "400", "500", "503"}, Return(r, s)
      PROVE  TypeOK'
  BY <1>4 DEF Return, Goto
<1>5. ASSUME NEW r \in Requests, BadRequest(r) PROVE TypeOK'
  BY <1>4, <1>5 DEF BadRequest
<1>6. ASSUME NEW r \in Requests, OpenFails(r) PROVE TypeOK'
  BY <1>4, <1>6 DEF OpenFails, OpenStatus
<1>7. ASSUME NEW r \in Requests, Open(r) PROVE TypeOK'
  BY <1>7 DEF Open, Goto
<1>8. ASSUME NEW r \in Requests, Recv(r) PROVE TypeOK'
  <2>0. /\ comics[r] \in 0..MaxRows /\ found[r] \in 0..MaxRows
        /\ comics[r] < found[r]
    BY <1>8 DEF Recv
  <2>1. comics[r] + 1 \in 0..MaxRows
    BY <2>0, Within
  <2> QED
    BY <1>8, <2>1 DEF Recv
<1>9. ASSUME NEW r \in Requests, Eof(r) PROVE TypeOK'
  BY <1>4, <1>9 DEF Eof
<1>10. ASSUME NEW r \in Requests, Break(r) PROVE TypeOK'
  BY <1>4, <1>10 DEF Break
<1>11. ASSUME NEW r \in Requests, Panic(r) PROVE TypeOK'
  BY <1>11 DEF Panic, Goto
<1>12. ASSUME NEW r \in Requests, Release(r) PROVE TypeOK'
  <2>1. route[r] # "isearch" => sem >= 1
    BY <1>12, HoldersFinite DEF Release, Holders, SlotsAccounted
  <2>2. sem' = IF route[r] = "isearch" THEN sem ELSE sem - 1
    BY <1>12 DEF Release
  <2>3. sem' \in 0..Concurrency
    <3>1. CASE route[r] = "isearch"
      BY <2>2, <3>1
    <3>2. CASE route[r] # "isearch"
      BY <2>1, <2>2, <3>2, Within
    <3> QED
      BY <3>1, <3>2
  <2> QED
    BY <1>12, <2>3 DEF Release, Goto
<1>13. ASSUME NEW r \in Requests, Recover(r) PROVE TypeOK'
  BY <1>13 DEF Recover, Goto
<1>14. ASSUME NEW r \in Requests, WebReply(r) PROVE TypeOK'
  <2>1. \A s \in {WebStatus(status[r]), "500"} : s \in {"200", "400", "500", "503"}
    BY DEF WebStatus
  <2> QED
    BY <1>14, <2>1 DEF WebReply, Goto
<1>15. ASSUME NEW r \in Requests, Show(r) PROVE TypeOK'
  BY <1>15 DEF Show, Goto
<1>16. ASSUME NEW r \in Requests, Leave(r) PROVE TypeOK'
  BY <1>16 DEF Leave, Goto
<1>17. CASE UNCHANGED vars
  BY <1>17 DEF vars, requestVars
<1> QED
  BY <1>1, <1>2, <1>3, <1>5, <1>6, <1>7, <1>8, <1>9, <1>10, <1>11, <1>12, <1>13,
     <1>14, <1>15, <1>16, <1>17 DEF Next, Handle, Receive

\* Only Arrive leads to the limiter.
LEMMA LimitedStep == IInv /\ [Next]_vars => Limited'
<1> SUFFICES ASSUME IInv, [Next]_vars PROVE Limited'
  OBVIOUS
<1>a. /\ Limited
      /\ pc \in [Requests -> Locs]
      /\ route \in [Requests -> {"page", "search", "isearch"}]
  BY DEF IInv, TypeOK, Locs
<1>1. ASSUME NEW r \in Requests, NEW loc, loc # "limit", Goto(r, loc), UNCHANGED route
      PROVE  Limited'
  BY <1>1, <1>a DEF Goto, Limited
<1>2. ASSUME NEW r \in Requests, Arrive(r) PROVE Limited'
  <2>1. PICK rt \in {"page", "search", "isearch"} :
          /\ route' = [route EXCEPT ![r] = rt]
          /\ Goto(r, IF rt = "isearch" THEN "handler" ELSE "limit")
    BY <1>2 DEF Arrive
  <2>2. \A q \in Requests : q # r => pc'[q] = pc[q] /\ route'[q] = route[q]
    BY <2>1, <1>a DEF Goto
  <2>3. pc'[r] = "limit" => route'[r] # "isearch"
    BY <2>1, <1>a DEF Goto
  <2> QED
    BY <2>2, <2>3, <1>a DEF Limited
<1>3. ASSUME NEW r \in Requests, Handle(r) PROVE Limited'
  BY <1>1, <1>3 DEF Handle, BadRequest, OpenFails, Open, Return
<1>4. ASSUME NEW r \in Requests, Recv(r) PROVE Limited'
  BY <1>4, <1>a DEF Recv, Limited
<1>5. ASSUME NEW r \in Requests, Eof(r) \/ Break(r) PROVE Limited'
  BY <1>1, <1>5 DEF Eof, Break, Return
<1>6. ASSUME NEW r \in Requests,
             \/ Acquire(r) \/ Busy(r) \/ Panic(r) \/ Release(r) \/ Recover(r)
             \/ WebReply(r) \/ Show(r)
      PROVE  Limited'
  BY <1>1, <1>6 DEF Acquire, Busy, Panic, Release, Recover, WebReply, Show
<1>7. ASSUME NEW r \in Requests, Leave(r) PROVE Limited'
  BY <1>7, <1>a DEF Leave, Goto, Limited
<1>8. CASE UNCHANGED vars
  BY <1>8, <1>a DEF vars, requestVars, Limited
<1> QED
  BY <1>2, <1>3, <1>4, <1>5, <1>6, <1>7, <1>8 DEF Next, Receive

\* Only Acquire and Release touch the semaphore.
LEMMA SlotsStep == IInv /\ [Next]_vars => SlotsAccounted'
<1> SUFFICES ASSUME IInv, [Next]_vars PROVE SlotsAccounted'
  OBVIOUS
<1> USE DEF Goto, Return
<1>a. /\ SlotsAccounted
      /\ pc \in [Requests -> Locs]
      /\ route \in [Requests -> {"page", "search", "isearch"}]
  BY DEF IInv, TypeOK, Locs
<1>1. ASSUME NEW r \in Requests, Acquire(r) PROVE SlotsAccounted'
  <2>1. r \notin Holders
    BY <1>1 DEF Acquire, Holders
  <2>2. Holders' = Holders \cup {r}
    BY <1>1, <1>a DEF Acquire, Holders, IInv, Limited
  <2> QED
    BY <1>1, <1>a, <2>1, <2>2, OneMore DEF Acquire, SlotsAccounted
<1>2. ASSUME NEW r \in Requests, Release(r) PROVE SlotsAccounted'
  <2>1. CASE route[r] = "isearch"
    BY <1>2, <1>a, <2>1, SlotsKept DEF Release, Holders
  <2>2. CASE route[r] # "isearch"
    <3>1. r \in Holders /\ Holders' = Holders \ {r}
      BY <1>2, <1>a, <2>2 DEF Release, Holders
    <3> QED
      BY <1>2, <1>a, <2>2, <3>1, OneLess DEF Release, SlotsAccounted
  <2> QED
    BY <2>1, <2>2
<1>3. ASSUME NEW r \in Requests, Arrive(r) PROVE SlotsAccounted'
  BY <1>3, <1>a, SlotsKept DEF Arrive, Holders
<1>4. ASSUME NEW r \in Requests, Busy(r) PROVE SlotsAccounted'
  BY <1>4, <1>a, SlotsKept DEF Busy, Holders
<1>5. ASSUME NEW r \in Requests, Handle(r) PROVE SlotsAccounted'
  BY <1>5, <1>a, SlotsKept DEF Handle, BadRequest, OpenFails, Open, Holders
<1>6. ASSUME NEW r \in Requests, Receive(r) PROVE SlotsAccounted'
  BY <1>6, <1>a, SlotsKept DEF Receive, Recv, Eof, Break, Holders
<1>7. ASSUME NEW r \in Requests, Panic(r) PROVE SlotsAccounted'
  BY <1>7, <1>a, SlotsKept DEF Panic, Holders
<1>8. ASSUME NEW r \in Requests, Recover(r) PROVE SlotsAccounted'
  BY <1>8, <1>a, SlotsKept DEF Recover, Holders
<1>9. ASSUME NEW r \in Requests, WebReply(r) PROVE SlotsAccounted'
  BY <1>9, <1>a, SlotsKept DEF WebReply, Holders
<1>10. ASSUME NEW r \in Requests, Show(r) PROVE SlotsAccounted'
  BY <1>10, <1>a, SlotsKept DEF Show, Holders
<1>11. ASSUME NEW r \in Requests, Leave(r) PROVE SlotsAccounted'
  BY <1>11, <1>a, SlotsKept DEF Leave, Holders
<1>12. CASE UNCHANGED vars
  BY <1>12, <1>a DEF vars, requestVars, SlotsAccounted, Holders
<1> QED
  BY <1>1, <1>2, <1>3, <1>4, <1>5, <1>6, <1>7, <1>8, <1>9, <1>10, <1>11, <1>12 DEF Next

\* No step makes an incomplete answer one with status 200.
LEMMA PageStep == IInv /\ [Next]_vars => Progress' /\ PageTrue'
<1> SUFFICES ASSUME IInv, [Next]_vars PROVE Progress' /\ PageTrue'
  OBVIOUS
<1> USE DEF Goto, Return
<1>a. /\ TypeOK /\ Progress /\ PageTrue
      /\ pc \in [Requests -> Locs]
      /\ found \in [Requests -> 0..MaxRows] /\ comics \in [Requests -> 0..MaxRows]
      /\ status \in [Requests -> {"", "200", "400", "500", "503"}]
      /\ shown \in [Requests -> {"", "comics", "No comics found", "Search failed"}]
  BY DEF IInv, TypeOK, Locs
<1>1. ASSUME NEW r \in Requests, Arrive(r) PROVE Progress' /\ PageTrue'
  BY <1>1, <1>a, PageKept DEF Arrive, Progress
<1>2. ASSUME NEW r \in Requests, Acquire(r) PROVE Progress' /\ PageTrue'
  BY <1>2, <1>a, PageKept DEF Acquire, Progress
<1>3. ASSUME NEW r \in Requests, Busy(r) PROVE Progress' /\ PageTrue'
  BY <1>3, <1>a, PageKept DEF Busy, Progress
<1>4. ASSUME NEW r \in Requests, BadRequest(r) PROVE Progress' /\ PageTrue'
  BY <1>4, <1>a, PageKept DEF BadRequest, Progress
<1>5. ASSUME NEW r \in Requests, OpenFails(r) PROVE Progress' /\ PageTrue'
  <2>1. PICK code \in {"Unavailable", "ResourceExhausted", "Internal"} :
          Return(r, OpenStatus(code))
    BY <1>5 DEF OpenFails
  <2>2. OpenStatus(code) \in {"503", "400", "500"}
    BY DEF OpenStatus
  <2> QED
    BY <1>5, <1>a, <2>1, <2>2, PageKept DEF OpenFails, Progress
<1>6. ASSUME NEW r \in Requests, Open(r) PROVE Progress' /\ PageTrue'
  BY <1>6, <1>a, PageKept DEF Open, Progress
<1>7. ASSUME NEW r \in Requests, Recv(r) PROVE Progress' /\ PageTrue'
  BY <1>7, <1>a, PageKept DEF Recv, Progress
<1>8. ASSUME NEW r \in Requests, Eof(r) PROVE Progress' /\ PageTrue'
  BY <1>8, <1>a, PageKept DEF Eof, Progress
<1>9. ASSUME NEW r \in Requests, Break(r) PROVE Progress' /\ PageTrue'
  BY <1>9, <1>a, PageKept DEF Break, Progress
<1>10. ASSUME NEW r \in Requests, Panic(r) PROVE Progress' /\ PageTrue'
  BY <1>10, <1>a, PageKept DEF Panic, Progress
<1>11. ASSUME NEW r \in Requests, Release(r) PROVE Progress' /\ PageTrue'
  BY <1>11, <1>a, PageKept DEF Release, Progress
<1>12. ASSUME NEW r \in Requests, Recover(r) PROVE Progress' /\ PageTrue'
  BY <1>12, <1>a, PageKept DEF Recover, Progress
<1>13. ASSUME NEW r \in Requests, WebReply(r) PROVE Progress' /\ PageTrue'
  <2>1. WebStatus(status[r]) = "200" => status[r] = "200"
    BY DEF WebStatus
  <2> QED
    BY <1>13, <1>a, <2>1, PageKept DEF WebReply, Progress
<1>14. ASSUME NEW r \in Requests, Leave(r) PROVE Progress' /\ PageTrue'
  BY <1>14, <1>a, PageKept DEF Leave, Progress
<1>15. ASSUME NEW r \in Requests, Show(r) PROVE Progress' /\ PageTrue'
  <2>1. status[r] = "200" => comics[r] = found[r]
    BY <1>a DEF Progress
  <2>0. comics[r] \in 0..MaxRows /\ found[r] \in 0..MaxRows
    BY <1>a
  <2>a. comics[r] \in Nat /\ found[r] \in Nat
    BY <2>0, Bounds, Within
  <2>b. shown'[r] = CASE status[r] # "200" -> "Search failed"
                      [] status[r] = "200" /\ comics[r] > 0 -> "comics"
                      [] OTHER -> "No comics found"
    BY <1>15, <1>a DEF Show
  <2>2. /\ shown'[r] = "comics" => comics[r] = found[r]
        /\ shown'[r] = "No comics found" => status[r] = "200" /\ found[r] = 0
    <3>1. CASE status[r] # "200"
      BY <2>b, <3>1
    <3>2. CASE status[r] = "200" /\ comics[r] > 0
      BY <2>1, <2>b, <3>2
    <3>3. CASE status[r] = "200" /\ ~(comics[r] > 0)
      <4>1. comics[r] = 0
        BY <2>a, <3>3
      <4>2. shown'[r] = "No comics found"
        BY <2>b, <3>3, Zenon
      <4> QED
        BY <2>1, <3>3, <4>1, <4>2
    <3> QED
      BY <3>1, <3>2, <3>3
  <2>3. /\ UNCHANGED <<found, comics, status>>
        /\ \A q \in Requests : q # r => shown'[q] = shown[q] /\ pc'[q] = pc[q]
        /\ pc'[r] = "seen"
    BY <1>15, <1>a DEF Show
  <2> QED
    BY <1>a, <2>2, <2>3 DEF Progress, PageTrue
<1>16. CASE UNCHANGED vars
  BY <1>16, <1>a DEF vars, requestVars, Progress, PageTrue
<1> QED
  BY <1>1, <1>2, <1>3, <1>4, <1>5, <1>6, <1>7, <1>8, <1>9, <1>10, <1>11, <1>12, <1>13,
     <1>14, <1>15, <1>16 DEF Next, Handle, Receive

THEOREM Invariance == Spec => []IInv
<1>1. IInv /\ [Next]_vars => IInv'
  BY TypeStep, SlotsStep, LimitedStep, PageStep DEF IInv
<1> QED
  BY <1>1, InitIInv, PTL DEF Spec

\* The channel of the limiter holds between none and Concurrency elements.
THEOREM TypeCorrect == Spec => []TypeOK
BY Invariance, PTL DEF IInv

\* Every slot belongs to a request that is being served, however its handler
\* ends.
THEOREM SlotsAreAccounted == Spec => []SlotsAccounted
BY Invariance, PTL DEF IInv

\* The page never shows a part of the comics found as the result.
THEOREM PageIsTrue == Spec => []PageTrue
BY Invariance, PTL DEF IInv
=============================================================================
