-------------------------- MODULE ComicSystemProofs --------------------------
(***************************************************************************)
(* Proofs about ComicSystem, for any number of callers, workers, readers,  *)
(* comics, words and events: the two services together behave as           *)
(* SearchIndex, hence what is proved of SearchIndex holds of them, and     *)
(* what an Update reports as stored is found.                              *)
(***************************************************************************)
EXTENDS ComicSystem, UpdateServiceProofs

\* The theorems about SearchIndex, of the store that the update service is.
Proved == INSTANCE SearchIndexProofs WITH pc <- spc, owed <- Owed

-----------------------------------------------------------------------------
(* The steps of the update service *)

\* The invariant of the update service does not mind what becomes of events
\* that are on their way.
LEMMA EventsGo ==
  ASSUME IInv, UNCHANGED <<comics, stats, serviceVars>>,
         events' \in Seq({"update", "reset"}), Len(events') <= MaxEvents
  PROVE  IInv'
<1>1. TypeOK'
  BY DEF IInv, TypeOK, serviceVars
<1>2. FlagHeldByOne' /\ StatsConsistent' /\ comics' \subseteq 1..xkcdLast'
  BY DEF IInv, FlagHeldByOne, StatsConsistent, serviceVars
<1>3. ASSUME NEW c \in Callers PROVE RunInv(c)'
  <2>1. RunInv(c)
    BY DEF IInv
  <2>2. OnePlace(c)' /\ Counted(c)' /\ Fed(c)'
    BY <2>1 DEF RunInv, OnePlace, Counted, Fed, Outstanding, Held, serviceVars
  <2>3. Known(c)' /\ Replied(c)'
    BY <2>1 DEF RunInv, Known, Replied, serviceVars
  <2> QED
    BY <2>2, <2>3 DEF RunInv
<1> QED
  BY <1>1, <1>2, <1>3 DEF IInv

\* No step of the service itself takes an event away.
LEMMA EventsStay ==
  ASSUME events \in Seq({"update", "reset"}), ServiceStep
  PROVE  /\ [Next]_vars
         /\ events' = events \/ Len(events') > Len(events)
<1>1. [Next]_vars
  BY DEF ServiceStep, Next
<1>2. ASSUME NEW c \in Callers, Publish(c)
      PROVE  events' = events \/ Len(events') > Len(events)
  BY <1>2 DEF Publish
<1>3. ASSUME NEW c \in Callers, Begin(c) \/ (Handler(c) /\ ~Publish(c)) \/ Cancel(c)
      PROVE  events' = events
  BY <1>3 DEF Begin, Update, Drop, Stats, Handler, ReadIDs, ReadLastID, Feed, CloseJobs,
     Collect, EndCollect, Insert, UpdateStats, Truncate, ResetStats, Commit, CommitError,
     Release, ReadStats, EndStats, Cancel, Fail, storeVars
<1>4. ASSUME NEW c \in Callers, NEW w \in Workers, Worker(c, w)
      PROVE  events' = events
  BY <1>4 DEF Worker, TakeJob, SendComic, SendNil, storeVars
<1>5. ASSUME Crash \/ NewComic
      PROVE  events' = events
  BY <1>5 DEF Crash, NewComic, storeVars
<1> QED
  BY <1>1, <1>2, <1>3, <1>4, <1>5 DEF ServiceStep

\* A step of the service is one of the abstract store that takes no event, or
\* leaves the store alone.
LEMMA StoreStep ==
  ASSUME IInv, ServiceStep
  PROVE  \/ UNCHANGED Index!storeVars
         \/ \E batch \in SUBSET Index!Ids : Index!AddBatch(batch)
         \/ Index!Clear
         \/ Index!Announce /\ events' # events
         \/ Index!Forget
<1>1. events \in Seq({"update", "reset"})
  BY DEF IInv, TypeOK
<1>2. [Store!StoreNext]_(Store!storeVars)
  BY <1>1, EventsStay, MapsStep
<1>3. UNCHANGED Store!storeVars => UNCHANGED Index!storeVars
  BY DEF Store!storeVars, Index!storeVars
<1>4. ASSUME NEW batch \in SUBSET Store!Ids, Store!AddBatch(batch)
      PROVE  batch \in SUBSET Index!Ids /\ Index!AddBatch(batch)
  BY <1>4 DEF Store!Ids, Index!Ids, Store!AddBatch, Index!AddBatch, Store!StatsOf,
     Index!StatsOf, Cardinality, Store!Cardinality, Index!Cardinality
<1>5. Store!Clear => Index!Clear
  BY DEF Store!Clear, Index!Clear, Store!ZeroStats, Index!ZeroStats
<1>6. Store!Announce => Index!Announce /\ events' # events
  <2>1. ASSUME events' = Append(events, Owed) PROVE events' # events
    BY <1>1, <2>1
  <2> QED
    BY <2>1 DEF Store!Announce, Index!Announce
<1>7. Store!Forget => Index!Forget
  BY DEF Store!Forget, Index!Forget
<1>8. ~Store!Take
  BY <1>1, EventsStay DEF Store!Take
<1>9. ASSUME NEW n \in DOMAIN events, Store!Lose(n)
      PROVE  FALSE
  <2>1. n \in 1..Len(events) /\ Len(events) \in Nat
    BY <1>1
  <2>2. Len(events') = Len(events) - 1
    BY <1>1, <1>9, <2>1 DEF Store!Lose
  <2> QED
    BY <2>1, <2>2, EventsStay, <1>1
<1> QED
  BY <1>2, <1>3, <1>4, <1>5, <1>6, <1>7, <1>8, <1>9 DEF Store!StoreNext

-----------------------------------------------------------------------------
(* The invariant: what was promised is in the table *)

\* A table that changes grows, or is emptied.
LEMMA TableStep ==
  ASSUME IInv, ServiceStep
  PROVE  comics \subseteq comics' \/ comics' = {}
BY StoreStep DEF Index!storeVars, Index!AddBatch, Index!Clear, Index!Announce, Index!Forget

\* An Update that has returned without an error told the truth.
LEMMA StoredInTable ==
  ASSUME IInv, NEW c \in Callers
  PROVE  Stored(c) \subseteq comics
BY DEF IInv, RunInv, Known, Stored

\* The search service and the broker leave the update service alone, but for
\* the events.
LEMMA SearchStepFrame ==
  ASSUME IInv, SearchStep
  PROVE  IInv' /\ UNCHANGED <<comics, promised>>
<1>1. /\ events \in Seq({"update", "reset"}) /\ Len(events) <= MaxEvents
      /\ MaxEvents \in Nat
  BY ServiceAssumption DEF IInv, TypeOK
<1>2. UNCHANGED <<serviceVars, promised>>
  BY DEF SearchStep
<1>3. ASSUME UNCHANGED Index!storeVars
      PROVE  IInv' /\ UNCHANGED comics
  BY <1>1, <1>2, <1>3, EventsGo DEF Index!storeVars
<1>4. CASE Index!HandleEvent
  BY <1>1, <1>2, <1>4, EventsGo DEF Index!HandleEvent, Index!Take
<1>5. CASE Index!Miss
  <2>1. PICK n \in DOMAIN events : Index!Lose(n)
    BY <1>5 DEF Index!Miss
  <2>2. n \in 1..Len(events) /\ Len(events) \in Nat
    BY <1>1
  <2>3. events' \in Seq({"update", "reset"}) /\ Len(events') <= MaxEvents
    BY <1>1, <2>1, <2>2 DEF Index!Lose
  <2> QED
    BY <1>2, <2>1, <2>3, EventsGo DEF Index!Lose
<1>6. CASE Index!Exit
  <2>1. PICK n \in 0..Len(events) : events' = SubSeq(events, n + 1, Len(events))
    BY <1>6 DEF Index!Exit
  <2>2. events' \in Seq({"update", "reset"}) /\ Len(events') <= MaxEvents
    BY <1>1, <2>1
  <2> QED
    BY <1>2, <1>6, <2>2, EventsGo DEF Index!Exit
<1>7. CASE Index!Attach \/ Index!Disconnect \/ Index!Start \/ Index!Tick
  BY <1>3, <1>2, <1>7 DEF Index!Attach, Index!Disconnect, Index!Start, Index!Tick
<1>8. ASSUME NEW w \in Index!Writers, Index!Writer(w)
      PROVE  IInv' /\ UNCHANGED <<comics, promised>>
  BY <1>3, <1>2, <1>8 DEF Index!Writer, Index!Lock, Index!Drain, Index!ReadTable,
     Index!ReadError, Index!Fill, Index!Reset, Index!Unlock
<1>9. ASSUME NEW r \in Readers, Index!RLock(r) \/ Index!Search(r) \/ Index!Reader(r)
      PROVE  IInv' /\ UNCHANGED <<comics, promised>>
  BY <1>3, <1>2, <1>9 DEF Index!RLock, Index!Search, Index!Reader, Index!Lookup,
     Index!Fetch, Index!RUnlock, Index!Return
<1> QED
  BY <1>2, <1>4, <1>5, <1>6, <1>7, <1>8, <1>9 DEF SearchStep

LEMMA SysInvInit == SysInit => SysInv
  BY InitInv DEF SysInit, SysInv

LEMMA SysInvStep == SysInv /\ [SysNext]_sysVars => SysInv'
<1> SUFFICES ASSUME SysInv, [SysNext]_sysVars PROVE SysInv'
  OBVIOUS
<1>1. CASE ServiceStep
  <2>1. IInv /\ IInv'
    BY <1>1, EventsStay, InvStep DEF SysInv, IInv, TypeOK
  <2>2. comics \subseteq comics' \/ comics' = {}
    BY <1>1, <2>1, TableStep
  <2>3. UNION {Stored(c) : c \in {c \in Callers : pc'[c] = "idle"}} \subseteq comics
    BY <2>1, StoredInTable
  <2>4. promised' \subseteq comics'
    BY <1>1, <2>2, <2>3 DEF ServiceStep, Promises, SysInv
  <2> QED
    BY <2>1, <2>4 DEF SysInv
<1>2. CASE SearchStep
  BY <1>2, SearchStepFrame DEF SysInv
<1>3. CASE UNCHANGED sysVars
  BY <1>3, InvStep DEF sysVars, SysInv, vars
<1> QED
  BY <1>1, <1>2, <1>3 DEF SysNext

\* The update service's invariant survives the search service, and what an Update
\* reported as stored stays in the table until a Drop.
THEOREM SystemInvariant == SysSpec => []SysInv
  BY SysInvInit, SysInvStep, PTL DEF SysSpec

-----------------------------------------------------------------------------
(* The two services together behave as SearchIndex *)

\* A commit is a change, a publishing handler announces or forgets, and every
\* other step of the update service leaves SearchIndex alone.
LEMMA ServiceMaps ==
  ASSUME SysInv, ServiceStep
  PROVE  [Index!Next]_(Index!vars)
<1>1. /\ UNCHANGED searchVars
      /\ Remembered
  BY DEF ServiceStep
<1>2. CASE UNCHANGED Index!storeVars
  BY <1>1, <1>2 DEF Remembered, searchVars, Index!vars, Index!indexVars, Index!procVars,
     Index!readVars
<1>3. CASE /\ ~UNCHANGED Index!storeVars
           /\ (\E batch \in SUBSET Index!Ids : Index!AddBatch(batch)) \/ Index!Clear
  <2>1. Owed = "none" /\ events' = events
    BY <1>3 DEF Index!AddBatch, Index!Clear
  <2>2. lost' = (Owed' = "none") /\ current' = {}
    BY <1>1, <1>3, <2>1 DEF Remembered
  <2>3. Index!Change
    BY <1>1, <1>3, <2>2 DEF Index!Change, searchVars, Index!indexVars, Index!procVars
  <2> QED
    BY <2>3 DEF Index!Next
<1>4. CASE Index!Announce /\ events' # events
  <2>1. UNCHANGED <<lost, current>>
    BY <1>1, <1>4 DEF Remembered, Index!Announce
  <2>2. Index!Publish
    BY <1>1, <1>4, <2>1 DEF Index!Publish, searchVars, Index!indexVars, Index!procVars,
       Index!readVars
  <2> QED
    BY <2>2 DEF Index!Next
<1>5. CASE ~UNCHANGED Index!storeVars /\ Index!Forget
  <2>1. lost' = TRUE /\ UNCHANGED current
    BY <1>1, <1>5 DEF Remembered, Index!Forget
  <2>2. Index!Publish
    BY <1>1, <1>5, <2>1 DEF Index!Publish, searchVars, Index!indexVars, Index!procVars,
       Index!readVars
  <2> QED
    BY <2>2 DEF Index!Next
<1> QED
  BY <1>2, <1>3, <1>4, <1>5, StoreStep DEF SysInv

LEMMA SystemMaps == SysInv /\ [SysNext]_sysVars => [Index!Next]_(Index!vars)
<1>1. SearchStep => Index!Next
  BY DEF SearchStep, Index!Next
<1>2. UNCHANGED sysVars => UNCHANGED Index!vars
  BY DEF sysVars, vars, searchVars, Owed, Index!vars, Index!storeVars, Index!indexVars,
     Index!procVars, Index!readVars
<1> QED
  BY <1>1, <1>2, ServiceMaps DEF SysNext

\* Every behaviour of the two services is one of SearchIndex: the abstract store
\* in it may be replaced by the update service with all its steps.
THEOREM SystemRefinement == SysSpec => ImplementsIndex
<1>1. SysInit => Index!Init
  BY DEF SysInit
<1> QED
  BY <1>1, SystemInvariant, SystemMaps, PTL DEF SysSpec, ImplementsIndex, Index!Spec

-----------------------------------------------------------------------------
(* What is proved of SearchIndex holds of the two services *)

\* The assumptions of those theorems.
LEMMA Assumptions ==
  /\ Proved!StoreAssumption
  /\ Proved!VocabularyAssumption
  /\ Proved!TextAssumption
  /\ Proved!RequestAssumption
  /\ Proved!ReaderAssumption
<1>1. Proved!StoreAssumption
  BY ServiceAssumption DEF Proved!StoreAssumption, Proved!IsFiniteSet, IsFiniteSet
<1>2. Proved!VocabularyAssumption
  BY SystemAssumption DEF Proved!VocabularyAssumption, Index!VocabularyAssumption
<1>3. Proved!TextAssumption
  BY SystemAssumption DEF Proved!TextAssumption, Index!TextAssumption, Proved!Norm,
     Index!Norm, Proved!Keep, Index!Keep, Proved!Range, Index!Range
<1>4. Proved!RequestAssumption
  BY SystemAssumption DEF Proved!RequestAssumption, Index!RequestAssumption
<1>5. Proved!ReaderAssumption
  BY SystemAssumption DEF Proved!ReaderAssumption, Index!ReaderAssumption, Proved!Writers,
     Index!Writers
<1> QED
  BY <1>1, <1>2, <1>3, <1>4, <1>5

\* The instance counts as the library does.
LEMMA CountsAlike == \A S : Proved!Cardinality(S) = Cardinality(S)
  BY DEF Cardinality, Proved!Cardinality

\* A list of as many comics as match, all different and matching, has them all.
LEMMA FullList ==
  ASSUME SysInv, NEW r, NEW better, reply[r] \in Seq(Ids), Proved!IsTop(r, better),
         Len(reply[r]) = Cardinality(Proved!Matches(r)), NEW i \in Proved!Matches(r)
  PROVE  \E n \in DOMAIN reply[r] : reply[r][n] = i
<1> DEFINE s == reply[r]
           M == Proved!Matches(r)
<1>1. s \in Seq(Ids) /\ DOMAIN s = 1..Len(s) /\ Len(s) \in Nat
  OBVIOUS
<1>2. IsFiniteSet(M)
  <2>1. M \in SUBSET Ids
    BY DEF SysInv, IInv, TypeOK, Proved!Matches
  <2> QED
    BY <2>1, IdsFinite
<1>3. \A a, b \in DOMAIN s : s[a] = s[b] => a = b
  BY DEF Proved!IsTop, Proved!IsInjective
<1>4. \A n \in DOMAIN s : s[n] \in M
  BY DEF Proved!IsTop, Proved!Range
<1>5. Len(s) = Cardinality(M) /\ i \in M
  OBVIOUS
<1> HIDE DEF s, M
<1>6. s \in Injection(1..Len(s), M)
  BY <1>1, <1>3, <1>4 DEF Injection, IsInjective
<1>7. Cardinality(1..Len(s)) = Cardinality(M)
  BY <1>1, <1>5, FS_Interval
<1>8. s \in Surjection(1..Len(s), M)
  BY <1>2, <1>6, <1>7, FS_Injection
<1>9. \E n \in 1..Len(s) : s[n] = i
  BY <1>5, <1>8 DEF Surjection
<1> QED
  BY <1>1, <1>9 DEF s

\* Index and Proved!SearchIndex are one specification: written out, the two are
\* the same formula.
LEMMA SameSpec == Index!Spec <=> Proved!Spec
  BY DEF Index!Spec, Proved!Spec, Index!Init, Proved!Init, Index!StoreInit,
     Proved!StoreInit, Index!ZeroStats, Proved!ZeroStats, Index!IndexOf,
     Proved!IndexOf, Index!Writers, Proved!Writers, Index!NoQuery, Proved!NoQuery,
     Index!NoScores, Proved!NoScores, Index!Ids, Proved!Ids, Index!vars, Proved!vars,
     Index!storeVars, Proved!storeVars, Index!indexVars, Proved!indexVars,
     Index!procVars, Proved!procVars, Index!readVars, Proved!readVars, Index!Next,
     Proved!Next, Index!Change, Proved!Change, Index!AddBatch, Proved!AddBatch,
     Index!Clear, Proved!Clear, Index!StatsOf, Proved!StatsOf, Index!Cardinality,
     Proved!Cardinality, Index!Publish, Proved!Publish, Index!Announce,
     Proved!Announce, Index!Forget, Proved!Forget, Index!Attach, Proved!Attach,
     Index!Disconnect, Proved!Disconnect, Index!Miss, Proved!Miss, Index!Lose,
     Proved!Lose, Index!Start, Proved!Start, Index!Tick, Proved!Tick,
     Index!HandleEvent, Proved!HandleEvent, Index!Take, Proved!Take, Index!Settled,
     Proved!Settled, Index!Inside, Proved!Inside, Index!Idle, Proved!Idle,
     Index!ResetPending, Proved!ResetPending, Index!Writer, Proved!Writer, Index!Lock,
     Proved!Lock, Index!Drain, Proved!Drain, Index!ReadTable, Proved!ReadTable,
     Index!ReadError, Proved!ReadError, Index!Fill, Proved!Fill, Index!Reset,
     Proved!Reset, Index!Unlock, Proved!Unlock, Index!RLock, Proved!RLock,
     Index!Search, Proved!Search, Index!Reader, Proved!Reader, Index!Lookup,
     Proved!Lookup, Index!Fetch, Proved!Fetch, Index!RUnlock, Proved!RUnlock,
     Index!Return, Proved!Return, Index!Forgotten, Proved!Forgotten, Index!Exit,
     Proved!Exit, Index!Queries, Proved!Queries, Index!Norm, Proved!Norm, Index!Keep,
     Proved!Keep, Index!Accepted, Proved!Accepted, Index!Range, Proved!Range,
     Index!RankedSearch, Proved!RankedSearch, Index!FirstOf, Proved!FirstOf,
     Index!Ahead, Proved!Ahead, Index!Matched, Proved!Matched, Index!Total,
     Proved!Total, Index!Listed, Proved!Listed, Index!SetToSeqs, Proved!SetToSeqs,
     Index!Scores, Proved!Scores, Index!ByScore, Proved!ByScore

\* A comic that was promised and matches is in a list of the best, or the list is
\* full of comics that match as well.
LEMMA ListedFound ==
  ASSUME SysInv, Proved!TypeOK, NEW r \in Readers, NEW better, NEW i \in promised,
         Proved!MoreInCommon(r) \subseteq better, Proved!IsTop(r, better),
         Index!Common(r, i) > 0
  PROVE  \/ \E n \in DOMAIN reply[r] : reply[r][n] = i
         \/ /\ Len(reply[r]) = query[r].limit
            /\ \A n \in DOMAIN reply[r] : Index!Common(r, reply[r][n]) >= Index!Common(r, i)
<1>1. \A j : Index!Common(r, j) = Proved!Common(r, j)
  BY DEF Index!Common, Proved!Common, Index!Cardinality, Proved!Cardinality, Index!Range,
     Proved!Range
<1>2. ASSUME NEW j \in Ids
      PROVE  Index!Common(r, j) \in Nat
  <2> DEFINE K == WordsOf[j] \cap Proved!Range(query[r].keywords)
  <2>1. K \in SUBSET Words
    BY ServiceAssumption DEF Ids
  <2>2. Proved!Common(r, j) = Cardinality(K)
    BY CountsAlike DEF Proved!Common
  <2> HIDE DEF K
  <2> QED
    BY <1>1, <2>1, <2>2, ServiceAssumption, FS_Subset, FS_CardinalityType
<1>3. i \in comics /\ comics \subseteq Ids
  BY DEF SysInv, IInv, TypeOK
<1>4. i \in Proved!Matches(r)
  BY <1>1, <1>3 DEF Proved!Matches
<1>5. reply[r] \in Seq(Ids)
  BY DEF Proved!TypeOK, Proved!Ids, Ids
<1>6. CASE Len(reply[r]) = Cardinality(Proved!Matches(r))
  BY <1>4, <1>5, <1>6, FullList
<1>7. CASE Len(reply[r]) = query[r].limit
  <2>1. CASE i \in Proved!Range(reply[r])
    BY <2>1 DEF Proved!Range
  <2>2. CASE i \notin Proved!Range(reply[r])
    <3>1. ASSUME NEW n \in DOMAIN reply[r]
          PROVE  Index!Common(r, reply[r][n]) >= Index!Common(r, i)
      <4>1. reply[r][n] \in Ids
        BY <1>5
      <4>2. <<i, reply[r][n]>> \notin Proved!MoreInCommon(r)
        BY <1>4, <2>2 DEF Proved!IsTop
      <4>3. ~(Proved!Common(r, i) > Proved!Common(r, reply[r][n]))
        BY <1>3, <4>1, <4>2 DEF Proved!MoreInCommon, Proved!Ids, Ids
      <4> QED
        BY <1>1, <1>2, <1>3, <4>1, <4>3
    <3> QED
      BY <1>7, <3>1
  <2> QED
    BY <2>1, <2>2
<1> QED
  BY <1>6, <1>7, CountsAlike DEF Proved!IsTop

\* Every variable of both services keeps its type.
THEOREM TypesCorrect == SysSpec => []SysTypeOK
<1>1. SysInv /\ Proved!TypeOK => SysTypeOK
  BY DEF SysInv, SysTypeOK, IInv, TypeOK,
     Index!TypeOK, Proved!TypeOK, Index!Queries, Proved!Queries, Index!NoQuery,
     Proved!NoQuery, Index!PCs, Proved!PCs, Index!Writers, Proved!Writers,
     Index!StatsRow, Proved!StatsRow, Index!Ids, Proved!Ids, Index!Accepted,
     Proved!Accepted, Index!Norm, Proved!Norm, Index!Keep, Proved!Keep, Index!Range,
     Proved!Range
<1>2. SysSpec => []Proved!TypeOK
  BY SystemRefinement, SameSpec, Assumptions, Proved!TypeCorrect, PTL DEF ImplementsIndex
<1> QED
  BY <1>1, <1>2, SystemInvariant, PTL

\* Whatever the handlers, workers, transactions and crashes of the update
\* service do: no ISearch reads an index that is half written, the index is that
\* of the table once the last event was handled, and both searches return the
\* best.
THEOREM SearchesOfService ==
  SysSpec => [](/\ Proved!NoTornRead
                /\ Proved!FreshWhenSettled
                /\ Proved!ISearchExact
                /\ Proved!SearchExact)
<1>1. SysSpec => Proved!Spec
  BY SystemRefinement, SameSpec, PTL DEF ImplementsIndex
<1>2. SysSpec => []Proved!NoTornRead
  BY <1>1, Assumptions, Proved!NeverTorn, PTL
<1>3. SysSpec => []Proved!FreshWhenSettled
  BY <1>1, Assumptions, Proved!Fresh, PTL
<1>4. SysSpec => []Proved!ISearchExact
  BY <1>1, Assumptions, Proved!ISearchReturnsBest, PTL
<1>5. SysSpec => []Proved!SearchExact
  BY <1>1, Assumptions, Proved!SearchReturnsBest, PTL
<1> QED
  BY <1>2, <1>3, <1>4, <1>5, PTL

\* What an Update reported as stored is found by whoever searches, unless the
\* limit is reached with comics that fit as well.
THEOREM PromisedIsFound == SysSpec => []Found
<1>1. /\ SysInv /\ Proved!TypeOK /\ Proved!ISearchExact /\ Proved!SearchExact
      => Found
  <2> SUFFICES ASSUME SysInv, Proved!TypeOK, Proved!ISearchExact, Proved!SearchExact,
                      NEW r \in current, NEW i \in promised,
                      spc[r] \in {"reply", "answer"}, Index!Common(r, i) > 0
               PROVE  \/ \E n \in DOMAIN reply[r] : reply[r][n] = i
                      \/ /\ Len(reply[r]) = query[r].limit
                         /\ \A n \in DOMAIN reply[r] :
                              Index!Common(r, reply[r][n]) >= Index!Common(r, i)
    BY DEF Found
  <2>1. r \in Readers
    BY DEF Proved!TypeOK
  <2>2. CASE spc[r] = "reply"
    <3>1. Proved!IsTop(r, Proved!MoreInCommon(r))
      BY <2>1, <2>2 DEF Proved!ISearchExact
    <3> QED
      BY <2>1, <3>1, ListedFound
  <2>3. CASE spc[r] = "answer"
    <3>1. Proved!IsTop(r, Proved!MoreInCommon(r) \cup Proved!LargerPart(r))
      BY <2>3 DEF Proved!SearchExact
    <3> QED
      BY <2>1, <3>1, ListedFound
  <2> QED
    BY <2>2, <2>3
<1>2. SysSpec => []Proved!TypeOK
  BY SystemRefinement, SameSpec, Assumptions, Proved!TypeCorrect, PTL DEF ImplementsIndex
<1> QED
  BY <1>1, <1>2, SystemInvariant, SearchesOfService, PTL
=============================================================================
