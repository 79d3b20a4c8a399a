----------------------------- MODULE SearchIndex -----------------------------
(***************************************************************************)
(* The search service beside the comic store: an in-memory index of the    *)
(* comics table, rebuilt by the scheduler at start and on every tick, and  *)
(* rebuilt or cleared by the subscriber for every event of the update      *)
(* service, while ISearch requests read it.  One Go RWMutex guards it.     *)
(* Events travel at most once, and late: the broker drops what nobody is   *)
(* subscribed to, the clients keep what they hold over a reconnect.        *)
(***************************************************************************)
EXTENDS ComicStore, Ranking

CONSTANTS
  Readers,   \* goroutines that serve Search or ISearch
  Requests   \* what they may be asked for: [path, phrase, limit]

\* Words is the vocabulary: whatever the normaliser may return.
ASSUME VocabularyAssumption ==
  \A w \in DOMAIN Stem : Stem[w] \in Words \cup StopWords

\* The keywords the rest of the models gives a comic are those of its text.
ASSUME TextAssumption ==
  /\ DOMAIN TextOf = 1..MaxID
  /\ \A i \in 1..MaxID :
       TextOf[i] \in Seq(DOMAIN Stem) /\ Range(Norm(TextOf[i])) = WordsOf[i]

ASSUME RequestAssumption ==
  \A q \in Requests :
    /\ q.path \in {"search", "isearch"}
    /\ q.phrase \in Seq(DOMAIN Stem)
    /\ q.limit \in Nat \ {0}

Writers == {"sched", "sub"}

ASSUME ReaderAssumption == Readers \cap Writers = {}

VARIABLES
  index,      \* index[k]: ids listed under keyword k
  owner,      \* the writer that has announced itself to the RWMutex, or "none"
  phase,      \* the process: "down", "booting" (first rebuild), "serving"
  attached,   \* the broker knows the subscription
  pc,         \* pc[p]: what writer or reader p does next
  job,        \* job[w]: what writer w is to do with the index
  todo,       \* todo[w]: rows of w's snapshot that are not indexed yet
  query,      \* query[r]: the keywords and the limit of r's request
  scores,     \* scores[r]: how often the index lists each comic for it
  reply,      \* reply[r]: ids of the comics r is about to return, best first
  shown,      \* ghost: the table whose index is published, or being written
  lost,       \* ghost: the event of the last change never had its effect
  current     \* ghost: readers whose lookup saw the last change's effect

indexVars == <<index, shown>>
procVars == <<owner, phase, attached, pc, job, todo>>
readVars == <<query, scores, reply, current>>
vars == <<storeVars, indexVars, procVars, readVars, lost>>

IndexOf(S) == [k \in Words |-> {i \in S : k \in WordsOf[i]}]

\* Readers that hold the read lock.
Inside == {r \in Readers : pc[r] \in {"norm", "fetch", "reply"}}

\* The event of the last change has been dealt with, with success.
Settled == ~lost /\ owed = "none" /\ events = <<>> /\ pc["sub"] = "idle"

\* An older event that clears the index without looking at the table is
\* still to come.
ResetPending ==
  \/ \E n \in DOMAIN events : events[n] = "reset"
  \/ pc["sub"] # "idle" /\ job["sub"] = "reset"

Idle(p) == [pc EXCEPT ![p] = "idle"]

\* What words.Norm makes of an accepted request.
Queries(path) == {[keywords |-> Norm(q.phrase), limit |-> q.limit] :
                    q \in {q \in Requests : q.path = path /\ Accepted(q.phrase)}}
NoQuery == [keywords |-> <<>>, limit |-> 0]
NoScores == [i \in Ids |-> 0]

Init ==
  /\ StoreInit
  /\ index = IndexOf({})
  /\ shown = {}
  /\ owner = "none"
  /\ phase = "down"
  /\ attached = FALSE
  /\ pc = [p \in Writers \cup Readers |-> "idle"]
  /\ job = [w \in Writers |-> "update"]
  /\ todo = [w \in Writers |-> {}]
  /\ query = [r \in Readers |-> NoQuery]
  /\ scores = [r \in Readers |-> NoScores]
  /\ reply = [r \in Readers |-> <<>>]
  /\ lost = FALSE
  /\ current = {}

-----------------------------------------------------------------------------
(* The update service, as the abstract store shows it *)

Change ==
  /\ \/ \E batch \in SUBSET Ids : AddBatch(batch)
     \/ Clear
  /\ lost' = (owed' = "none")
  /\ current' = {}
  /\ UNCHANGED <<indexVars, procVars, query, scores, reply>>

\* The event goes into the publisher's connection.  While that is down the
\* client keeps the message for the next reconnect, so an event the handler
\* logged as failed may still come, late.
Publish ==
  /\ \/ Announce /\ UNCHANGED lost
     \/ Forget /\ lost' = TRUE
  /\ UNCHANGED <<indexVars, procVars, readVars>>

-----------------------------------------------------------------------------
(* The connection to the broker *)

\* The SUB line of nc.Subscribe, or of a reconnect, reaches the broker.
\* NewNatsSubscriber does not wait for it.
Attach ==
  /\ phase # "down"
  /\ ~attached
  /\ attached' = TRUE
  /\ UNCHANGED <<storeVars, indexVars, owner, phase, pc, job, todo, readVars, lost>>

Disconnect ==
  /\ attached
  /\ attached' = FALSE
  /\ UNCHANGED <<storeVars, indexVars, owner, phase, pc, job, todo, readVars, lost>>

\* While nobody is subscribed the broker drops what reaches it.  Messages the
\* client holds already, and those the publisher still keeps, survive.
Miss ==
  /\ ~attached
  /\ \E n \in DOMAIN events :
       /\ Lose(n)
       /\ lost' = (lost \/ (n = Len(events) /\ owed = "none"))
  /\ UNCHANGED <<indexVars, procVars, readVars>>

-----------------------------------------------------------------------------
(* The writers: UpdateIndex and ResetIndex *)

\* main: subscribe, then the scheduler's Start rebuilds the index before the
\* server listens.
Start ==
  /\ phase = "down"
  /\ phase' = "booting"
  /\ pc' = [pc EXCEPT !["sched"] = "lock"]
  /\ UNCHANGED <<storeVars, indexVars, owner, attached, job, todo, readVars, lost>>

\* Bug for EventuallyFresh: no tick while the subscription is up, its events
\* being enough.
TickWhenDetached ==
  /\ phase = "serving"
  /\ ~attached
  /\ pc["sched"] = "idle"
  /\ pc' = [pc EXCEPT !["sched"] = "lock"]
  /\ UNCHANGED <<storeVars, indexVars, owner, phase, attached, job, todo, readVars, lost>>

Tick ==
  /\ phase = "serving"
  /\ pc["sched"] = "idle"
  /\ pc' = [pc EXCEPT !["sched"] = "lock"]
  /\ UNCHANGED <<storeVars, indexVars, owner, phase, attached, job, todo, readVars, lost>>

\* Bug for EventHandled: HandleEvent locks and calls UpdateIndex, which locks
\* again.
HandleEventLocked ==
  /\ phase # "down"
  /\ pc["sub"] = "idle"
  /\ owner = "none"
  /\ owner' = "sub"
  /\ Take
  /\ job' = [job EXCEPT !["sub"] = Head(events)]
  /\ pc' = [pc EXCEPT !["sub"] = "lock"]
  /\ UNCHANGED <<indexVars, phase, attached, todo, readVars, lost>>

\* The subscription's goroutine calls HandleEvent for one message at a time.
HandleEvent ==
  /\ phase # "down"
  /\ pc["sub"] = "idle"
  /\ Take
  /\ job' = [job EXCEPT !["sub"] = Head(events)]
  /\ pc' = [pc EXCEPT !["sub"] = "lock"]
  /\ UNCHANGED <<indexVars, owner, phase, attached, todo, readVars, lost>>

\* Bug for FreshWhenSettled: TryLock, and nothing to do when another rebuild
\* is under way.
LockOrSkip(w) ==
  /\ pc[w] = "lock"
  /\ \/ /\ owner = "none"
        /\ owner' = w
        /\ pc' = [pc EXCEPT ![w] = "drain"]
     \/ /\ owner # "none"
        /\ pc' = Idle(w)
        /\ UNCHANGED owner
  /\ UNCHANGED <<storeVars, indexVars, phase, attached, job, todo, readVars, lost>>

\* Lock: one writer at a time gets past the inner mutex and announces itself;
\* from then on arriving readers wait.
Lock(w) ==
  /\ pc[w] = "lock"
  /\ owner = "none"
  /\ owner' = w
  /\ pc' = [pc EXCEPT ![w] = "drain"]
  /\ UNCHANGED <<storeVars, indexVars, phase, attached, job, todo, readVars, lost>>

\* Lock returns when the readers that were inside have left.
Drain(w) ==
  /\ pc[w] = "drain"
  /\ Inside = {}
  /\ pc' = [pc EXCEPT ![w] = IF job[w] = "update" THEN "read" ELSE "reset"]
  /\ UNCHANGED <<storeVars, indexVars, owner, phase, attached, job, todo, readVars, lost>>

\* GetAllComicsInfo, then clear(s.index).
ReadTable(w) ==
  /\ pc[w] = "read"
  /\ todo' = [todo EXCEPT ![w] = comics]
  /\ index' = IndexOf({})
  /\ shown' = comics
  /\ lost' = (lost /\ ResetPending)
  /\ pc' = [pc EXCEPT ![w] = "fill"]
  /\ UNCHANGED <<storeVars, owner, phase, attached, job, readVars>>

\* The query fails: the old index stays.  An error of the first rebuild ends
\* the process (see Exit), any other is logged.
ReadError(w) ==
  /\ pc[w] = "read"
  /\ pc' = [pc EXCEPT ![w] = "failed"]
  /\ lost' = (lost \/ (w = "sub" /\ events = <<>> /\ owed = "none"))
  /\ UNCHANGED <<storeVars, indexVars, owner, phase, attached, job, todo, readVars>>

\* Bug for ISearchExact: the row replaces the lists of its words.
FillOverwrites(w) ==
  /\ pc[w] = "fill"
  /\ \E i \in todo[w] :
       /\ index' = [k \in Words |-> IF k \in WordsOf[i] THEN {i} ELSE index[k]]
       /\ todo' = [todo EXCEPT ![w] = @ \ {i}]
  /\ UNCHANGED <<storeVars, shown, owner, phase, attached, pc, job, readVars, lost>>

\* One row of the snapshot is appended to the lists of its words.
Fill(w) ==
  /\ pc[w] = "fill"
  /\ \E i \in todo[w] :
       /\ index' = [k \in Words |-> IF k \in WordsOf[i] THEN index[k] \cup {i} ELSE index[k]]
       /\ todo' = [todo EXCEPT ![w] = @ \ {i}]
  /\ UNCHANGED <<storeVars, shown, owner, phase, attached, pc, job, readVars, lost>>

\* Bug for TypeOK: the map is set to nil where it should be emptied, and the
\* next rebuild would write to a nil map.
ResetToNil(w) ==
  /\ pc[w] = "reset"
  /\ index' = [k \in {} |-> {}]
  /\ shown' = {}
  /\ pc' = [pc EXCEPT ![w] = "done"]
  /\ UNCHANGED <<storeVars, owner, phase, attached, job, todo, readVars, lost>>

Reset(w) ==
  /\ pc[w] = "reset"
  /\ index' = IndexOf({})
  /\ shown' = {}
  /\ pc' = [pc EXCEPT ![w] = "done"]
  /\ UNCHANGED <<storeVars, owner, phase, attached, job, todo, readVars, lost>>

\* Bug for SearchReturns: Unlock is not deferred, and the error path returns
\* without it.
UnlockUnlessFailed(w) ==
  \/ /\ (pc[w] = "fill" /\ todo[w] = {}) \/ pc[w] = "done"
     /\ owner' = "none"
     /\ pc' = [p \in DOMAIN pc |-> IF p = w THEN "idle"
                                    ELSE IF pc[p] = "blocked" THEN "norm" ELSE pc[p]]
     /\ phase' = IF w = "sched" THEN "serving" ELSE phase
     /\ UNCHANGED <<storeVars, indexVars, attached, job, todo, readVars, lost>>
  \/ /\ pc[w] = "failed" /\ ~(w = "sched" /\ phase = "booting")
     /\ pc' = Idle(w)
     /\ UNCHANGED <<storeVars, indexVars, owner, phase, attached, job, todo, readVars, lost>>

\* The deferred Unlock: the readers that wait get in before the next writer.
\* After the first rebuild the server starts to serve.
Unlock(w) ==
  /\ \/ pc[w] = "fill" /\ todo[w] = {}
     \/ pc[w] = "done"
     \/ pc[w] = "failed" /\ ~(w = "sched" /\ phase = "booting")
  /\ owner' = "none"
  /\ pc' = [p \in DOMAIN pc |-> IF p = w THEN "idle"
                                 ELSE IF pc[p] = "blocked" THEN "norm" ELSE pc[p]]
  /\ phase' = IF w = "sched" THEN "serving" ELSE phase
  /\ UNCHANGED <<storeVars, indexVars, attached, job, todo, readVars, lost>>

-----------------------------------------------------------------------------
(* The readers: ISearch *)

\* Bug for NoTornRead: ISearch does not take the read lock before its lookup.
RLockForgotten(r) ==
  /\ phase = "serving"
  /\ pc[r] = "idle"
  /\ pc' = [pc EXCEPT ![r] = "norm"]
  /\ UNCHANGED <<storeVars, indexVars, owner, phase, attached, job, todo, readVars, lost>>

\* RLock: a reader that arrives after a writer has announced itself waits.
RLock(r) ==
  /\ phase = "serving"
  /\ pc[r] = "idle"
  /\ pc' = [pc EXCEPT ![r] = IF owner = "none" THEN "norm" ELSE "blocked"]
  /\ UNCHANGED <<storeVars, indexVars, owner, phase, attached, job, todo, readVars, lost>>

\* words.Norm succeeds and the keywords are looked up in the index.
Lookup(r) ==
  /\ pc[r] = "norm"
  /\ \E q \in Queries("isearch") :
       /\ query' = [query EXCEPT ![r] = q]
       /\ scores' = [scores EXCEPT ![r] = Scores(index, q.keywords)]
  /\ current' = IF Settled THEN current \cup {r} ELSE current \ {r}
  /\ pc' = [pc EXCEPT ![r] = "fetch"]
  /\ UNCHANGED <<storeVars, indexVars, owner, phase, attached, job, todo, reply, lost>>

\* GetComicsByIds returns the rows that still exist; the best are returned.
Fetch(r) ==
  /\ pc[r] = "fetch"
  /\ \E p \in ByScore({i \in comics : scores[r][i] > 0}, scores[r], query[r].limit) :
       reply' = [reply EXCEPT ![r] = p]
  /\ scores' = [scores EXCEPT ![r] = NoScores]
  /\ pc' = [pc EXCEPT ![r] = "reply"]
  /\ UNCHANGED <<storeVars, indexVars, owner, phase, attached, job, todo, query, current, lost>>

Forgotten(r) ==
  /\ query' = [query EXCEPT ![r] = NoQuery]
  /\ scores' = [scores EXCEPT ![r] = NoScores]
  /\ reply' = [reply EXCEPT ![r] = <<>>]
  /\ current' = current \ {r}

\* The deferred RUnlock, after the reply, a bad argument or a failed call.
RUnlock(r) ==
  /\ r \in Inside
  /\ pc' = Idle(r)
  /\ Forgotten(r)
  /\ UNCHANGED <<storeVars, indexVars, owner, phase, attached, job, todo, lost>>

\* Search takes no lock: it reads the table, which is all it depends on, and
\* ranks the rows.  One that fails leaves no trace.
Search(r) ==
  /\ phase = "serving"
  /\ pc[r] = "idle"
  /\ \E q \in Queries("search") :
       /\ query' = [query EXCEPT ![r] = q]
       /\ \E p \in RankedSearch(comics, q.keywords, q.limit) : reply' = [reply EXCEPT ![r] = p]
  /\ current' = current \cup {r}
  /\ pc' = [pc EXCEPT ![r] = "answer"]
  /\ UNCHANGED <<storeVars, indexVars, owner, phase, attached, job, todo, scores, lost>>

\* Server.Search has sent its comics.
Return(r) ==
  /\ pc[r] = "answer"
  /\ pc' = Idle(r)
  /\ Forgotten(r)
  /\ UNCHANGED <<storeVars, indexVars, owner, phase, attached, job, todo, lost>>

-----------------------------------------------------------------------------
(* The process ends *)

\* A crash, a signal, or the error of the first rebuild.  The index is gone,
\* and so are the oldest messages, those its client had received.
Exit ==
  /\ phase # "down"
  /\ phase' = "down"
  /\ attached' = FALSE
  /\ \E n \in 0..Len(events) : events' = SubSeq(events, n + 1, Len(events))
  /\ lost' = (lost \/ /\ owed = "none" /\ events' = <<>>
                      /\ events # <<>> \/ pc["sub"] # "idle")
  /\ owner' = "none"
  /\ pc' = [p \in Writers \cup Readers |-> "idle"]
  /\ job' = [w \in Writers |-> "update"]
  /\ todo' = [w \in Writers |-> {}]
  /\ index' = IndexOf({})
  /\ shown' = {}
  /\ query' = [r \in Readers |-> NoQuery]
  /\ scores' = [r \in Readers |-> NoScores]
  /\ reply' = [r \in Readers |-> <<>>]
  /\ current' = {}
  /\ UNCHANGED <<comics, stats, owed>>

-----------------------------------------------------------------------------

Writer(w) ==
  \/ Lock(w) \/ Drain(w) \/ ReadTable(w) \/ ReadError(w) \/ Fill(w) \/ Reset(w)
  \/ Unlock(w)

Reader(r) == Lookup(r) \/ Fetch(r) \/ RUnlock(r) \/ Return(r)

Next ==
  \/ Change \/ Publish
  \/ Attach \/ Disconnect \/ Miss
  \/ Start \/ Tick \/ HandleEvent
  \/ \E w \in Writers : Writer(w)
  \/ \E r \in Readers : RLock(r) \/ Search(r) \/ Reader(r)
  \/ Exit

Spec == Init /\ [][Next]_vars

\* The first rebuild failed: main returns the error and the process ends.
BootFailed == phase = "booting" /\ pc["sched"] = "failed"

\* Goroutines are scheduled, every call outside returns, the ticker ticks, a
\* process that ended is started again, and the database does not refuse the
\* scheduler for ever.  Go's mutex lets no waiting writer starve, hence SF
\* for Lock.  Nobody has to change the table, to publish or to connect.
Fairness ==
  /\ WF_vars(Start) /\ WF_vars(BootFailed /\ Exit)
  /\ WF_vars(Tick) /\ WF_vars(HandleEvent)
  /\ \A w \in Writers : SF_vars(Lock(w)) /\ WF_vars(Writer(w))
  /\ SF_vars(ReadTable("sched"))
  /\ \A r \in Readers : WF_vars(Reader(r))

FairSpec == Spec /\ Fairness

-----------------------------------------------------------------------------
(* Properties *)

PCs == {"idle", "lock", "drain", "read", "fill", "failed", "reset", "done",
        "blocked", "norm", "fetch", "reply", "answer"}

TypeOK ==
  /\ comics \in SUBSET Ids
  /\ stats \in StatsRow
  /\ owed \in {"none", "update", "reset"}
  /\ events \in Seq({"update", "reset"})
  /\ index \in [Words -> SUBSET Ids]
  /\ owner \in Writers \cup {"none"}
  /\ phase \in {"down", "booting", "serving"}
  /\ attached \in BOOLEAN
  /\ pc \in [Writers \cup Readers -> PCs]
  /\ job \in [Writers -> {"update", "reset"}]
  /\ todo \in [Writers -> SUBSET Ids]
  /\ query \in [Readers -> Queries("search") \cup Queries("isearch") \cup {NoQuery}]
  /\ scores \in [Readers -> [Ids -> Nat]]
  /\ reply \in [Readers -> Seq(Ids)]
  /\ shown \in SUBSET Ids
  /\ lost \in BOOLEAN
  /\ current \in SUBSET Readers

\* A writer that has got past Lock.
Rewriting(w) == pc[w] \in {"read", "fill", "failed", "reset", "done"}

\* No ISearch ever reads an index that is half written: while a reader holds
\* the lock no writer is at work, and the index is that of one table.
NoTornRead ==
  Inside # {} =>
    /\ \A w \in Writers : ~Rewriting(w)
    /\ index = IndexOf(shown)

\* The comment in UpdateIndex: the index is brought up to date even if the
\* scheduler is already at it.  Once the event of the last change has been
\* handled, the published index is that of the table, whatever ticks, other
\* events, restarts and reconnects came in between.
FreshWhenSettled ==
  phase = "serving" /\ Settled /\ ~Rewriting("sched") => index = IndexOf(comics)

\* What a reader has in common with comic i, as sets of keywords.
Common(r, i) == Cardinality(WordsOf[i] \cap Range(query[r].keywords))
Matches(r) == {i \in comics : Common(r, i) > 0}

\* The reply of r is the top of Matches(r): each comic once, as many as asked
\* for, and none before or instead of a better one.
IsTop(r, better) ==
  /\ IsInjective(reply[r])
  /\ Range(reply[r]) \subseteq Matches(r)
  /\ Len(reply[r]) = IF query[r].limit < Cardinality(Matches(r)) THEN query[r].limit
                     ELSE Cardinality(Matches(r))
  /\ \A b \in DOMAIN reply[r] :
       /\ \A a \in 1..(b - 1) : <<reply[r][b], reply[r][a]>> \notin better
       /\ \A i \in Matches(r) \ Range(reply[r]) : <<i, reply[r][b]>> \notin better

MoreInCommon(r) == {p \in Ids \X Ids : Common(r, p[1]) > Common(r, p[2])}
\* As much, and fewer other keywords.
LargerPart(r) == {p \in Ids \X Ids : /\ Common(r, p[1]) = Common(r, p[2])
                                     /\ Cardinality(WordsOf[p[1]]) < Cardinality(WordsOf[p[2]])}

\* The reply of r is sound, whatever happened to the table: comics of the table
\* that is published, each once and no more than asked for, all with a keyword
\* of the phrase, in the right order.
IsSound(r) ==
  /\ IsInjective(reply[r])
  /\ Len(reply[r]) <= query[r].limit
  /\ \A b \in DOMAIN reply[r] :
       /\ reply[r][b] \in shown
       /\ Common(r, reply[r][b]) > 0
       /\ \A a \in 1..(b - 1) : <<reply[r][b], reply[r][a]>> \notin MoreInCommon(r)

\* Every ISearch returns a sound reply, even when its index is out of date or
\* the table changes between lookup and fetch.  One that begins after the last
\* change was handled, and ends before the next, returns the comics of the table
\* that have most keywords of the phrase.
ISearchExact ==
  \A r \in Readers :
    pc[r] = "reply" => IsSound(r) /\ (r \in current => IsTop(r, MoreInCommon(r)))

\* A Search returns the comics that have most keywords of the phrase and, among
\* equals, fewest others, as the comment in rankedSearch promises, though it
\* counts in lists and compares products.
SearchExact ==
  \A r \in current : pc[r] = "answer" => IsTop(r, MoreInCommon(r) \cup LargerPart(r))

\* The read lock never deadlocks: every ISearch returns, although an arriving
\* writer keeps later readers out and waits for the earlier ones.
SearchReturns == \A r \in Readers : pc[r] # "idle" ~> pc[r] = "idle"

\* The handling of an event ends: the subscription's only goroutine is free
\* for the next one.
EventHandled == pc["sub"] # "idle" ~> pc["sub"] = "idle"

\* When the table no longer changes and the process no longer crashes, the
\* index stays that of the table for good, but for the time a rebuild takes,
\* whatever events were lost or come late: the tick makes up for at-most-once
\* delivery.
EventuallyFresh ==
  <>[][comics' = comics /\ (Exit => BootFailed)]_vars
    => <>[](/\ phase = "serving"
            /\ (\E w \in Writers : pc[w] = "fill") \/ index = IndexOf(comics))
=============================================================================
