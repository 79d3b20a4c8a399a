---------------------------- MODULE UpdateService ----------------------------
(***************************************************************************)
(* The update service: the RPC handlers Update, Drop and Stats running      *)
(* concurrently in one process, the atomic flag that admits one of Update  *)
(* and Drop at a time, the fetch pool of one Update (two channels and a    *)
(* fixed number of workers), the database transactions and the publishing  *)
(* of events.  A request may be cancelled at any time, every call to the   *)
(* outside may fail, and the process may crash and restart at any step.    *)
(*                                                                         *)
(* A call outside (PostgreSQL, xkcd.com, the words service, NATS) is one   *)
(* step that happens or fails.  A step that takes a context succeeds only  *)
(* while the request is not cancelled.                                     *)
(***************************************************************************)
EXTENDS Naturals, Sequences, FiniteSets

CONSTANTS
  Callers,     \* handler goroutines: RPCs that may be in flight together
  Workers,     \* the goroutines one Update starts (its concurrency)
  MaxID,       \* bound: the largest comic number the catalogue reaches
  SpecialID,   \* the comic that is never fetched (404 in the code)
  Words,       \* keywords the normaliser may return
  WordsOf,     \* WordsOf[i]: the keywords of comic i
  MaxEvents    \* bound: events that may be on their way

ASSUME ServiceAssumption ==
  /\ MaxID \in Nat
  /\ SpecialID \in Nat
  /\ IsFiniteSet(Words)
  /\ WordsOf \in [1..MaxID -> SUBSET Words]
  /\ SpecialID \in 1..MaxID => WordsOf[SpecialID] = {}
  /\ MaxEvents \in Nat

\* core.NewService refuses a concurrency below one.
ASSUME ConcurrencyAssumption == Workers # {}

VARIABLES
  comics,      \* ids of the committed rows of table comics
  stats,       \* the committed row of table comics_stats
  events,      \* events handed to the NATS client, not yet delivered or lost
  xkcdLast,    \* number of the newest comic of xkcd.com
  inProgress,  \* the service's atomic flag
  pc,          \* pc[c]: the call that c's handler makes next
  cancelled,   \* cancelled[c]: the context of c's request is done
  run          \* run[c]: the local variables of c's handler

storeVars == <<comics, stats, events>>
vars == <<comics, stats, events, xkcdLast, inProgress, pc, cancelled, run>>

Ids == 1..MaxID
StatsRow == [fetched : Nat, total : Nat, unique : Nat]
ZeroStats == [fetched |-> 0, total |-> 0, unique |-> 0]

\* COUNT(*), SUM(array_length(words, 1)) and COUNT(DISTINCT unnest(words)).
\* The normaliser never repeats a keyword, so a comic's words are a set.
StatsOf(S) ==
  [fetched |-> Cardinality(S),
   total   |-> Cardinality({p \in S \X Words : p[2] \in WordsOf[p[1]]}),
   unique  |-> Cardinality(UNION {WordsOf[i] : i \in S})]

UpdateLocs == {"ids", "lastid", "feed", "collect", "insert", "updatestats",
               "commitadd", "publishupdate"}
DropLocs == {"truncate", "resetstats", "commitdrop", "publishreset"}
StatsLocs == {"readstats", "readlast", "statsreply"}
\* The handler is between its CompareAndSwap and its deferred Store(false).
Holding == UpdateLocs \cup DropLocs \cup {"release"}

\* The locals of a handler before its first step.  A result channel carries
\* *Comic values: ok holds the ids of comics, nil the ids whose fetch failed.
NoRun == [exists |-> {}, last |-> 0, next |-> 1, jobs |-> {},
          busy |-> [w \in Workers |-> 0], ok |-> {}, nil |-> {},
          awaiting |-> 0, batch |-> {}, skipped |-> {},
          row |-> ZeroStats, outcome |-> "none"]

RunType == [exists : SUBSET Ids, last : 0..MaxID, next : 1..(MaxID + 1),
            jobs : SUBSET Ids, busy : [Workers -> 0..MaxID],
            ok : SUBSET Ids, nil : SUBSET Ids, awaiting : Nat,
            batch : SUBSET Ids, skipped : SUBSET Ids, row : StatsRow,
            outcome : {"none", "updated", "dropped", "error"}]

Goto(c, loc) == pc' = [pc EXCEPT ![c] = loc]

\* The handler returns with an error: its deferred functions come next.
Fail(c) ==
  /\ Goto(c, "release")
  /\ run' = [run EXCEPT ![c].outcome = "error"]
  /\ UNCHANGED <<storeVars, xkcdLast, inProgress, cancelled>>

Init ==
  /\ comics = {}
  /\ stats = ZeroStats
  /\ events = <<>>
  /\ xkcdLast \in 0..MaxID
  /\ inProgress = FALSE
  /\ pc = [c \in Callers |-> "idle"]
  /\ cancelled = [c \in Callers |-> FALSE]
  /\ run = [c \in Callers |-> NoRun]

-----------------------------------------------------------------------------
(* Update *)

\* Bug for StatsConsistent: Store(true) in place of the CompareAndSwap.
UpdateUnguarded(c) ==
  /\ pc[c] = "idle"
  /\ inProgress' = TRUE
  /\ Goto(c, "ids")
  /\ UNCHANGED <<storeVars, xkcdLast, cancelled, run>>

\* inProgress.CompareAndSwap(false, true).  A caller that finds the flag set
\* gets ErrAlreadyExists and changes nothing.
Update(c) ==
  /\ pc[c] = "idle"
  /\ ~inProgress
  /\ inProgress' = TRUE
  /\ Goto(c, "ids")
  /\ UNCHANGED <<storeVars, xkcdLast, cancelled, run>>

ReadIDs(c) ==
  /\ pc[c] = "ids"
  /\ \/ /\ ~cancelled[c]
        /\ run' = [run EXCEPT ![c].exists = comics]
        /\ Goto(c, "lastid")
        /\ UNCHANGED <<storeVars, xkcdLast, inProgress, cancelled>>
     \/ Fail(c)

\* The newest id sizes both channels; the workers start here, all idle.
ReadLastID(c) ==
  /\ pc[c] = "lastid"
  /\ \/ /\ ~cancelled[c]
        /\ run' = [run EXCEPT ![c].last = xkcdLast]
        /\ Goto(c, "feed")
        /\ UNCHANGED <<storeVars, xkcdLast, inProgress, cancelled>>
     \/ Fail(c)

\* make(chan int64, lastID) and make(chan *Comic, lastID)
ChanCap(c) == run[c].last

\* Bug for TypeOK: the loop runs one id too far.
FeedPastLast(c) ==
  /\ pc[c] = "feed"
  /\ run[c].next <= run[c].last + 1
  /\ Cardinality(run[c].jobs) < ChanCap(c)
  /\ run' = [run EXCEPT ![c].next = @ + 1,
                        ![c].jobs = @ \cup {run[c].next},
                        ![c].awaiting = @ + 1]
  /\ UNCHANGED <<storeVars, xkcdLast, inProgress, pc, cancelled>>

\* Bug for NoKeyCollision: ids the database holds are fetched again.
FeedAll(c) ==
  /\ pc[c] = "feed"
  /\ run[c].next <= run[c].last
  /\ Cardinality(run[c].jobs) < ChanCap(c)
  /\ run' = [run EXCEPT ![c].next = @ + 1,
                        ![c].jobs = @ \cup {run[c].next},
                        ![c].awaiting = @ + 1]
  /\ UNCHANGED <<storeVars, xkcdLast, inProgress, pc, cancelled>>

\* Bug for JobsConserved: jobCount counts the ids that were not queued.
FeedCountsAll(c) ==
  /\ pc[c] = "feed"
  /\ run[c].next <= run[c].last
  /\ \/ /\ run[c].next \in run[c].exists
        /\ run' = [run EXCEPT ![c].next = @ + 1, ![c].awaiting = @ + 1]
     \/ /\ run[c].next \notin run[c].exists
        /\ Cardinality(run[c].jobs) < ChanCap(c)
        /\ run' = [run EXCEPT ![c].next = @ + 1,
                              ![c].jobs = @ \cup {run[c].next},
                              ![c].awaiting = @ + 1]
  /\ UNCHANGED <<storeVars, xkcdLast, inProgress, pc, cancelled>>

\* One round of the loop that queues the ids the database does not hold.
Feed(c) ==
  /\ pc[c] = "feed"
  /\ run[c].next <= run[c].last
  /\ \/ /\ run[c].next \in run[c].exists
        /\ run' = [run EXCEPT ![c].next = @ + 1]
     \/ /\ run[c].next \notin run[c].exists
        /\ Cardinality(run[c].jobs) < ChanCap(c)
        /\ run' = [run EXCEPT ![c].next = @ + 1,
                              ![c].jobs = @ \cup {run[c].next},
                              ![c].awaiting = @ + 1]
  /\ UNCHANGED <<storeVars, xkcdLast, inProgress, pc, cancelled>>

\* Bug for UpdateComplete: the loop leaves the newest comic out.
CloseJobsEarly(c) ==
  /\ pc[c] = "feed"
  /\ run[c].next >= run[c].last
  /\ Goto(c, "collect")
  /\ UNCHANGED <<storeVars, xkcdLast, inProgress, cancelled, run>>

CloseJobs(c) ==
  /\ pc[c] = "feed"
  /\ run[c].next > run[c].last
  /\ Goto(c, "collect")
  /\ UNCHANGED <<storeVars, xkcdLast, inProgress, cancelled, run>>

\* A worker receives the oldest job; ids are queued in increasing order.
TakeJob(c, w) ==
  /\ run[c].busy[w] = 0
  /\ \E id \in run[c].jobs :
       /\ \A other \in run[c].jobs : id <= other
       /\ run' = [run EXCEPT ![c].jobs = @ \ {id}, ![c].busy[w] = id]
  /\ UNCHANGED <<storeVars, xkcdLast, inProgress, pc, cancelled>>

\* A worker sends a comic: the special one without asking anybody, any other
\* after xkcd.Get and words.Norm both succeeded.
SendComic(c, w) ==
  LET id == run[c].busy[w] IN
  /\ id # 0
  /\ id = SpecialID \/ ~cancelled[c]
  /\ Cardinality(run[c].ok \cup run[c].nil) < ChanCap(c)
  /\ run' = [run EXCEPT ![c].busy[w] = 0, ![c].ok = @ \cup {id}]
  /\ UNCHANGED <<storeVars, xkcdLast, inProgress, pc, cancelled>>

\* Bug for CallsReturn: a failed fetch sends nothing.
SendNilForgotten(c, w) ==
  /\ run[c].busy[w] \notin {0, SpecialID}
  /\ run' = [run EXCEPT ![c].busy[w] = 0]
  /\ UNCHANGED <<storeVars, xkcdLast, inProgress, pc, cancelled>>

\* A worker sends nil: the fetch or the normalisation failed.
SendNil(c, w) ==
  LET id == run[c].busy[w] IN
  /\ id \notin {0, SpecialID}
  /\ Cardinality(run[c].ok \cup run[c].nil) < ChanCap(c)
  /\ run' = [run EXCEPT ![c].busy[w] = 0, ![c].nil = @ \cup {id}]
  /\ UNCHANGED <<storeVars, xkcdLast, inProgress, pc, cancelled>>

\* One round of the loop over jobCount.  skipped remembers the ids whose
\* fetch failed in this run; the code only logs them.
Collect(c) ==
  /\ pc[c] = "collect"
  /\ run[c].awaiting > 0
  /\ \/ \E id \in run[c].ok :
          run' = [run EXCEPT ![c].ok = @ \ {id}, ![c].batch = @ \cup {id},
                             ![c].awaiting = @ - 1]
     \/ \E id \in run[c].nil :
          run' = [run EXCEPT ![c].nil = @ \ {id}, ![c].skipped = @ \cup {id},
                             ![c].awaiting = @ - 1]
  /\ UNCHANGED <<storeVars, xkcdLast, inProgress, pc, cancelled>>

\* Every queued job was answered.  An empty batch ends the update.
EndCollect(c) ==
  /\ pc[c] = "collect"
  /\ run[c].awaiting = 0
  /\ \/ /\ run[c].batch = {}
        /\ Goto(c, "release")
        /\ run' = [run EXCEPT ![c].outcome = "updated"]
     \/ /\ run[c].batch # {}
        /\ Goto(c, "insert")
        /\ UNCHANGED run
  /\ UNCHANGED <<storeVars, xkcdLast, inProgress, cancelled>>

-----------------------------------------------------------------------------
(* Transactions of db.Add and db.Drop.  What a transaction wrote is local   *)
(* to the run until Commit; a rollback leaves nothing to undo.             *)

\* BEGIN and INSERT: the primary key refuses an id the table already holds.
Insert(c) ==
  /\ pc[c] = "insert"
  /\ \/ /\ ~cancelled[c]
        /\ run[c].batch \cap comics = {}
        /\ Goto(c, "updatestats")
        /\ UNCHANGED <<storeVars, xkcdLast, inProgress, cancelled, run>>
     \/ Fail(c)

\* The statement sees the committed rows and the transaction's own.
UpdateStats(c) ==
  /\ pc[c] = "updatestats"
  /\ \/ /\ ~cancelled[c]
        /\ run' = [run EXCEPT ![c].row = StatsOf(comics \cup run[c].batch)]
        /\ Goto(c, "commitadd")
        /\ UNCHANGED <<storeVars, xkcdLast, inProgress, cancelled>>
     \/ Fail(c)

Truncate(c) ==
  /\ pc[c] = "truncate"
  /\ \/ /\ ~cancelled[c]
        /\ Goto(c, "resetstats")
        /\ UNCHANGED <<storeVars, xkcdLast, inProgress, cancelled, run>>
     \/ Fail(c)

ResetStats(c) ==
  /\ pc[c] = "resetstats"
  /\ \/ /\ ~cancelled[c]
        /\ run' = [run EXCEPT ![c].row = ZeroStats]
        /\ Goto(c, "commitdrop")
        /\ UNCHANGED <<storeVars, xkcdLast, inProgress, cancelled>>
     \/ Fail(c)

\* What PostgreSQL does when the COMMIT of c's transaction reaches it.
Apply(c) ==
  /\ \/ /\ pc[c] = "commitadd"
        /\ comics' = comics \cup run[c].batch
     \/ /\ pc[c] = "commitdrop"
        /\ comics' = {}
  /\ stats' = run[c].row

Commit(c) ==
  /\ ~cancelled[c]
  /\ Apply(c)
  /\ \/ pc[c] = "commitadd" /\ Goto(c, "publishupdate")
     \/ pc[c] = "commitdrop" /\ Goto(c, "publishreset")
  /\ UNCHANGED <<events, xkcdLast, inProgress, cancelled, run>>

\* Bug for ImplementsStore: a failed commit is logged and the event published.
CommitErrorPublished(c) ==
  /\ pc[c] \in {"commitadd", "commitdrop"}
  /\ \/ Apply(c)
     \/ UNCHANGED <<comics, stats>>
  /\ \/ pc[c] = "commitadd" /\ Goto(c, "publishupdate")
     \/ pc[c] = "commitdrop" /\ Goto(c, "publishreset")
  /\ UNCHANGED <<events, xkcdLast, inProgress, cancelled, run>>

\* Commit returns an error.  The request may have been cancelled, or the
\* connection lost, after PostgreSQL applied the transaction.
CommitError(c) ==
  /\ pc[c] \in {"commitadd", "commitdrop"}
  /\ \/ Apply(c)
     \/ UNCHANGED <<comics, stats>>
  /\ Goto(c, "release")
  /\ run' = [run EXCEPT ![c].outcome = "error"]
  /\ UNCHANGED <<events, xkcdLast, inProgress, cancelled>>

\* publisher.Publish: the event is on its way, or is not.  An error does not
\* tell which, and the handler only logs it, so both end the same way.
Publish(c) ==
  /\ \/ /\ pc[c] = "publishupdate"
        /\ run' = [run EXCEPT ![c].outcome = "updated"]
        /\ events' \in {events} \cup {Append(events, "update")}
     \/ /\ pc[c] = "publishreset"
        /\ run' = [run EXCEPT ![c].outcome = "dropped"]
        /\ events' \in {events} \cup {Append(events, "reset")}
  /\ Len(events') <= MaxEvents
  /\ Goto(c, "release")
  /\ UNCHANGED <<comics, stats, xkcdLast, inProgress, cancelled>>

\* The deferred inProgress.Store(false), and the reply.
Release(c) ==
  /\ pc[c] = "release"
  /\ inProgress' = FALSE
  /\ Goto(c, "idle")
  /\ run' = [run EXCEPT ![c] = NoRun]
  /\ cancelled' = [cancelled EXCEPT ![c] = FALSE]
  /\ UNCHANGED <<storeVars, xkcdLast>>

-----------------------------------------------------------------------------
(* Drop *)

\* Bug for FlagHeldByOne: Drop does not look at the flag.
DropUnguarded(c) ==
  /\ pc[c] = "idle"
  /\ inProgress' = TRUE
  /\ Goto(c, "truncate")
  /\ UNCHANGED <<storeVars, xkcdLast, cancelled, run>>

Drop(c) ==
  /\ pc[c] = "idle"
  /\ ~inProgress
  /\ inProgress' = TRUE
  /\ Goto(c, "truncate")
  /\ UNCHANGED <<storeVars, xkcdLast, cancelled, run>>

-----------------------------------------------------------------------------
(* Stats: two reads, of two systems, without the flag *)

Stats(c) ==
  /\ pc[c] = "idle"
  /\ Goto(c, "readstats")
  /\ UNCHANGED <<storeVars, xkcdLast, inProgress, cancelled, run>>

\* Bug for FetchedWithinTotal: the newest id is read before the table.
ReadStatsSwapped(c) ==
  \/ /\ pc[c] = "readstats"
     /\ ~cancelled[c]
     /\ run' = [run EXCEPT ![c].last = xkcdLast]
     /\ Goto(c, "readlast")
     /\ UNCHANGED <<storeVars, xkcdLast, inProgress, cancelled>>
  \/ /\ pc[c] = "readlast"
     /\ ~cancelled[c]
     /\ run' = [run EXCEPT ![c].row = stats]
     /\ Goto(c, "statsreply")
     /\ UNCHANGED <<storeVars, xkcdLast, inProgress, cancelled>>

ReadStats(c) ==
  \/ /\ pc[c] = "readstats"
     /\ ~cancelled[c]
     /\ run' = [run EXCEPT ![c].row = stats]
     /\ Goto(c, "readlast")
     /\ UNCHANGED <<storeVars, xkcdLast, inProgress, cancelled>>
  \/ /\ pc[c] = "readlast"
     /\ ~cancelled[c]
     /\ run' = [run EXCEPT ![c].last = xkcdLast]
     /\ Goto(c, "statsreply")
     /\ UNCHANGED <<storeVars, xkcdLast, inProgress, cancelled>>

\* The reply, or the error of either read.
EndStats(c) ==
  /\ pc[c] \in StatsLocs
  /\ Goto(c, "idle")
  /\ run' = [run EXCEPT ![c] = NoRun]
  /\ cancelled' = [cancelled EXCEPT ![c] = FALSE]
  /\ UNCHANGED <<storeVars, xkcdLast, inProgress>>

-----------------------------------------------------------------------------
(* The environment *)

\* The client goes away, its deadline passes, or the server stops by force.
Cancel(c) ==
  /\ pc[c] # "idle"
  /\ ~cancelled[c]
  /\ cancelled' = [cancelled EXCEPT ![c] = TRUE]
  /\ UNCHANGED <<storeVars, xkcdLast, inProgress, pc, run>>

\* The process dies and starts again: the flag is clear, no handler and no
\* worker is left, and a transaction survives only if its COMMIT was out.
Crash ==
  /\ \/ \E c \in Callers : Apply(c)
     \/ UNCHANGED <<comics, stats>>
  /\ inProgress' = FALSE
  /\ pc' = [c \in Callers |-> "idle"]
  /\ cancelled' = [c \in Callers |-> FALSE]
  /\ run' = [c \in Callers |-> NoRun]
  /\ UNCHANGED <<events, xkcdLast>>

\* xkcd.com publishes a comic; it never takes one back.
NewComic ==
  /\ xkcdLast < MaxID
  /\ xkcdLast' = xkcdLast + 1
  /\ UNCHANGED <<storeVars, inProgress, pc, cancelled, run>>

\* The oldest event arrives, or is dropped.
Take ==
  /\ events # <<>>
  /\ events' = Tail(events)
  /\ UNCHANGED <<comics, stats, xkcdLast, inProgress, pc, cancelled, run>>

-----------------------------------------------------------------------------

Begin(c) == Update(c) \/ Drop(c) \/ Stats(c)

\* The steps of c's own goroutine once its call is admitted.
Handler(c) ==
  \/ ReadIDs(c) \/ ReadLastID(c) \/ Feed(c) \/ CloseJobs(c)
  \/ Collect(c) \/ EndCollect(c)
  \/ Insert(c) \/ UpdateStats(c) \/ Truncate(c) \/ ResetStats(c)
  \/ Commit(c) \/ CommitError(c) \/ Publish(c) \/ Release(c)
  \/ ReadStats(c) \/ EndStats(c)

Worker(c, w) == TakeJob(c, w) \/ SendComic(c, w) \/ SendNil(c, w)

Next ==
  \/ \E c \in Callers : Begin(c) \/ Handler(c) \/ Cancel(c)
  \/ \E c \in Callers, w \in Workers : Worker(c, w)
  \/ Crash
  \/ NewComic
  \/ Take

Spec == Init /\ [][Next]_vars

\* Goroutines are scheduled and every call outside returns, with a result or
\* an error.  No client has to call, no process has to crash.
Fairness ==
  /\ \A c \in Callers : WF_vars(Handler(c))
  /\ \A c \in Callers, w \in Workers : WF_vars(Worker(c, w))

FairSpec == Spec /\ Fairness

-----------------------------------------------------------------------------
(* Properties *)

TypeOK ==
  /\ comics \in SUBSET Ids
  /\ stats \in StatsRow
  /\ events \in Seq({"update", "reset"})
  /\ Len(events) <= MaxEvents
  /\ xkcdLast \in 0..MaxID
  /\ inProgress \in BOOLEAN
  /\ pc \in [Callers -> Holding \cup StatsLocs \cup {"idle"}]
  /\ cancelled \in [Callers -> BOOLEAN]
  /\ run \in [Callers -> RunType]

\* At most one of the concurrent Update and Drop calls is past its
\* CompareAndSwap, and the flag is set exactly while one is: no early return
\* leaves it set, nobody clears it under a running call.
FlagHeldByOne ==
  /\ inProgress <=> \E c \in Callers : pc[c] \in Holding
  /\ \A c, d \in Callers : pc[c] \in Holding /\ pc[d] \in Holding => c = d

\* The statistics row is always that of the comics table beside it, through
\* failed statements, lost commits, cancellations and crashes.
StatsConsistent == stats = StatsOf(comics)

\* The ids read at the start of an Update still describe the table when its
\* batch is inserted, so the primary key never refuses the batch.
NoKeyCollision ==
  \A c \in Callers :
    pc[c] \in {"insert", "updatestats", "commitadd"} =>
      run[c].batch # {} /\ run[c].batch \cap comics = {}

\* The ids c's Update has queued and not yet collected, wherever they are.
Held(c) == {run[c].busy[w] : w \in Workers} \ {0}
Outstanding(c) == run[c].jobs \cup Held(c) \cup run[c].ok \cup run[c].nil

\* The loop that receives jobCount results waits for exactly the jobs that
\* are still in a channel or in the hands of a worker: it neither returns
\* with a result outstanding nor waits for one that never comes.  And no send
\* ever waits: the jobs channel has room for the id that is queued next, the
\* results channel for the answer of every worker that has a job, although
\* nobody receives an answer before the last id is queued.
JobsConserved ==
  \A c \in Callers :
    /\ run[c].awaiting = Cardinality(Outstanding(c))
    /\ pc[c] = "feed" /\ run[c].next <= run[c].last
         => Cardinality(run[c].jobs) < ChanCap(c)
    /\ Held(c) # {} => Cardinality(run[c].ok \cup run[c].nil) < ChanCap(c)

\* An Update that returns nil has stored every comic up to the newest it saw,
\* but for those whose fetch failed in that very run.
UpdateComplete ==
  \A c \in Callers :
    run[c].outcome = "updated" =>
      1..run[c].last \subseteq comics \cup run[c].skipped

\* A Stats reply never counts more comics fetched than xkcd.com has: the
\* table is read before the newest id, and the catalogue only grows.
FetchedWithinTotal ==
  \A c \in Callers :
    pc[c] = "statsreply" => run[c].row.fetched <= run[c].last

-----------------------------------------------------------------------------
(* The inductive invariant behind the safety properties *)

Fetching == {"feed", "collect"}
Storing == {"insert", "updatestats", "commitadd"}

\* An id of c's Update is in one channel, or with one worker, never in two
\* places.
OnePlace(c) ==
  /\ run[c].jobs \cap run[c].ok = {}
  /\ run[c].jobs \cap run[c].nil = {}
  /\ run[c].ok \cap run[c].nil = {}
  /\ \A w \in Workers : run[c].busy[w] \notin run[c].jobs \cup run[c].ok \cup run[c].nil
  /\ \A w, v \in Workers : run[c].busy[w] = run[c].busy[v] /\ w # v => run[c].busy[w] = 0

\* The collector's count, and where there is nothing left to count.
Counted(c) ==
  /\ run[c].awaiting = Cardinality(Outstanding(c))
  /\ pc[c] \notin Fetching => run[c].awaiting = 0

\* The feeding loop has handed out, or passed over, every id below next.
Fed(c) ==
  /\ run[c].last <= xkcdLast
  /\ run[c].next <= run[c].last + 1
  /\ pc[c] \in {"idle", "ids", "lastid"} \cup StatsLocs => run[c].next = 1
  /\ pc[c] \in {"collect"} \cup Storing => run[c].next > run[c].last
  /\ run[c].batch \cup Outstanding(c) \subseteq (1..(run[c].next - 1)) \ run[c].exists
  /\ 1..(run[c].next - 1)
       \subseteq run[c].exists \cup run[c].batch \cup run[c].skipped \cup Outstanding(c)

\* What c's handler knows of the table while it holds the flag.
Known(c) ==
  /\ pc[c] \in {"lastid"} \cup Fetching \cup Storing => run[c].exists = comics
  /\ pc[c] \in Storing => run[c].batch # {}
  /\ pc[c] = "commitadd" => run[c].row = StatsOf(comics \cup run[c].batch)
  /\ pc[c] = "commitdrop" => run[c].row = ZeroStats
  /\ run[c].outcome # "none" => pc[c] = "release"
  /\ pc[c] = "publishupdate" \/ run[c].outcome = "updated"
       => 1..run[c].last \subseteq comics \cup run[c].skipped

\* What c's Stats call has read stays below the growing catalogue.
Replied(c) ==
  /\ pc[c] = "readlast" => run[c].row.fetched <= xkcdLast
  /\ pc[c] = "statsreply" => run[c].row.fetched <= run[c].last

RunInv(c) == OnePlace(c) /\ Counted(c) /\ Fed(c) /\ Known(c) /\ Replied(c)

\* The flag excludes, the row fits the table, the table is part of the
\* catalogue, and every handler's locals say what is true of them: together
\* the reason why each single safety property holds.
IInv ==
  /\ TypeOK
  /\ FlagHeldByOne
  /\ StatsConsistent
  /\ comics \subseteq 1..xkcdLast
  /\ \A c \in Callers : RunInv(c)

-----------------------------------------------------------------------------
(* Liveness and refinement *)

\* Every admitted call returns.  FlagHeldByOne then gives that the flag is cleared
\* after every use: the service accepts work again.
CallsReturn == \A c \in Callers : pc[c] # "idle" ~> pc[c] = "idle"

\* The update service implements the abstract store.
Owed ==
  IF \E c \in Callers : pc[c] = "publishupdate" THEN "update"
  ELSE IF \E c \in Callers : pc[c] = "publishreset" THEN "reset"
  ELSE "none"

Store == INSTANCE ComicStore WITH owed <- Owed

ImplementsStore == Store!StoreSpec
=============================================================================
