----------------------------- MODULE ComicStore -----------------------------
(***************************************************************************)
(* What the update service promises to everybody who reads its database or *)
(* listens to its events.  The comics table changes in whole batches only, *)
(* the statistics row always belongs to the table it stands beside, and an *)
(* event is announced at most once per change, after the change is         *)
(* visible and before the next change.  A change may stay unannounced: the *)
(* message was refused, the service died, or the commit was applied and    *)
(* yet reported as failed.                                                 *)
(***************************************************************************)
EXTENDS Naturals, Sequences, FiniteSets

CONSTANTS
  MaxID,      \* bound: the largest comic number the catalogue reaches
  Words,      \* keywords the normaliser may return
  WordsOf,    \* WordsOf[i]: the keywords stored for comic i
  MaxEvents   \* bound: events that may be on their way

ASSUME StoreAssumption ==
  /\ MaxID \in Nat
  /\ IsFiniteSet(Words)
  /\ WordsOf \in [1..MaxID -> SUBSET Words]
  /\ MaxEvents \in Nat

VARIABLES
  comics,   \* ids of the committed rows of table comics
  stats,    \* the committed row of table comics_stats
  owed,     \* the event the last change still owes its listeners, or "none"
  events    \* events handed to the NATS client and not yet delivered, or lost

storeVars == <<comics, stats, owed, events>>

Ids == 1..MaxID
StatsRow == [fetched : Nat, total : Nat, unique : Nat]
ZeroStats == [fetched |-> 0, total |-> 0, unique |-> 0]

\* COUNT(*), SUM(array_length(words, 1)) and COUNT(DISTINCT unnest(words)).
\* The normaliser never repeats a keyword, so a comic's words are a set.
StatsOf(S) ==
  [fetched |-> Cardinality(S),
   total   |-> Cardinality({p \in S \X Words : p[2] \in WordsOf[p[1]]}),
   unique  |-> Cardinality(UNION {WordsOf[i] : i \in S})]

StoreInit ==
  /\ comics = {}
  /\ stats = ZeroStats
  /\ owed = "none"
  /\ events = <<>>

\* A batch of new comics becomes visible, with the statistics it produces.
AddBatch(batch) ==
  /\ owed = "none"
  /\ batch # {}
  /\ batch \cap comics = {}
  /\ comics' = comics \cup batch
  /\ stats' = StatsOf(comics')
  /\ owed' \in {"update", "none"}
  /\ UNCHANGED events

\* The table becomes empty.
Clear ==
  /\ owed = "none"
  /\ comics' = {}
  /\ stats' = ZeroStats
  /\ owed' \in {"reset", "none"}
  /\ UNCHANGED events

\* The event of the last change is on its way.
Announce ==
  /\ owed # "none"
  /\ Len(events) < MaxEvents
  /\ events' = Append(events, owed)
  /\ owed' = "none"
  /\ UNCHANGED <<comics, stats>>

\* The last change stays unannounced.
Forget ==
  /\ owed # "none"
  /\ owed' = "none"
  /\ UNCHANGED <<comics, stats, events>>

\* The oldest event arrives.
Take ==
  /\ events # <<>>
  /\ events' = Tail(events)
  /\ UNCHANGED <<comics, stats, owed>>

\* The n-th event is dropped.
Lose(n) ==
  /\ n \in DOMAIN events
  /\ events' = SubSeq(events, 1, n - 1) \o SubSeq(events, n + 1, Len(events))
  /\ UNCHANGED <<comics, stats, owed>>

StoreNext ==
  \/ \E batch \in SUBSET Ids : AddBatch(batch)
  \/ Clear
  \/ Announce
  \/ Forget
  \/ Take
  \/ \E n \in DOMAIN events : Lose(n)

StoreSpec == StoreInit /\ [][StoreNext]_storeVars
=============================================================================
