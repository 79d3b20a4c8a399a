------------------------- MODULE UpdateServiceProofs -------------------------
(***************************************************************************)
(* Proofs about UpdateService, for every number of callers and workers and *)
(* every catalogue: IInv is inductive, hence the safety properties the     *)
(* runs check.                                                             *)
(***************************************************************************)
EXTENDS UpdateService, FiniteSetTheorems, TLAPS

-----------------------------------------------------------------------------
(* Facts about the data *)

\* Sets of ids and sets of words are finite, so they can be counted.
LEMMA IdsFinite ==
  ASSUME NEW S \in SUBSET Ids
  PROVE  IsFiniteSet(S) /\ Cardinality(S) \in Nat
<1>1. IsFiniteSet(Ids)
  BY ServiceAssumption, FS_Interval DEF Ids
<1> QED
  BY <1>1, FS_Subset, FS_CardinalityType

\* A statistics row computed from a set of ids is a row of naturals, and it
\* counts the ids.
LEMMA StatsOfRow ==
  ASSUME NEW S \in SUBSET Ids
  PROVE  /\ StatsOf(S) \in StatsRow
         /\ StatsOf(S).fetched = Cardinality(S)
<1> DEFINE Pairs == {p \in S \X Words : p[2] \in WordsOf[p[1]]}
           Used == UNION {WordsOf[i] : i \in S}
<1>1. IsFiniteSet(S) /\ Cardinality(S) \in Nat
  BY IdsFinite
<1>2. Cardinality(Pairs) \in Nat
  <2>1. IsFiniteSet(S \X Words)
    BY <1>1, ServiceAssumption, FS_Product
  <2>2. Pairs \in SUBSET (S \X Words)
    OBVIOUS
  <2> HIDE DEF Pairs
  <2> QED
    BY <2>1, <2>2, FS_Subset, FS_CardinalityType
<1>3. Cardinality(Used) \in Nat
  <2>1. Used \in SUBSET Words
    BY ServiceAssumption DEF Ids
  <2> HIDE DEF Used
  <2> QED
    BY <2>1, ServiceAssumption, FS_Subset, FS_CardinalityType
<1> HIDE DEF Pairs, Used
<1>4. StatsOf(S) = [fetched |-> Cardinality(S), total |-> Cardinality(Pairs),
                    unique |-> Cardinality(Used)]
  BY DEF StatsOf, Pairs, Used
<1> QED
  BY <1>1, <1>2, <1>3, <1>4 DEF StatsRow

\* The row of an empty table is the row of zeros that Drop writes.
LEMMA StatsOfEmpty == StatsOf({}) = ZeroStats
<1>1. {p \in {} \X Words : p[2] \in WordsOf[p[1]]} = {}
  OBVIOUS
<1>2. UNION {WordsOf[i] : i \in {}} = {}
  OBVIOUS
<1> QED
  BY <1>1, <1>2, FS_EmptySet DEF StatsOf, ZeroStats

\* The locals a handler starts with.
LEMMA NoRunType == NoRun \in RunType
  BY ServiceAssumption DEF NoRun, RunType, StatsRow, ZeroStats, Ids

-----------------------------------------------------------------------------
(* Type correctness *)

\* A well-typed value in one or more fields leaves the locals well-typed.
LEMMA LocalsType ==
  ASSUME NEW r \in RunType
  PROVE  /\ \A o \in {"none", "updated", "dropped", "error"} :
              [r EXCEPT !.outcome = o] \in RunType
         /\ \A S \in SUBSET Ids : [r EXCEPT !.exists = S] \in RunType
         /\ \A n \in 0..MaxID : [r EXCEPT !.last = n] \in RunType
         /\ \A n \in 1..(MaxID + 1) : [r EXCEPT !.next = n] \in RunType
         /\ \A x \in StatsRow : [r EXCEPT !.row = x] \in RunType
  BY DEF RunType

LEMMA PoolType ==
  ASSUME NEW r \in RunType
  PROVE  /\ \A n \in 1..(MaxID + 1), S \in SUBSET Ids, a \in Nat :
              [r EXCEPT !.next = n, !.jobs = S, !.awaiting = a] \in RunType
         /\ \A w \in Workers, id \in 0..MaxID, S \in SUBSET Ids :
              /\ [r EXCEPT !.jobs = S, !.busy[w] = id] \in RunType
              /\ [r EXCEPT !.busy[w] = id, !.ok = S] \in RunType
              /\ [r EXCEPT !.busy[w] = id, !.nil = S] \in RunType
         /\ \A S, T \in SUBSET Ids, a \in Nat :
              /\ [r EXCEPT !.ok = S, !.batch = T, !.awaiting = a] \in RunType
              /\ [r EXCEPT !.nil = S, !.skipped = T, !.awaiting = a] \in RunType
<1>1. \A n \in 1..(MaxID + 1), S \in SUBSET Ids, a \in Nat :
        [r EXCEPT !.next = n, !.jobs = S, !.awaiting = a] \in RunType
  BY DEF RunType
<1>2. ASSUME NEW w \in Workers, NEW id \in 0..MaxID, NEW S \in SUBSET Ids
      PROVE  /\ [r EXCEPT !.jobs = S, !.busy[w] = id] \in RunType
             /\ [r EXCEPT !.busy[w] = id, !.ok = S] \in RunType
             /\ [r EXCEPT !.busy[w] = id, !.nil = S] \in RunType
  <2>1. [r EXCEPT !.jobs = S, !.busy[w] = id] \in RunType
    BY DEF RunType
  <2>2. [r EXCEPT !.busy[w] = id, !.ok = S] \in RunType
    BY DEF RunType
  <2>3. [r EXCEPT !.busy[w] = id, !.nil = S] \in RunType
    BY DEF RunType
  <2> QED
    BY <2>1, <2>2, <2>3
<1>3. \A S, T \in SUBSET Ids, a \in Nat :
        /\ [r EXCEPT !.ok = S, !.batch = T, !.awaiting = a] \in RunType
        /\ [r EXCEPT !.nil = S, !.skipped = T, !.awaiting = a] \in RunType
  BY DEF RunType
<1> QED
  BY <1>1, <1>2, <1>3

\* The types of the fields, as the steps below use them.
LEMMA FieldTypes ==
  ASSUME NEW r \in RunType
  PROVE  /\ r.exists \in SUBSET Ids /\ r.jobs \in SUBSET Ids
         /\ r.ok \in SUBSET Ids /\ r.nil \in SUBSET Ids
         /\ r.batch \in SUBSET Ids /\ r.skipped \in SUBSET Ids
         /\ r.last \in 0..MaxID /\ r.next \in 1..(MaxID + 1)
         /\ r.busy \in [Workers -> 0..MaxID]
         /\ r.awaiting \in Nat /\ r.row \in StatsRow
         /\ r.outcome \in {"none", "updated", "dropped", "error"}
  BY DEF RunType

\* Only c's locals change.
LEMMA RunType1 ==
  ASSUME NEW f \in [Callers -> RunType], NEW c \in Callers, NEW r \in RunType
  PROVE  [f EXCEPT ![c] = r] \in [Callers -> RunType]
  OBVIOUS

LEMMA InitType == Init => TypeOK
<1> SUFFICES ASSUME Init PROVE TypeOK
  OBVIOUS
<1>1. ZeroStats \in StatsRow
  BY DEF ZeroStats, StatsRow
<1>2. Len(events) <= MaxEvents /\ events \in Seq({"update", "reset"})
  BY ServiceAssumption DEF Init
<1>3. run \in [Callers -> RunType]
  BY NoRunType DEF Init
<1> QED
  BY <1>1, <1>2, <1>3 DEF Init, TypeOK

LEMMA TypeStep == TypeOK /\ [Next]_vars => TypeOK'
<1> SUFFICES ASSUME TypeOK, [Next]_vars PROVE TypeOK'
  OBVIOUS
<1>0. /\ run \in [Callers -> RunType]
      /\ pc \in [Callers -> Holding \cup StatsLocs \cup {"idle"}]
      /\ cancelled \in [Callers -> BOOLEAN]
  BY DEF TypeOK
<1> DEFINE Locs == Holding \cup StatsLocs \cup {"idle"}
\* A step of one handler that leaves the database, the broker and xkcd.com.
<1>1. ASSUME NEW c \in Callers, NEW r \in RunType, NEW loc \in Locs,
             run' = [run EXCEPT ![c] = r], pc' = [pc EXCEPT ![c] = loc],
             inProgress' \in BOOLEAN, cancelled' \in [Callers -> BOOLEAN],
             UNCHANGED <<storeVars, xkcdLast>>
      PROVE  TypeOK'
  <2>1. run' \in [Callers -> RunType]
    BY <1>0, <1>1, RunType1
  <2>2. pc' \in [Callers -> Locs]
    BY <1>0, <1>1
  <2> HIDE DEF Locs
  <2> QED
    BY <1>1, <2>1, <2>2 DEF TypeOK, storeVars, Locs
<1>2. ASSUME NEW c \in Callers PROVE run[c] \in RunType /\ pc[c] \in Locs
  BY <1>0
<1>3. ASSUME NEW c \in Callers, Fail(c)
      PROVE  TypeOK'
  <2> DEFINE r == [run[c] EXCEPT !.outcome = "error"]
  <2>1. r \in RunType
    BY <1>2, LocalsType
  <2>2. run' = [run EXCEPT ![c] = r]
    BY <1>3 DEF Fail
  <2>3. "release" \in Locs
    BY DEF Holding
  <2> HIDE DEF r, Locs
  <2> QED
    BY <1>0, <1>1, <1>3, <2>1, <2>2, <2>3 DEF Fail, Goto, TypeOK
\* A step of one handler that leaves its locals too.
<1>4. ASSUME NEW c \in Callers, NEW loc \in Locs, UNCHANGED run,
             pc' = [pc EXCEPT ![c] = loc], inProgress' \in BOOLEAN,
             cancelled' \in [Callers -> BOOLEAN], UNCHANGED <<storeVars, xkcdLast>>
      PROVE  TypeOK'
  <2>1. run' = [run EXCEPT ![c] = run[c]]
    BY <1>0, <1>4
  <2> HIDE DEF Locs
  <2> QED
    BY <1>1, <1>2, <1>4, <2>1
\* A step of the pool: only the locals change.
<1>5. ASSUME NEW c \in Callers, NEW r \in RunType, run' = [run EXCEPT ![c] = r],
             UNCHANGED <<storeVars, xkcdLast, inProgress, pc, cancelled>>
      PROVE  TypeOK'
  <2>1. run' \in [Callers -> RunType]
    BY <1>0, <1>5, RunType1
  <2> QED
    BY <1>5, <2>1 DEF TypeOK, storeVars
<1>6. /\ Holding \subseteq Locs /\ StatsLocs \subseteq Locs /\ "idle" \in Locs
      /\ UpdateLocs \subseteq Holding /\ DropLocs \subseteq Holding /\ "release" \in Holding
  BY DEF Holding
<1> HIDE DEF Locs
<1>7. ASSUME NEW c \in Callers, Begin(c)
      PROVE  TypeOK'
  <2>1. \E loc \in Locs : pc' = [pc EXCEPT ![c] = loc]
    BY <1>6, <1>7 DEF Begin, Update, Drop, Stats, Goto, UpdateLocs, DropLocs, StatsLocs
  <2>2. UNCHANGED run /\ inProgress' \in BOOLEAN /\ UNCHANGED cancelled
        /\ UNCHANGED <<storeVars, xkcdLast>>
    BY <1>7 DEF Begin, Update, Drop, Stats, TypeOK
  <2> QED
    BY <1>0, <1>4, <2>1, <2>2
<1>8. ASSUME NEW c \in Callers, ReadIDs(c)
      PROVE  TypeOK'
  <2>1. CASE Fail(c)
    BY <1>3, <2>1
  <2>2. CASE ~Fail(c)
    <3> DEFINE r == [run[c] EXCEPT !.exists = comics]
    <3>1. r \in RunType
      BY <1>2, LocalsType DEF TypeOK
    <3>2. run' = [run EXCEPT ![c] = r]
      BY <1>8, <2>2 DEF ReadIDs
    <3>3. "lastid" \in Locs
      BY <1>6 DEF UpdateLocs
    <3> HIDE DEF r
    <3>4. /\ UNCHANGED <<storeVars, xkcdLast, inProgress, cancelled>>
          /\ \E loc \in Locs : pc' = [pc EXCEPT ![c] = loc]
      BY <1>8, <2>2, <3>3 DEF ReadIDs, Goto
    <3>5. inProgress' \in BOOLEAN /\ cancelled' \in [Callers -> BOOLEAN]
      BY <1>0, <3>4 DEF TypeOK
    <3> QED
      BY <1>1, <3>1, <3>2, <3>4, <3>5
  <2> QED
    BY <2>1, <2>2
<1>9. ASSUME NEW c \in Callers, ReadLastID(c)
      PROVE  TypeOK'
  <2>1. CASE Fail(c)
    BY <1>3, <2>1
  <2>2. CASE ~Fail(c)
    <3> DEFINE r == [run[c] EXCEPT !.last = xkcdLast]
    <3>1. r \in RunType
      BY <1>2, LocalsType DEF TypeOK
    <3>2. run' = [run EXCEPT ![c] = r]
      BY <1>9, <2>2 DEF ReadLastID
    <3>3. "feed" \in Locs
      BY <1>6 DEF UpdateLocs
    <3> HIDE DEF r
    <3>4. /\ UNCHANGED <<storeVars, xkcdLast, inProgress, cancelled>>
          /\ \E loc \in Locs : pc' = [pc EXCEPT ![c] = loc]
      BY <1>9, <2>2, <3>3 DEF ReadLastID, Goto
    <3>5. inProgress' \in BOOLEAN /\ cancelled' \in [Callers -> BOOLEAN]
      BY <1>0, <3>4 DEF TypeOK
    <3> QED
      BY <1>1, <3>1, <3>2, <3>4, <3>5
  <2> QED
    BY <2>1, <2>2
<1>10. ASSUME NEW c \in Callers, Feed(c)
       PROVE  TypeOK'
  <2> DEFINE n == run[c].next + 1
             r == [run[c] EXCEPT !.next = n]
             s == [run[c] EXCEPT !.next = n, !.jobs = @ \cup {run[c].next},
                                 !.awaiting = @ + 1]
  <2>1. /\ run[c].next \in Ids /\ n \in 1..(MaxID + 1)
        /\ run[c].jobs \cup {run[c].next} \in SUBSET Ids
        /\ run[c].awaiting + 1 \in Nat
    <3>1. /\ run[c].next \in 1..(MaxID + 1) /\ run[c].last \in 0..MaxID
          /\ run[c].jobs \in SUBSET Ids /\ run[c].awaiting \in Nat
      BY <1>2, FieldTypes
    <3>2. run[c].next <= run[c].last
      BY <1>10 DEF Feed
    <3>3. run[c].next \in Ids /\ n \in 1..(MaxID + 1)
      BY <3>1, <3>2, ServiceAssumption DEF Ids
    <3> QED
      BY <3>1, <3>3
  <2>2. r \in RunType /\ s \in RunType
    <3> HIDE DEF n
    <3>1. r \in RunType
      BY <1>2, <2>1, LocalsType
    <3>2. s \in RunType
      BY <1>2, <2>1, PoolType
    <3> QED
      BY <3>1, <3>2
  <2>3. run' = [run EXCEPT ![c] = r] \/ run' = [run EXCEPT ![c] = s]
    BY <1>10 DEF Feed
  <2> HIDE DEF r, s
  <2> QED
    BY <1>5, <1>10, <2>2, <2>3 DEF Feed
<1>11. ASSUME NEW c \in Callers, CloseJobs(c)
       PROVE  TypeOK'
  <2>1. "collect" \in Locs
    BY <1>6 DEF UpdateLocs
  <2> QED
    BY <1>0, <1>4, <1>11, <2>1 DEF CloseJobs, Goto, TypeOK
<1>12. ASSUME NEW c \in Callers, NEW w \in Workers, Worker(c, w)
       PROVE  TypeOK'
  <2>1. /\ run[c].busy[w] \in 0..MaxID /\ 0 \in 0..MaxID /\ Ids \subseteq 0..MaxID
        /\ \A id : run[c].jobs \ {id} \in SUBSET Ids
    BY <1>2, FieldTypes, ServiceAssumption DEF Ids
  <2>2. CASE TakeJob(c, w)
    <3>1. PICK id \in run[c].jobs :
            run' = [run EXCEPT ![c].jobs = @ \ {id}, ![c].busy[w] = id]
      BY <2>2 DEF TakeJob
    <3> DEFINE r == [run[c] EXCEPT !.jobs = @ \ {id}, !.busy[w] = id]
    <3>2. id \in 0..MaxID
      BY <1>2, <2>1, FieldTypes
    <3>3. r \in RunType
      BY <1>2, <2>1, <3>2, PoolType
    <3>4. run' = [run EXCEPT ![c] = r]
      BY <3>1
    <3> HIDE DEF r
    <3> QED
      BY <1>5, <2>2, <3>3, <3>4 DEF TakeJob
  <2>3. CASE SendComic(c, w) \/ SendNil(c, w)
    <3> DEFINE id == run[c].busy[w]
               r == [run[c] EXCEPT !.busy[w] = 0, !.ok = @ \cup {id}]
               s == [run[c] EXCEPT !.busy[w] = 0, !.nil = @ \cup {id}]
    <3>1. run[c].ok \cup {id} \in SUBSET Ids /\ run[c].nil \cup {id} \in SUBSET Ids
      BY <1>2, <2>1, <2>3, FieldTypes, ServiceAssumption DEF SendComic, SendNil, Ids
    <3>2. r \in RunType /\ s \in RunType
      BY <1>2, <2>1, <3>1, PoolType
    <3>3. run' = [run EXCEPT ![c] = r] \/ run' = [run EXCEPT ![c] = s]
      BY <2>3 DEF SendComic, SendNil
    <3> HIDE DEF r, s
    <3> QED
      BY <1>5, <2>3, <3>2, <3>3 DEF SendComic, SendNil
  <2> QED
    BY <1>12, <2>2, <2>3 DEF Worker
<1>13. ASSUME NEW c \in Callers, Collect(c)
       PROVE  TypeOK'
  <2>1. run[c].awaiting - 1 \in Nat
    <3>1. run[c].awaiting \in Nat
      BY <1>2, FieldTypes
    <3>2. run[c].awaiting > 0
      BY <1>13 DEF Collect
    <3> QED
      BY <3>1, <3>2
  <2>2. CASE \E id \in run[c].ok :
               run' = [run EXCEPT ![c].ok = @ \ {id}, ![c].batch = @ \cup {id},
                                  ![c].awaiting = @ - 1]
    <3>1. PICK id \in run[c].ok :
            run' = [run EXCEPT ![c].ok = @ \ {id}, ![c].batch = @ \cup {id},
                               ![c].awaiting = @ - 1]
      BY <2>2
    <3> DEFINE r == [run[c] EXCEPT !.ok = @ \ {id}, !.batch = @ \cup {id},
                                   !.awaiting = @ - 1]
    <3>2. run[c].ok \ {id} \in SUBSET Ids /\ run[c].batch \cup {id} \in SUBSET Ids
      BY <1>2, FieldTypes
    <3>3. r \in RunType
      BY <1>2, <2>1, <3>2, PoolType
    <3>4. run' = [run EXCEPT ![c] = r]
      BY <3>1
    <3> HIDE DEF r
    <3> QED
      BY <1>5, <1>13, <3>3, <3>4 DEF Collect
  <2>3. CASE \E id \in run[c].nil :
               run' = [run EXCEPT ![c].nil = @ \ {id}, ![c].skipped = @ \cup {id},
                                  ![c].awaiting = @ - 1]
    <3>1. PICK id \in run[c].nil :
            run' = [run EXCEPT ![c].nil = @ \ {id}, ![c].skipped = @ \cup {id},
                               ![c].awaiting = @ - 1]
      BY <2>3
    <3> DEFINE r == [run[c] EXCEPT !.nil = @ \ {id}, !.skipped = @ \cup {id},
                                   !.awaiting = @ - 1]
    <3>2. run[c].nil \ {id} \in SUBSET Ids /\ run[c].skipped \cup {id} \in SUBSET Ids
      BY <1>2, FieldTypes
    <3>3. r \in RunType
      BY <1>2, <2>1, <3>2, PoolType
    <3>4. run' = [run EXCEPT ![c] = r]
      BY <3>1
    <3> HIDE DEF r
    <3> QED
      BY <1>5, <1>13, <3>3, <3>4 DEF Collect
  <2> QED
    BY <1>13, <2>2, <2>3 DEF Collect
<1>14. ASSUME NEW c \in Callers, EndCollect(c)
       PROVE  TypeOK'
  <2>1. "release" \in Locs /\ "insert" \in Locs
    BY <1>6 DEF UpdateLocs
  <2> DEFINE r == [run[c] EXCEPT !.outcome = "updated"]
  <2>2. r \in RunType
    BY <1>2, LocalsType
  <2>3. run[c].batch = {} => run' = [run EXCEPT ![c] = r]
    BY <1>14 DEF EndCollect
  <2> HIDE DEF r
  <2> QED
    BY <1>0, <1>1, <1>4, <1>14, <2>1, <2>2, <2>3 DEF EndCollect, Goto, TypeOK
<1>15. ASSUME NEW c \in Callers, Insert(c) \/ Truncate(c)
       PROVE  TypeOK'
  <2>1. "updatestats" \in Locs /\ "resetstats" \in Locs
    BY <1>6 DEF UpdateLocs, DropLocs
  <2> QED
    BY <1>0, <1>3, <1>4, <1>15, <2>1 DEF Insert, Truncate, Goto, TypeOK
<1>16. ASSUME NEW c \in Callers, UpdateStats(c) \/ ResetStats(c)
       PROVE  TypeOK'
  <2>1. CASE Fail(c)
    BY <1>3, <2>1
  <2>2. CASE ~Fail(c)
    <3> DEFINE x == StatsOf(comics \cup run[c].batch)
               r == [run[c] EXCEPT !.row = x]
               s == [run[c] EXCEPT !.row = ZeroStats]
    <3>1. x \in StatsRow /\ ZeroStats \in StatsRow
      <4>1. comics \cup run[c].batch \in SUBSET Ids
        BY <1>2, FieldTypes DEF TypeOK
      <4> QED
        BY <4>1, StatsOfRow DEF ZeroStats, StatsRow
    <3> HIDE DEF x
    <3>2. r \in RunType /\ s \in RunType
      BY <1>2, <3>1, LocalsType
    <3>3. run' = [run EXCEPT ![c] = r] \/ run' = [run EXCEPT ![c] = s]
      BY <1>16, <2>2 DEF UpdateStats, ResetStats, x
    <3>4. "commitadd" \in Locs /\ "commitdrop" \in Locs
      BY <1>6 DEF UpdateLocs, DropLocs
    <3> HIDE DEF r, s
    <3> QED
      BY <1>0, <1>1, <1>16, <2>2, <3>2, <3>3, <3>4
      DEF UpdateStats, ResetStats, Goto, TypeOK
  <2> QED
    BY <2>1, <2>2
<1>17. ASSUME NEW c \in Callers, Apply(c)
       PROVE  comics' \in SUBSET Ids /\ stats' \in StatsRow
  BY <1>2, <1>17, FieldTypes DEF Apply, TypeOK
<1>18. ASSUME NEW c \in Callers, Commit(c) \/ CommitError(c)
       PROVE  TypeOK'
  <2>1. comics' \in SUBSET Ids /\ stats' \in StatsRow
    BY <1>17, <1>18 DEF Commit, CommitError, TypeOK
  <2> DEFINE r == [run[c] EXCEPT !.outcome = "error"]
  <2>2. r \in RunType
    BY <1>2, LocalsType
  <2>3. run' = [run EXCEPT ![c] = r] \/ run' = run
    BY <1>18 DEF Commit, CommitError
  <2> HIDE DEF r
  <2>4. run' \in [Callers -> RunType]
    BY <1>0, <2>2, <2>3, RunType1
  <2>5. \E loc \in Locs : pc' = [pc EXCEPT ![c] = loc]
    BY <1>6, <1>18 DEF Commit, CommitError, Goto, UpdateLocs, DropLocs
  <2>6. pc' \in [Callers -> Locs]
    BY <1>0, <2>5 DEF Locs
  <2>7. UNCHANGED <<events, xkcdLast, inProgress, cancelled>>
    BY <1>18 DEF Commit, CommitError
  <2> QED
    BY <2>1, <2>4, <2>6, <2>7 DEF TypeOK, Locs
<1>19. ASSUME NEW c \in Callers, Publish(c)
       PROVE  TypeOK'
  <2> DEFINE r == [run[c] EXCEPT !.outcome = "updated"]
             s == [run[c] EXCEPT !.outcome = "dropped"]
  <2>1. r \in RunType /\ s \in RunType
    BY <1>2, LocalsType
  <2>2. run' = [run EXCEPT ![c] = r] \/ run' = [run EXCEPT ![c] = s]
    BY <1>19 DEF Publish
  <2> HIDE DEF r, s
  <2>3. run' \in [Callers -> RunType]
    BY <1>0, <2>1, <2>2, RunType1
  <2>4. pc' \in [Callers -> Locs]
    BY <1>0, <1>6, <1>19 DEF Publish, Goto, Locs
  <2>5. events' \in Seq({"update", "reset"}) /\ Len(events') <= MaxEvents
    <3>1. events \in Seq({"update", "reset"})
      BY DEF TypeOK
    <3>2. Append(events, "update") \in Seq({"update", "reset"})
      BY <3>1
    <3>3. Append(events, "reset") \in Seq({"update", "reset"})
      BY <3>1
    <3> QED
      BY <1>19, <3>1, <3>2, <3>3 DEF Publish
  <2>6. UNCHANGED <<comics, stats, xkcdLast, inProgress, cancelled>>
    BY <1>19 DEF Publish
  <2> QED
    BY <2>3, <2>4, <2>5, <2>6 DEF TypeOK, Locs
<1>20. ASSUME NEW c \in Callers, Release(c) \/ EndStats(c)
       PROVE  TypeOK'
  <2>1. cancelled' \in [Callers -> BOOLEAN] /\ inProgress' \in BOOLEAN
    BY <1>0, <1>20 DEF Release, EndStats, TypeOK
  <2>2. run' = [run EXCEPT ![c] = NoRun] /\ pc' = [pc EXCEPT ![c] = "idle"]
    BY <1>20 DEF Release, EndStats, Goto
  <2>3. UNCHANGED <<storeVars, xkcdLast>>
    BY <1>20 DEF Release, EndStats
  <2> QED
    BY <1>1, <1>6, <2>1, <2>2, <2>3, NoRunType
<1>21. ASSUME NEW c \in Callers, ReadStats(c)
       PROVE  TypeOK'
  <2> DEFINE r == [run[c] EXCEPT !.row = stats]
             s == [run[c] EXCEPT !.last = xkcdLast]
  <2>1. r \in RunType /\ s \in RunType
    BY <1>2, LocalsType DEF TypeOK
  <2>2. run' = [run EXCEPT ![c] = r] \/ run' = [run EXCEPT ![c] = s]
    BY <1>21 DEF ReadStats
  <2>3. "readlast" \in Locs /\ "statsreply" \in Locs
    BY <1>6 DEF StatsLocs
  <2> HIDE DEF r, s
  <2> QED
    BY <1>0, <1>1, <1>21, <2>1, <2>2, <2>3 DEF ReadStats, Goto, TypeOK
<1>22. ASSUME NEW c \in Callers, Cancel(c)
       PROVE  TypeOK'
  BY <1>22 DEF Cancel, TypeOK, storeVars
<1>23. CASE Crash
  <2>1. comics' \in SUBSET Ids /\ stats' \in StatsRow
    BY <1>17, <1>23 DEF Crash, TypeOK
  <2>2. /\ run' \in [Callers -> RunType]
        /\ pc' \in [Callers -> Locs]
        /\ cancelled' \in [Callers -> BOOLEAN]
    BY <1>6, <1>23, NoRunType DEF Crash
  <2>3. UNCHANGED <<events, xkcdLast>> /\ inProgress' = FALSE
    BY <1>23 DEF Crash
  <2> QED
    BY <2>1, <2>2, <2>3 DEF TypeOK, Locs
<1>24. CASE NewComic
  <2>1. xkcdLast' \in 0..MaxID
    BY <1>24, ServiceAssumption DEF NewComic, TypeOK
  <2> QED
    BY <1>24, <2>1 DEF NewComic, TypeOK, storeVars
<1>25. CASE Take
  <2>1. events' \in Seq({"update", "reset"}) /\ Len(events') <= MaxEvents
    BY <1>25, ServiceAssumption DEF Take, TypeOK
  <2> QED
    BY <1>25, <2>1 DEF Take, TypeOK
<1>26. CASE UNCHANGED vars
  BY <1>26 DEF vars, storeVars, TypeOK
<1> QED
  BY <1>7, <1>8, <1>9, <1>10, <1>11, <1>12, <1>13, <1>14, <1>15, <1>16,
     <1>18, <1>19, <1>20, <1>21, <1>22, <1>23, <1>24, <1>25, <1>26
  DEF Next, Handler

\* Every variable keeps its type.
THEOREM TypeCorrect == Spec => []TypeOK
  BY InitType, TypeStep, PTL DEF Spec

-----------------------------------------------------------------------------
(* Mutual exclusion *)

\* No two of Update and Drop overlap, and the flag tells whether one runs.
LEMMA FlagStep == TypeOK /\ FlagHeldByOne /\ [Next]_vars => FlagHeldByOne'
<1> SUFFICES ASSUME TypeOK, FlagHeldByOne, [Next]_vars PROVE FlagHeldByOne'
  OBVIOUS
<1>0. pc \in [Callers -> Holding \cup StatsLocs \cup {"idle"}]
  BY DEF TypeOK
<1>1. /\ "idle" \notin Holding
      /\ \A loc \in StatsLocs : loc \notin Holding
      /\ UpdateLocs \subseteq Holding /\ DropLocs \subseteq Holding /\ "release" \in Holding
  BY DEF Holding, UpdateLocs, DropLocs, StatsLocs
\* The four ways a step can move the holder of the flag.
<1>2. ASSUME NEW c \in Callers, ~inProgress, inProgress' = TRUE,
             NEW loc \in Holding, pc' = [pc EXCEPT ![c] = loc]
      PROVE  FlagHeldByOne'
  BY <1>0, <1>2 DEF FlagHeldByOne
<1>3. ASSUME NEW c \in Callers, pc[c] \in Holding, inProgress' = inProgress,
             NEW loc \in Holding, pc' = [pc EXCEPT ![c] = loc]
      PROVE  FlagHeldByOne'
  BY <1>0, <1>3 DEF FlagHeldByOne
<1>4. ASSUME NEW c \in Callers, pc[c] \in Holding, inProgress' = FALSE,
             pc' = [pc EXCEPT ![c] = "idle"]
      PROVE  FlagHeldByOne'
  BY <1>0, <1>1, <1>4 DEF FlagHeldByOne
<1>5. ASSUME NEW c \in Callers, pc[c] \notin Holding, inProgress' = inProgress,
             NEW loc, loc \notin Holding, pc' = [pc EXCEPT ![c] = loc]
      PROVE  FlagHeldByOne'
  BY <1>0, <1>5 DEF FlagHeldByOne
<1>6. ASSUME UNCHANGED <<pc, inProgress>>
      PROVE  FlagHeldByOne'
  BY <1>6 DEF FlagHeldByOne
<1>7. ASSUME NEW c \in Callers, Begin(c)
      PROVE  FlagHeldByOne'
  <2>1. CASE Update(c) \/ Drop(c)
    BY <1>1, <1>2, <2>1 DEF Update, Drop, Goto, UpdateLocs, DropLocs
  <2>2. CASE Stats(c)
    BY <1>1, <1>5, <2>2 DEF Stats, Goto, StatsLocs
  <2> QED
    BY <1>7, <2>1, <2>2 DEF Begin
<1>8. ASSUME NEW c \in Callers,
             \/ ReadIDs(c) \/ ReadLastID(c) \/ CloseJobs(c) \/ EndCollect(c)
             \/ Insert(c) \/ UpdateStats(c) \/ Truncate(c) \/ ResetStats(c)
             \/ Commit(c) \/ CommitError(c) \/ Publish(c)
      PROVE  FlagHeldByOne'
  <2>1. pc[c] \in Holding
    BY <1>8 DEF ReadIDs, ReadLastID, CloseJobs, EndCollect, Insert, UpdateStats,
       Truncate, ResetStats, Commit, CommitError, Publish, Holding, UpdateLocs, DropLocs
  <2>2. inProgress' = inProgress
    BY <1>8 DEF ReadIDs, ReadLastID, CloseJobs, EndCollect, Insert, UpdateStats,
       Truncate, ResetStats, Commit, CommitError, Publish, Fail
  <2>3. \E loc \in Holding : pc' = [pc EXCEPT ![c] = loc]
    BY <1>1, <1>8 DEF ReadIDs, ReadLastID, CloseJobs, EndCollect, Insert, UpdateStats,
       Truncate, ResetStats, Commit, CommitError, Publish, Fail, Goto,
       UpdateLocs, DropLocs
  <2> QED
    BY <1>3, <2>1, <2>2, <2>3
<1>9. ASSUME NEW c \in Callers, Release(c)
      PROVE  FlagHeldByOne'
  BY <1>1, <1>4, <1>9 DEF Release, Goto
<1>10. ASSUME NEW c \in Callers, ReadStats(c) \/ EndStats(c)
       PROVE  FlagHeldByOne'
  <2>1. pc[c] \notin Holding /\ inProgress' = inProgress
    BY <1>1, <1>10 DEF ReadStats, EndStats, StatsLocs
  <2>2. \E loc \in StatsLocs \cup {"idle"} : pc' = [pc EXCEPT ![c] = loc]
    BY <1>10 DEF ReadStats, EndStats, Goto, StatsLocs
  <2> QED
    BY <1>1, <1>5, <2>1, <2>2
<1>11. ASSUME NEW c \in Callers, Feed(c) \/ Collect(c) \/ Cancel(c)
       PROVE  FlagHeldByOne'
  BY <1>6, <1>11 DEF Feed, Collect, Cancel
<1>12. ASSUME NEW c \in Callers, NEW w \in Workers, Worker(c, w)
       PROVE  FlagHeldByOne'
  BY <1>6, <1>12 DEF Worker, TakeJob, SendComic, SendNil
<1>13. CASE Crash
  BY <1>1, <1>13 DEF Crash, FlagHeldByOne
<1>14. CASE NewComic \/ Take \/ UNCHANGED vars
  BY <1>6, <1>14 DEF NewComic, Take, vars
<1> QED
  BY <1>7, <1>8, <1>9, <1>10, <1>11, <1>12, <1>13, <1>14 DEF Next, Handler

-----------------------------------------------------------------------------
(* The locals of one handler *)

\* What is queued, fetched or answered are ids, finitely many.
LEMMA OutstandingIds ==
  ASSUME TypeOK, NEW c \in Callers
  PROVE  /\ Outstanding(c) \in SUBSET Ids
         /\ IsFiniteSet(Outstanding(c))
         /\ Cardinality(Outstanding(c)) \in Nat
         /\ Cardinality(Outstanding(c)) = 0 <=> Outstanding(c) = {}
<1>1. run[c] \in RunType
  BY DEF TypeOK
<1>2. Held(c) \in SUBSET Ids
  BY <1>1, FieldTypes, ServiceAssumption DEF Held, Ids
<1>3. Outstanding(c) \in SUBSET Ids
  BY <1>1, <1>2, FieldTypes DEF Outstanding
<1> QED
  BY <1>3, IdsFinite, FS_EmptySet

\* A handler at rest satisfies its invariant.
LEMMA FreshInv ==
  ASSUME NEW c \in Callers, run[c] = NoRun, pc[c] = "idle", xkcdLast \in 0..MaxID
  PROVE  RunInv(c)
<1>1. /\ NoRun.exists = {} /\ NoRun.last = 0 /\ NoRun.next = 1 /\ NoRun.jobs = {}
      /\ NoRun.busy = [w \in Workers |-> 0] /\ NoRun.ok = {} /\ NoRun.nil = {}
      /\ NoRun.awaiting = 0 /\ NoRun.batch = {} /\ NoRun.outcome = "none"
  BY DEF NoRun
<1>2. Outstanding(c) = {}
  BY <1>1 DEF Outstanding, Held
<1>3. OnePlace(c)
  BY <1>1 DEF OnePlace
<1>4. Counted(c)
  BY <1>1, <1>2, FS_EmptySet DEF Counted
<1>5. Fed(c)
  BY <1>1, <1>2, ServiceAssumption DEF Fed, Storing, StatsLocs
<1>6. Known(c) /\ Replied(c)
  BY <1>1 DEF Known, Replied, Fetching, Storing
<1> QED
  BY <1>3, <1>4, <1>5, <1>6 DEF RunInv

\* The same of the state a step leads to.
LEMMA FreshInvNext ==
  ASSUME NEW c \in Callers, run'[c] = NoRun, pc'[c] = "idle", xkcdLast' \in 0..MaxID
  PROVE  RunInv(c)'
<1>1. /\ NoRun.exists = {} /\ NoRun.last = 0 /\ NoRun.next = 1 /\ NoRun.jobs = {}
      /\ NoRun.busy = [w \in Workers |-> 0] /\ NoRun.ok = {} /\ NoRun.nil = {}
      /\ NoRun.awaiting = 0 /\ NoRun.batch = {} /\ NoRun.outcome = "none"
  BY DEF NoRun
<1>2. Outstanding(c)' = {}
  BY <1>1 DEF Outstanding, Held
<1>3. OnePlace(c)'
  BY <1>1 DEF OnePlace
<1>4. Counted(c)'
  BY <1>1, <1>2, FS_EmptySet DEF Counted
<1>5. Fed(c)'
  BY <1>1, <1>2, ServiceAssumption DEF Fed, Storing, StatsLocs
<1>6. Known(c)' /\ Replied(c)'
  BY <1>1 DEF Known, Replied, Fetching, Storing
<1> QED
  BY <1>3, <1>4, <1>5, <1>6 DEF RunInv

\* A handler whose locals stay, while the catalogue may grow and, unless it
\* holds the flag, the table may change.
LEMMA FrameInv ==
  ASSUME TypeOK, NEW c \in Callers, RunInv(c),
         run'[c] = run[c], pc'[c] = pc[c],
         xkcdLast' \in 0..MaxID, xkcdLast <= xkcdLast',
         pc[c] \in Holding => comics' = comics
  PROVE  RunInv(c)'
<1>1. run[c] \in RunType /\ xkcdLast \in 0..MaxID
  BY DEF TypeOK
<1>2. Held(c)' = Held(c)
  BY DEF Held
<1>3. Outstanding(c)' = Outstanding(c)
  BY <1>2 DEF Outstanding
<1>4. OnePlace(c)'
  BY DEF RunInv, OnePlace
<1>5. Counted(c)'
  BY <1>3 DEF RunInv, Counted
<1>6. Fed(c)'
  <2>1. run[c].last <= xkcdLast'
    BY <1>1, FieldTypes, ServiceAssumption DEF RunInv, Fed
  <2> QED
    BY <1>3, <2>1 DEF RunInv, Fed
<1>7. Known(c)'
  BY DEF RunInv, Known, Holding, UpdateLocs, DropLocs, Fetching, Storing
<1>8. Replied(c)'
  <2>1. run[c].row.fetched \in Nat
    BY <1>1, FieldTypes DEF StatsRow
  <2> QED
    BY <1>1, <2>1, ServiceAssumption DEF RunInv, Replied
<1> QED
  BY <1>4, <1>5, <1>6, <1>7, <1>8 DEF RunInv

\* A step of c's handler that leaves the pool alone.
LEMMA SamePool ==
  ASSUME NEW c \in Callers, OnePlace(c),
         run'[c].jobs = run[c].jobs, run'[c].busy = run[c].busy,
         run'[c].ok = run[c].ok, run'[c].nil = run[c].nil
  PROVE  OnePlace(c)' /\ Outstanding(c)' = Outstanding(c)
<1>1. Held(c)' = Held(c)
  BY DEF Held
<1> QED
  BY <1>1 DEF OnePlace, Outstanding

\* Every step of c's own handler keeps what its locals promise.

LEMMA BeginInv ==
  ASSUME IInv, NEW c \in Callers, Begin(c)
  PROVE  RunInv(c)'
<1>1. /\ run' = run /\ pc[c] = "idle" /\ UNCHANGED <<comics, xkcdLast>>
      /\ pc'[c] \in {"ids", "truncate", "readstats"}
  BY DEF IInv, TypeOK, Begin, Update, Drop, Stats, Goto, storeVars
<1>2. RunInv(c)
  BY DEF IInv
<1>3. OnePlace(c)' /\ Outstanding(c)' = Outstanding(c)
  BY <1>1, <1>2, SamePool DEF RunInv
<1>4. Counted(c)' /\ Fed(c)'
  BY <1>1, <1>2, <1>3 DEF RunInv, Counted, Fed, Fetching, Storing, StatsLocs
<1>5. Known(c)' /\ Replied(c)'
  BY <1>1, <1>2 DEF RunInv, Known, Replied, Fetching, Storing
<1> QED
  BY <1>3, <1>4, <1>5 DEF RunInv

LEMMA FailInv ==
  ASSUME IInv, NEW c \in Callers, Fail(c), pc[c] \notin Fetching
  PROVE  RunInv(c)'
<1>1. run[c] \in RunType /\ RunInv(c)
  BY DEF IInv, TypeOK
<1>2. /\ pc'[c] = "release" /\ UNCHANGED <<comics, xkcdLast>>
      /\ run'[c] = [run[c] EXCEPT !.outcome = "error"]
  BY DEF IInv, TypeOK, Fail, Goto, storeVars
<1>3. /\ run'[c].jobs = run[c].jobs /\ run'[c].busy = run[c].busy
      /\ run'[c].ok = run[c].ok /\ run'[c].nil = run[c].nil
      /\ run'[c].awaiting = run[c].awaiting /\ run'[c].next = run[c].next
      /\ run'[c].last = run[c].last /\ run'[c].exists = run[c].exists
      /\ run'[c].batch = run[c].batch /\ run'[c].skipped = run[c].skipped
      /\ run'[c].outcome = "error"
  BY <1>1, <1>2 DEF RunType
<1>4. OnePlace(c)' /\ Outstanding(c)' = Outstanding(c)
  BY <1>1, <1>3, SamePool DEF RunInv
<1>5. Counted(c)' /\ Fed(c)'
  BY <1>1, <1>2, <1>3, <1>4 DEF RunInv, Counted, Fed, Fetching, Storing, StatsLocs
<1>6. Known(c)' /\ Replied(c)'
  BY <1>2, <1>3 DEF Known, Replied, Fetching, Storing
<1> QED
  BY <1>4, <1>5, <1>6 DEF RunInv

LEMMA ReadInv ==
  ASSUME IInv, NEW c \in Callers, ReadIDs(c) \/ ReadLastID(c)
  PROVE  RunInv(c)'
<1>1. /\ run[c] \in RunType /\ RunInv(c) /\ xkcdLast \in 0..MaxID
      /\ pc[c] \in {"ids", "lastid"}
  BY DEF IInv, TypeOK, ReadIDs, ReadLastID
<1>2. CASE Fail(c)
  BY <1>1, <1>2, FailInv DEF Fetching
<1>3. CASE ~Fail(c)
  <2>1. /\ UNCHANGED <<comics, xkcdLast>>
        /\ \/ /\ pc'[c] = "lastid" /\ pc[c] = "ids"
              /\ run'[c] = [run[c] EXCEPT !.exists = comics]
           \/ /\ pc'[c] = "feed" /\ pc[c] = "lastid"
              /\ run'[c] = [run[c] EXCEPT !.last = xkcdLast]
    BY <1>3 DEF IInv, TypeOK, ReadIDs, ReadLastID, Goto, storeVars
  <2>2. /\ run'[c].jobs = run[c].jobs /\ run'[c].busy = run[c].busy
        /\ run'[c].ok = run[c].ok /\ run'[c].nil = run[c].nil
        /\ run'[c].awaiting = run[c].awaiting /\ run'[c].next = run[c].next
        /\ run'[c].batch = run[c].batch /\ run'[c].skipped = run[c].skipped
        /\ run'[c].outcome = run[c].outcome
    BY <1>1, <2>1 DEF RunType
  <2>3. OnePlace(c)' /\ Outstanding(c)' = Outstanding(c)
    BY <1>1, <2>2, SamePool DEF RunInv
  <2>4. /\ run[c].next = 1 /\ run[c].awaiting = 0 /\ run[c].outcome = "none"
        /\ run[c].batch \cup Outstanding(c) = {}
    BY <1>1 DEF RunInv, Fed, Counted, Known, Fetching
  <2>5. Counted(c)'
    BY <1>1, <2>2, <2>3, <2>4 DEF RunInv, Counted
  <2>6. Fed(c)'
    <3>1. /\ run'[c].last \in Nat /\ run'[c].last <= xkcdLast
          /\ run'[c].next = 1
      BY <1>1, <2>1, <2>2, <2>4, FieldTypes, ServiceAssumption DEF RunInv, Fed, RunType
    <3> QED
      BY <2>1, <2>2, <2>3, <2>4, <3>1 DEF Fed, Storing
  <2>7. run'[c].exists = comics
    <3>1. pc[c] = "lastid" => run[c].exists = comics
      BY <1>1 DEF RunInv, Known
    <3> QED
      BY <1>1, <2>1, <3>1 DEF RunType
  <2>8. Known(c)' /\ Replied(c)'
    BY <2>1, <2>2, <2>4, <2>7 DEF Known, Replied, Fetching, Storing
  <2> QED
    BY <2>3, <2>5, <2>6, <2>8 DEF RunInv
<1> QED
  BY <1>2, <1>3

LEMMA FeedInv ==
  ASSUME IInv, NEW c \in Callers, Feed(c)
  PROVE  RunInv(c)'
<1> DEFINE id == run[c].next
<1>1. /\ run[c] \in RunType /\ RunInv(c) /\ xkcdLast \in 0..MaxID
      /\ pc[c] = "feed" /\ pc' = pc /\ UNCHANGED <<comics, xkcdLast>>
      /\ id \in Nat \ {0} /\ run[c].last \in Nat /\ id <= run[c].last
  BY FieldTypes, ServiceAssumption DEF IInv, TypeOK, Feed, storeVars
<1>2. /\ id \notin Outstanding(c) /\ Outstanding(c) \subseteq 1..(id - 1)
      /\ run[c].batch \subseteq 1..(id - 1)
  BY <1>1 DEF RunInv, Fed
<1>3. 1..id = 1..(id - 1) \cup {id} /\ (id + 1) - 1 = id
  BY <1>1
<1>4. CASE id \in run[c].exists
  <2>1. run'[c] = [run[c] EXCEPT !.next = id + 1]
    BY <1>4 DEF IInv, TypeOK, Feed
  <2>2. /\ run'[c].jobs = run[c].jobs /\ run'[c].busy = run[c].busy
        /\ run'[c].ok = run[c].ok /\ run'[c].nil = run[c].nil
        /\ run'[c].awaiting = run[c].awaiting /\ run'[c].next = id + 1
        /\ run'[c].batch = run[c].batch /\ run'[c].skipped = run[c].skipped
        /\ run'[c].last = run[c].last /\ run'[c].exists = run[c].exists
        /\ run'[c].outcome = run[c].outcome
    BY <1>1, <2>1 DEF RunType
  <2> HIDE DEF id
  <2>3. OnePlace(c)' /\ Outstanding(c)' = Outstanding(c)
    BY <1>1, <2>2, SamePool DEF RunInv
  <2>4. Counted(c)' /\ Known(c)' /\ Replied(c)'
    BY <1>1, <2>2, <2>3 DEF RunInv, Counted, Known, Replied, Fetching, Storing
  <2>5. Fed(c)'
    <3>1. run[c].batch \cup Outstanding(c) \subseteq (1..id) \ run[c].exists
      BY <1>1, <1>3 DEF RunInv, Fed, id
    <3>2. 1..id \subseteq run[c].exists \cup run[c].batch \cup run[c].skipped \cup Outstanding(c)
      BY <1>1, <1>3, <1>4 DEF RunInv, Fed, id
    <3>3. run[c].last <= xkcdLast /\ id + 1 <= run[c].last + 1
      BY <1>1 DEF RunInv, Fed
    <3> QED
      BY <1>1, <1>3, <2>2, <2>3, <3>1, <3>2, <3>3 DEF Fed, Storing, StatsLocs
  <2> QED
    BY <2>3, <2>4, <2>5 DEF RunInv
<1>5. CASE id \notin run[c].exists
  <2>1. run'[c] = [run[c] EXCEPT !.next = id + 1, !.jobs = @ \cup {id}, !.awaiting = @ + 1]
    BY <1>5 DEF IInv, TypeOK, Feed
  <2>2. /\ run'[c].jobs = run[c].jobs \cup {id} /\ run'[c].busy = run[c].busy
        /\ run'[c].ok = run[c].ok /\ run'[c].nil = run[c].nil
        /\ run'[c].awaiting = run[c].awaiting + 1 /\ run'[c].next = id + 1
        /\ run'[c].batch = run[c].batch /\ run'[c].skipped = run[c].skipped
        /\ run'[c].last = run[c].last /\ run'[c].exists = run[c].exists
        /\ run'[c].outcome = run[c].outcome
    BY <1>1, <2>1 DEF RunType
  <2> HIDE DEF id
  <2>3. Outstanding(c)' = Outstanding(c) \cup {id}
    <3>1. Held(c)' = Held(c)
      BY <2>2 DEF Held
    <3> QED
      BY <2>2, <3>1 DEF Outstanding
  <2>4. OnePlace(c)'
    <3>1. /\ id \notin run[c].ok /\ id \notin run[c].nil /\ id \notin Held(c) /\ id # 0
      BY <1>1, <1>2 DEF Outstanding
    <3>2. \A w \in Workers : run[c].busy[w] # id
      BY <3>1 DEF Held
    <3> QED
      BY <1>1, <2>2, <3>1, <3>2 DEF RunInv, OnePlace
  <2>5. Counted(c)'
    <3>1. Cardinality(Outstanding(c) \cup {id}) = Cardinality(Outstanding(c)) + 1
      BY <1>2, OutstandingIds, FS_AddElement DEF IInv
    <3> QED
      BY <1>1, <2>2, <2>3, <3>1 DEF RunInv, Counted, Fetching
  <2>6. Known(c)' /\ Replied(c)'
    BY <1>1, <2>2 DEF RunInv, Known, Replied, Fetching, Storing
  <2>7. Fed(c)'
    <3>1. run[c].batch \cup Outstanding(c) \cup {id} \subseteq (1..id) \ run[c].exists
      BY <1>1, <1>3, <1>5 DEF RunInv, Fed, id
    <3>2. 1..id \subseteq run[c].exists \cup run[c].batch \cup run[c].skipped
                           \cup Outstanding(c) \cup {id}
      BY <1>1, <1>3 DEF RunInv, Fed, id
    <3>3. run[c].last <= xkcdLast /\ id + 1 <= run[c].last + 1
      BY <1>1 DEF RunInv, Fed
    <3> QED
      BY <1>1, <1>3, <2>2, <2>3, <3>1, <3>2, <3>3 DEF Fed, Storing, StatsLocs
  <2> QED
    BY <2>4, <2>5, <2>6, <2>7 DEF RunInv
<1> QED
  BY <1>4, <1>5

LEMMA CloseJobsInv ==
  ASSUME IInv, NEW c \in Callers, CloseJobs(c)
  PROVE  RunInv(c)'
<1>1. /\ RunInv(c) /\ pc[c] = "feed" /\ pc'[c] = "collect" /\ run' = run
      /\ UNCHANGED <<comics, xkcdLast>> /\ run[c].next > run[c].last
  BY DEF IInv, TypeOK, CloseJobs, Goto, storeVars
<1>2. OnePlace(c)' /\ Outstanding(c)' = Outstanding(c)
  BY <1>1, SamePool DEF RunInv
<1>3. Counted(c)' /\ Fed(c)'
  BY <1>1, <1>2 DEF RunInv, Counted, Fed, Fetching, Storing, StatsLocs
<1>4. Known(c)' /\ Replied(c)'
  BY <1>1 DEF RunInv, Known, Replied, Fetching, Storing
<1> QED
  BY <1>2, <1>3, <1>4 DEF RunInv

\* A worker moves one id: the set of outstanding ids stays.
LEMMA WorkerInv ==
  ASSUME IInv, NEW c \in Callers, NEW w \in Workers, Worker(c, w)
  PROVE  RunInv(c)'
<1>1. /\ run[c] \in RunType /\ RunInv(c) /\ pc' = pc
      /\ UNCHANGED <<comics, xkcdLast>>
  BY DEF IInv, TypeOK, Worker, TakeJob, SendComic, SendNil, storeVars
<1>2. /\ run'[c].awaiting = run[c].awaiting /\ run'[c].next = run[c].next
      /\ run'[c].last = run[c].last /\ run'[c].exists = run[c].exists
      /\ run'[c].batch = run[c].batch /\ run'[c].skipped = run[c].skipped
      /\ run'[c].outcome = run[c].outcome /\ run'[c].row = run[c].row
  <2>1. \/ \E id : run'[c] = [run[c] EXCEPT !.jobs = @ \ {id}, !.busy[w] = id]
        \/ \E id : run'[c] = [run[c] EXCEPT !.busy[w] = 0, !.ok = @ \cup {id}]
        \/ \E id : run'[c] = [run[c] EXCEPT !.busy[w] = 0, !.nil = @ \cup {id}]
    BY DEF IInv, TypeOK, Worker, TakeJob, SendComic, SendNil
  <2> QED
    BY <1>1, <2>1 DEF RunType
<1>3. OnePlace(c)' /\ Outstanding(c)' = Outstanding(c)
  <2>1. /\ run[c].busy \in [Workers -> 0..MaxID] /\ 0 \notin run[c].jobs
        /\ OnePlace(c)
    BY <1>1, FieldTypes, ServiceAssumption DEF RunInv, Ids
  <2>2. CASE TakeJob(c, w)
    <3>1. PICK id \in run[c].jobs :
            run' = [run EXCEPT ![c].jobs = @ \ {id}, ![c].busy[w] = id]
      BY <2>2 DEF TakeJob
    <3>2. /\ run'[c].jobs = run[c].jobs \ {id}
          /\ run'[c].busy = [run[c].busy EXCEPT ![w] = id]
          /\ run'[c].ok = run[c].ok /\ run'[c].nil = run[c].nil
      BY <1>1, <3>1 DEF IInv, TypeOK, RunType
    <3>3. run[c].busy[w] = 0 /\ id # 0
      BY <2>1, <2>2 DEF TakeJob
    <3>4. Held(c)' = Held(c) \cup {id}
      BY <2>1, <3>2, <3>3 DEF Held
    <3> QED
      BY <2>1, <3>2, <3>3, <3>4 DEF OnePlace, Outstanding
  <2>3. CASE SendComic(c, w) \/ SendNil(c, w)
    <3> DEFINE id == run[c].busy[w]
    <3>1. /\ run'[c].jobs = run[c].jobs
          /\ run'[c].busy = [run[c].busy EXCEPT ![w] = 0]
          /\ \/ run'[c].ok = run[c].ok \cup {id} /\ run'[c].nil = run[c].nil
             \/ run'[c].ok = run[c].ok /\ run'[c].nil = run[c].nil \cup {id}
      <4>1. \/ run'[c] = [run[c] EXCEPT !.busy[w] = 0, !.ok = @ \cup {id}]
            \/ run'[c] = [run[c] EXCEPT !.busy[w] = 0, !.nil = @ \cup {id}]
        BY <2>3 DEF IInv, TypeOK, SendComic, SendNil
      <4> HIDE DEF id
      <4> QED
        BY <1>1, <4>1 DEF RunType, id
    <3>2. id # 0
      BY <2>3 DEF SendComic, SendNil
    <3>3. Held(c) = Held(c)' \cup {id} /\ id \notin Held(c)'
      BY <2>1, <3>1, <3>2 DEF Held, OnePlace
    <3> HIDE DEF id
    <3>4. \A v \in Workers : v # w => run'[c].busy[v] = run[c].busy[v] /\ run[c].busy[v] # id
      BY <2>1, <3>1, <3>2 DEF OnePlace, id
    <3>5. run'[c].busy[w] = 0
      BY <2>1, <3>1
    <3>6. id \notin run[c].jobs \cup run[c].ok \cup run[c].nil
      BY <2>1 DEF OnePlace, id
    <3>7. OnePlace(c)'
      BY <2>1, <3>1, <3>2, <3>4, <3>5, <3>6, <1>1, FieldTypes, ServiceAssumption
      DEF OnePlace, Ids
    <3> QED
      BY <3>1, <3>3, <3>7 DEF Outstanding
  <2> QED
    BY <2>2, <2>3 DEF Worker
<1>4. Counted(c)' /\ Fed(c)'
  BY <1>1, <1>2, <1>3 DEF RunInv, Counted, Fed, Fetching, Storing, StatsLocs
<1>5. Known(c)' /\ Replied(c)'
  BY <1>1, <1>2 DEF RunInv, Known, Replied, Fetching, Storing
<1> QED
  BY <1>3, <1>4, <1>5 DEF RunInv

\* The collector takes one outstanding id and files it.
LEMMA CollectInv ==
  ASSUME IInv, NEW c \in Callers, Collect(c)
  PROVE  RunInv(c)'
<1>1. /\ run[c] \in RunType /\ RunInv(c) /\ pc' = pc /\ pc[c] = "collect"
      /\ UNCHANGED <<comics, xkcdLast>>
  BY DEF IInv, TypeOK, Collect, storeVars
<1>2. PICK id : \/ /\ id \in run[c].ok
                   /\ run'[c] = [run[c] EXCEPT !.ok = @ \ {id}, !.batch = @ \cup {id},
                                               !.awaiting = @ - 1]
                \/ /\ id \in run[c].nil
                   /\ run'[c] = [run[c] EXCEPT !.nil = @ \ {id}, !.skipped = @ \cup {id},
                                               !.awaiting = @ - 1]
  BY DEF IInv, TypeOK, Collect
<1>3. /\ run'[c].awaiting = run[c].awaiting - 1 /\ run'[c].next = run[c].next
      /\ run'[c].last = run[c].last /\ run'[c].exists = run[c].exists
      /\ run'[c].jobs = run[c].jobs /\ run'[c].busy = run[c].busy
      /\ run'[c].outcome = run[c].outcome /\ run'[c].row = run[c].row
      /\ \/ /\ id \in run[c].ok /\ run'[c].ok = run[c].ok \ {id}
            /\ run'[c].nil = run[c].nil /\ run'[c].skipped = run[c].skipped
            /\ run'[c].batch = run[c].batch \cup {id}
         \/ /\ id \in run[c].nil /\ run'[c].nil = run[c].nil \ {id}
            /\ run'[c].ok = run[c].ok /\ run'[c].batch = run[c].batch
            /\ run'[c].skipped = run[c].skipped \cup {id}
  BY <1>1, <1>2 DEF RunType
<1>4. OnePlace(c)'
  BY <1>1, <1>3 DEF RunInv, OnePlace
<1>5. Outstanding(c)' = Outstanding(c) \ {id} /\ id \in Outstanding(c)
  <2>1. Held(c)' = Held(c)
    BY <1>3 DEF Held
  <2>2. id \notin run[c].jobs /\ id \notin Held(c)
    BY <1>1, <1>3 DEF RunInv, OnePlace, Held
  <2>3. id \in run[c].ok => id \notin run[c].nil
    BY <1>1 DEF RunInv, OnePlace
  <2> QED
    BY <1>3, <2>1, <2>2, <2>3 DEF Outstanding
<1>6. Counted(c)'
  <2>1. Cardinality(Outstanding(c)') = Cardinality(Outstanding(c)) - 1
    BY <1>5, OutstandingIds, FS_RemoveElement DEF IInv
  <2> QED
    BY <1>1, <1>3, <2>1 DEF RunInv, Counted, Fetching
<1>7. Fed(c)'
  <2>1. Fed(c)
    BY <1>1 DEF RunInv
  <2>2. run'[c].batch \cup Outstanding(c)' \subseteq run[c].batch \cup Outstanding(c)
    BY <1>3, <1>5
  <2>3. run[c].batch \cup run[c].skipped \cup Outstanding(c)
          \subseteq run'[c].batch \cup run'[c].skipped \cup Outstanding(c)'
    BY <1>3, <1>5
  <2>4. /\ run'[c].batch \cup Outstanding(c)' \subseteq (1..(run[c].next - 1)) \ run[c].exists
        /\ 1..(run[c].next - 1)
             \subseteq run[c].exists \cup run'[c].batch \cup run'[c].skipped \cup Outstanding(c)'
    BY <2>1, <2>2, <2>3 DEF Fed
  <2> QED
    BY <1>1, <1>3, <2>1, <2>4 DEF Fed, Storing, StatsLocs
<1>8. Known(c)' /\ Replied(c)'
  BY <1>1, <1>3 DEF RunInv, Known, Replied, Fetching, Storing
<1> QED
  BY <1>4, <1>6, <1>7, <1>8 DEF RunInv

\* With nothing outstanding, every id up to the newest is in the table, in
\* the batch or among the failed ones.
LEMMA NothingMissing ==
  ASSUME TypeOK, NEW c \in Callers, RunInv(c),
         pc[c] \in {"collect"} \cup Storing, run[c].awaiting = 0
  PROVE  1..run[c].last \subseteq run[c].exists \cup run[c].batch \cup run[c].skipped
<1>1. run[c] \in RunType
  BY DEF TypeOK
<1>2. Outstanding(c) = {}
  BY OutstandingIds DEF RunInv, Counted
<1>3. 1..run[c].last \subseteq 1..(run[c].next - 1)
  BY <1>1, FieldTypes, ServiceAssumption DEF RunInv, Fed
<1> QED
  BY <1>2, <1>3 DEF RunInv, Fed

LEMMA EndCollectInv ==
  ASSUME IInv, NEW c \in Callers, EndCollect(c)
  PROVE  RunInv(c)'
<1>1. /\ run[c] \in RunType /\ RunInv(c) /\ pc[c] = "collect"
      /\ UNCHANGED <<comics, xkcdLast>> /\ run[c].awaiting = 0
      /\ run[c].exists = comics
  BY DEF IInv, TypeOK, EndCollect, storeVars, RunInv, Known, Fetching
<1>2. \/ /\ run[c].batch = {} /\ pc'[c] = "release"
         /\ run'[c] = [run[c] EXCEPT !.outcome = "updated"]
      \/ /\ run[c].batch # {} /\ pc'[c] = "insert"
         /\ run' = run
  BY DEF IInv, TypeOK, EndCollect, Goto
<1>3. /\ run'[c].jobs = run[c].jobs /\ run'[c].busy = run[c].busy
      /\ run'[c].ok = run[c].ok /\ run'[c].nil = run[c].nil
      /\ run'[c].awaiting = run[c].awaiting /\ run'[c].next = run[c].next
      /\ run'[c].last = run[c].last /\ run'[c].exists = run[c].exists
      /\ run'[c].batch = run[c].batch /\ run'[c].skipped = run[c].skipped
      /\ pc'[c] = "insert" => run'[c].outcome = run[c].outcome
  BY <1>1, <1>2 DEF RunType
<1>4. OnePlace(c)' /\ Outstanding(c)' = Outstanding(c)
  BY <1>1, <1>3, SamePool DEF RunInv
<1>5. Counted(c)' /\ Fed(c)'
  BY <1>1, <1>2, <1>3, <1>4 DEF RunInv, Counted, Fed, Fetching, Storing, StatsLocs
<1>6. Known(c)' /\ Replied(c)'
  <2>1. CASE pc'[c] = "release"
    <3>1. 1..run[c].last \subseteq comics \cup run[c].skipped
      BY <1>1, <1>2, <2>1, NothingMissing DEF IInv
    <3> QED
      BY <1>1, <1>3, <2>1, <3>1 DEF Known, Replied, Fetching, Storing
  <2>2. CASE pc'[c] = "insert"
    BY <1>1, <1>2, <1>3, <2>2 DEF RunInv, Known, Replied, Fetching, Storing
  <2> QED
    BY <1>2, <2>1, <2>2
<1> QED
  BY <1>4, <1>5, <1>6 DEF RunInv

LEMMA StatementInv ==
  ASSUME IInv, NEW c \in Callers,
         Insert(c) \/ UpdateStats(c) \/ Truncate(c) \/ ResetStats(c)
  PROVE  RunInv(c)'
<1>1. /\ run[c] \in RunType /\ RunInv(c)
      /\ pc[c] \in {"insert", "updatestats", "truncate", "resetstats"}
  BY DEF IInv, TypeOK, Insert, UpdateStats, Truncate, ResetStats
<1>2. CASE Fail(c)
  BY <1>1, <1>2, FailInv DEF Fetching
<1>3. CASE ~Fail(c)
  <2>1. /\ UNCHANGED <<comics, xkcdLast>>
        /\ \/ pc[c] = "insert" /\ pc'[c] = "updatestats" /\ run' = run
           \/ /\ pc[c] = "updatestats" /\ pc'[c] = "commitadd"
              /\ run'[c] = [run[c] EXCEPT !.row = StatsOf(comics \cup run[c].batch)]
           \/ pc[c] = "truncate" /\ pc'[c] = "resetstats" /\ run' = run
           \/ /\ pc[c] = "resetstats" /\ pc'[c] = "commitdrop"
              /\ run'[c] = [run[c] EXCEPT !.row = ZeroStats]
    BY <1>3 DEF IInv, TypeOK, Insert, UpdateStats, Truncate, ResetStats, Goto, storeVars
  <2>2. /\ run'[c].jobs = run[c].jobs /\ run'[c].busy = run[c].busy
        /\ run'[c].ok = run[c].ok /\ run'[c].nil = run[c].nil
        /\ run'[c].awaiting = run[c].awaiting /\ run'[c].next = run[c].next
        /\ run'[c].last = run[c].last /\ run'[c].exists = run[c].exists
        /\ run'[c].batch = run[c].batch /\ run'[c].skipped = run[c].skipped
        /\ run'[c].outcome = run[c].outcome
        /\ pc'[c] = "commitadd" => run'[c].row = StatsOf(comics \cup run[c].batch)
        /\ pc'[c] = "commitdrop" => run'[c].row = ZeroStats
    BY <1>1, <2>1 DEF RunType
  <2>3. OnePlace(c)' /\ Outstanding(c)' = Outstanding(c)
    BY <1>1, <2>2, SamePool DEF RunInv
  <2>4. Counted(c)' /\ Fed(c)'
    BY <1>1, <2>1, <2>2, <2>3 DEF RunInv, Counted, Fed, Fetching, Storing, StatsLocs
  <2>5. Known(c)' /\ Replied(c)'
    BY <1>1, <2>1, <2>2 DEF RunInv, Known, Replied, Fetching, Storing
  <2> QED
    BY <2>3, <2>4, <2>5 DEF RunInv
<1> QED
  BY <1>2, <1>3

LEMMA CommitInv ==
  ASSUME IInv, NEW c \in Callers, Commit(c) \/ CommitError(c)
  PROVE  RunInv(c)'
<1>1. /\ run[c] \in RunType /\ RunInv(c) /\ UNCHANGED xkcdLast
      /\ pc[c] \in {"commitadd", "commitdrop"}
  BY DEF IInv, TypeOK, Commit, CommitError, Apply
<1>2. \/ /\ pc[c] = "commitadd" /\ pc'[c] = "publishupdate" /\ run' = run
         /\ comics' = comics \cup run[c].batch
      \/ pc[c] = "commitdrop" /\ pc'[c] = "publishreset" /\ run' = run
      \/ pc'[c] = "release" /\ run'[c] = [run[c] EXCEPT !.outcome = "error"]
  BY DEF IInv, TypeOK, Commit, CommitError, Apply, Goto
<1>3. /\ run'[c].jobs = run[c].jobs /\ run'[c].busy = run[c].busy
      /\ run'[c].ok = run[c].ok /\ run'[c].nil = run[c].nil
      /\ run'[c].awaiting = run[c].awaiting /\ run'[c].next = run[c].next
      /\ run'[c].last = run[c].last /\ run'[c].exists = run[c].exists
      /\ run'[c].batch = run[c].batch /\ run'[c].skipped = run[c].skipped
      /\ pc'[c] = "release" => run'[c].outcome = "error"
      /\ pc'[c] # "release" => run'[c].outcome = run[c].outcome
  BY <1>1, <1>2 DEF RunType
<1>4. OnePlace(c)' /\ Outstanding(c)' = Outstanding(c)
  BY <1>1, <1>3, SamePool DEF RunInv
<1>5. Counted(c)' /\ Fed(c)'
  BY <1>1, <1>2, <1>3, <1>4 DEF RunInv, Counted, Fed, Fetching, Storing, StatsLocs
<1>6. pc'[c] = "publishupdate" => 1..run[c].last \subseteq comics' \cup run[c].skipped
  <2>1. SUFFICES ASSUME pc'[c] = "publishupdate"
                 PROVE  1..run[c].last \subseteq comics' \cup run[c].skipped
    OBVIOUS
  <2>2. pc[c] = "commitadd" /\ comics' = comics \cup run[c].batch
    BY <1>2, <2>1
  <2>3. run[c].awaiting = 0 /\ run[c].exists = comics
    BY <1>1, <2>2 DEF RunInv, Counted, Known, Fetching, Storing
  <2> QED
    BY <1>1, <2>2, <2>3, NothingMissing DEF IInv, Storing
<1>7. Known(c)' /\ Replied(c)'
  BY <1>1, <1>2, <1>3, <1>6 DEF RunInv, Known, Replied, Fetching, Storing
<1> QED
  BY <1>4, <1>5, <1>7 DEF RunInv

LEMMA PublishInv ==
  ASSUME IInv, NEW c \in Callers, Publish(c)
  PROVE  RunInv(c)'
<1>1. /\ run[c] \in RunType /\ RunInv(c) /\ UNCHANGED <<comics, xkcdLast>>
      /\ pc[c] \in {"publishupdate", "publishreset"} /\ pc'[c] = "release"
  BY DEF IInv, TypeOK, Publish, Goto
<1>2. \/ /\ pc[c] = "publishupdate"
         /\ run'[c] = [run[c] EXCEPT !.outcome = "updated"]
      \/ run'[c] = [run[c] EXCEPT !.outcome = "dropped"]
  BY DEF IInv, TypeOK, Publish
<1>3. /\ run'[c].jobs = run[c].jobs /\ run'[c].busy = run[c].busy
      /\ run'[c].ok = run[c].ok /\ run'[c].nil = run[c].nil
      /\ run'[c].awaiting = run[c].awaiting /\ run'[c].next = run[c].next
      /\ run'[c].last = run[c].last /\ run'[c].exists = run[c].exists
      /\ run'[c].batch = run[c].batch /\ run'[c].skipped = run[c].skipped
      /\ run'[c].outcome = "updated" => pc[c] = "publishupdate"
  BY <1>1, <1>2 DEF RunType
<1>4. OnePlace(c)' /\ Outstanding(c)' = Outstanding(c)
  BY <1>1, <1>3, SamePool DEF RunInv
<1>5. Counted(c)' /\ Fed(c)'
  BY <1>1, <1>3, <1>4 DEF RunInv, Counted, Fed, Fetching, Storing, StatsLocs
<1>6. Known(c)' /\ Replied(c)'
  BY <1>1, <1>3 DEF RunInv, Known, Replied, Fetching, Storing
<1> QED
  BY <1>4, <1>5, <1>6 DEF RunInv

\* A reply of Stats: the table is part of the catalogue when it is counted,
\* and the catalogue has not shrunk when its newest id is read.
LEMMA ReadStatsInv ==
  ASSUME IInv, NEW c \in Callers, ReadStats(c)
  PROVE  RunInv(c)'
<1>1. /\ run[c] \in RunType /\ RunInv(c) /\ UNCHANGED <<comics, xkcdLast>>
      /\ xkcdLast \in 0..MaxID /\ comics \in SUBSET Ids
      /\ \/ /\ pc[c] = "readstats" /\ pc'[c] = "readlast"
            /\ run'[c] = [run[c] EXCEPT !.row = stats]
         \/ /\ pc[c] = "readlast" /\ pc'[c] = "statsreply"
            /\ run'[c] = [run[c] EXCEPT !.last = xkcdLast]
  BY DEF IInv, TypeOK, ReadStats, Goto, storeVars
<1>2. /\ run'[c].jobs = run[c].jobs /\ run'[c].busy = run[c].busy
      /\ run'[c].ok = run[c].ok /\ run'[c].nil = run[c].nil
      /\ run'[c].awaiting = run[c].awaiting /\ run'[c].next = run[c].next
      /\ run'[c].exists = run[c].exists /\ run'[c].outcome = run[c].outcome
      /\ run'[c].batch = run[c].batch /\ run'[c].skipped = run[c].skipped
      /\ pc'[c] = "readlast" => run'[c].row = stats /\ run'[c].last = run[c].last
      /\ pc'[c] = "statsreply" => run'[c].row = run[c].row /\ run'[c].last = xkcdLast
  BY <1>1 DEF RunType
<1>3. OnePlace(c)' /\ Outstanding(c)' = Outstanding(c)
  BY <1>1, <1>2, SamePool DEF RunInv
<1>4. Counted(c)'
  BY <1>1, <1>2, <1>3 DEF RunInv, Counted, Fetching
<1>5. Fed(c)'
  <2>1. /\ run[c].next = 1 /\ run'[c].last \in Nat /\ run'[c].last <= xkcdLast
    BY <1>1, <1>2, FieldTypes, ServiceAssumption DEF RunInv, Fed, StatsLocs
  <2> QED
    BY <1>1, <1>2, <1>3, <2>1 DEF RunInv, Fed, Storing
<1>6. stats.fetched <= xkcdLast
  <2>1. stats.fetched = Cardinality(comics)
    BY <1>1, StatsOfRow DEF IInv, StatsConsistent
  <2>2. comics \in SUBSET (1..xkcdLast)
    BY DEF IInv
  <2>3. IsFiniteSet(1..xkcdLast) /\ Cardinality(1..xkcdLast) = xkcdLast
    <3>1. xkcdLast \in Nat
      BY <1>1, ServiceAssumption
    <3>2. IsFiniteSet(1..xkcdLast)
      BY <3>1, FS_Interval
    <3>3. Cardinality(1..xkcdLast) = IF 1 > xkcdLast THEN 0 ELSE xkcdLast - 1 + 1
      BY <3>1, FS_Interval
    <3> QED
      BY <3>1, <3>2, <3>3
  <2>4. Cardinality(comics) <= Cardinality(1..xkcdLast)
    BY <2>2, <2>3, FS_Subset
  <2> QED
    BY <2>1, <2>3, <2>4
<1>7. Known(c)' /\ Replied(c)'
  BY <1>1, <1>2, <1>6 DEF RunInv, Known, Replied, Fetching, Storing
<1> QED
  BY <1>3, <1>4, <1>5, <1>7 DEF RunInv

-----------------------------------------------------------------------------
(* The inductive invariant *)

\* What a transaction applies keeps the row and the table together, and the
\* table inside the catalogue.
LEMMA ApplyStore ==
  ASSUME IInv, NEW c \in Callers, Apply(c)
  PROVE  stats' = StatsOf(comics') /\ comics' \subseteq 1..xkcdLast
<1>1. run[c] \in RunType /\ RunInv(c) /\ xkcdLast \in 0..MaxID
  BY DEF IInv, TypeOK
<1>2. CASE pc[c] = "commitadd" /\ comics' = comics \cup run[c].batch
  <2>1. run[c].batch \subseteq 1..xkcdLast
    <3>1. /\ run[c].batch \subseteq 1..(run[c].next - 1)
          /\ run[c].next <= run[c].last + 1 /\ run[c].last <= xkcdLast
      BY <1>1 DEF RunInv, Fed
    <3>2. run[c].next \in Nat /\ run[c].last \in Nat /\ xkcdLast \in Nat
      BY <1>1, FieldTypes, ServiceAssumption
    <3> QED
      BY <3>1, <3>2
  <2> QED
    BY <1>1, <1>2, <2>1 DEF IInv, Apply, RunInv, Known
<1>3. CASE pc[c] = "commitdrop" /\ comics' = {}
  BY <1>1, <1>3, StatsOfEmpty DEF Apply, RunInv, Known
<1> QED
  BY <1>2, <1>3 DEF Apply

LEMMA InitInv == Init => IInv
<1> SUFFICES ASSUME Init PROVE IInv
  OBVIOUS
<1>1. TypeOK
  BY InitType
<1>2. FlagHeldByOne
  BY DEF Init, FlagHeldByOne, Holding, UpdateLocs, DropLocs
<1>3. StatsConsistent
  BY StatsOfEmpty DEF Init, StatsConsistent
<1>4. \A c \in Callers : RunInv(c)
  BY FreshInv DEF Init
<1> QED
  BY <1>1, <1>2, <1>3, <1>4 DEF IInv, Init

\* Each step: the actor by its own lemma, everybody else by FrameInv.
LEMMA InvStep == IInv /\ [Next]_vars => IInv'
<1> SUFFICES ASSUME IInv, [Next]_vars PROVE IInv'
  OBVIOUS
<1>0. /\ TypeOK /\ TypeOK' /\ FlagHeldByOne'
      /\ StatsConsistent /\ comics \subseteq 1..xkcdLast
      /\ \A c \in Callers : RunInv(c)
  BY TypeStep, FlagStep DEF IInv
<1>1. /\ xkcdLast \in 0..MaxID /\ xkcdLast' \in 0..MaxID
      /\ run \in [Callers -> RunType] /\ pc \in [Callers -> Holding \cup StatsLocs \cup {"idle"}]
  BY <1>0 DEF TypeOK
\* A step of c that leaves the table and the catalogue.
<1>2. ASSUME NEW c \in Callers, RunInv(c)', UNCHANGED <<comics, stats, xkcdLast>>,
             \A d \in Callers \ {c} : run'[d] = run[d] /\ pc'[d] = pc[d]
      PROVE  IInv'
  <2>1. \A d \in Callers \ {c} : RunInv(d)'
    BY <1>0, <1>1, <1>2, FrameInv, ServiceAssumption
  <2> QED
    BY <1>0, <1>2, <2>1 DEF IInv, StatsConsistent
\* A step of nobody's handler.
<1>3. ASSUME UNCHANGED <<comics, stats, run, pc>>, xkcdLast <= xkcdLast'
      PROVE  IInv'
  <2>1. \A d \in Callers : RunInv(d)'
    BY <1>0, <1>1, <1>3, FrameInv
  <2>2. comics' \subseteq 1..xkcdLast'
    BY <1>0, <1>1, <1>3, ServiceAssumption
  <2> QED
    BY <1>0, <1>3, <2>1, <2>2 DEF IInv, StatsConsistent
<1>4. ASSUME NEW c \in Callers, Begin(c)
      PROVE  IInv'
  <2>1. /\ UNCHANGED <<comics, stats, xkcdLast>>
        /\ \A d \in Callers \ {c} : run'[d] = run[d] /\ pc'[d] = pc[d]
    BY <1>1, <1>4 DEF Begin, Update, Drop, Stats, Goto, storeVars
  <2> QED
    BY <1>2, <1>4, <2>1, BeginInv
<1>5. ASSUME NEW c \in Callers, ReadIDs(c) \/ ReadLastID(c)
      PROVE  IInv'
  <2>1. /\ UNCHANGED <<comics, stats, xkcdLast>>
        /\ \A d \in Callers \ {c} : run'[d] = run[d] /\ pc'[d] = pc[d]
    BY <1>1, <1>5 DEF ReadIDs, ReadLastID, Fail, Goto, storeVars
  <2> QED
    BY <1>2, <1>5, <2>1, ReadInv
<1>6. ASSUME NEW c \in Callers, Feed(c)
      PROVE  IInv'
  <2>1. /\ UNCHANGED <<comics, stats, xkcdLast>>
        /\ \A d \in Callers \ {c} : run'[d] = run[d] /\ pc'[d] = pc[d]
    BY <1>1, <1>6 DEF Feed, storeVars
  <2> QED
    BY <1>2, <1>6, <2>1, FeedInv
<1>7. ASSUME NEW c \in Callers, CloseJobs(c)
      PROVE  IInv'
  <2>1. /\ UNCHANGED <<comics, stats, xkcdLast>>
        /\ \A d \in Callers \ {c} : run'[d] = run[d] /\ pc'[d] = pc[d]
    BY <1>1, <1>7 DEF CloseJobs, Goto, storeVars
  <2> QED
    BY <1>2, <1>7, <2>1, CloseJobsInv
<1>8. ASSUME NEW c \in Callers, NEW w \in Workers, Worker(c, w)
      PROVE  IInv'
  <2>1. /\ UNCHANGED <<comics, stats, xkcdLast>>
        /\ \A d \in Callers \ {c} : run'[d] = run[d] /\ pc'[d] = pc[d]
    BY <1>1, <1>8 DEF Worker, TakeJob, SendComic, SendNil, storeVars
  <2> QED
    BY <1>2, <1>8, <2>1, WorkerInv
<1>9. ASSUME NEW c \in Callers, Collect(c)
      PROVE  IInv'
  <2>1. /\ UNCHANGED <<comics, stats, xkcdLast>>
        /\ \A d \in Callers \ {c} : run'[d] = run[d] /\ pc'[d] = pc[d]
    BY <1>1, <1>9 DEF Collect, storeVars
  <2> QED
    BY <1>2, <1>9, <2>1, CollectInv
<1>10. ASSUME NEW c \in Callers, EndCollect(c)
       PROVE  IInv'
  <2>1. /\ UNCHANGED <<comics, stats, xkcdLast>>
        /\ \A d \in Callers \ {c} : run'[d] = run[d] /\ pc'[d] = pc[d]
    BY <1>1, <1>10 DEF EndCollect, Goto, storeVars
  <2> QED
    BY <1>2, <1>10, <2>1, EndCollectInv
<1>11. ASSUME NEW c \in Callers, Insert(c) \/ UpdateStats(c) \/ Truncate(c) \/ ResetStats(c)
       PROVE  IInv'
  <2>1. /\ UNCHANGED <<comics, stats, xkcdLast>>
        /\ \A d \in Callers \ {c} : run'[d] = run[d] /\ pc'[d] = pc[d]
    BY <1>1, <1>11 DEF Insert, UpdateStats, Truncate, ResetStats, Fail, Goto, storeVars
  <2> QED
    BY <1>2, <1>11, <2>1, StatementInv
<1>12. ASSUME NEW c \in Callers, Commit(c) \/ CommitError(c)
       PROVE  IInv'
  <2>1. /\ UNCHANGED xkcdLast /\ pc[c] \in Holding
        /\ \A d \in Callers \ {c} : run'[d] = run[d] /\ pc'[d] = pc[d]
    BY <1>1, <1>12
    DEF Commit, CommitError, Apply, Goto, Holding, UpdateLocs, DropLocs
  <2>2. \A d \in Callers \ {c} : pc[d] \notin Holding
    BY <2>1 DEF IInv, FlagHeldByOne
  <2>3. \A d \in Callers \ {c} : RunInv(d)'
    BY <1>0, <1>1, <2>1, <2>2, FrameInv, ServiceAssumption
  <2>4. StatsConsistent' /\ comics' \subseteq 1..xkcdLast'
    BY <1>0, <1>12, <2>1, ApplyStore DEF Commit, CommitError, StatsConsistent
  <2> QED
    BY <1>0, <1>12, <2>3, <2>4, CommitInv DEF IInv
<1>13. ASSUME NEW c \in Callers, Publish(c)
       PROVE  IInv'
  <2>1. /\ UNCHANGED <<comics, stats, xkcdLast>>
        /\ \A d \in Callers \ {c} : run'[d] = run[d] /\ pc'[d] = pc[d]
    BY <1>1, <1>13 DEF Publish, Goto
  <2> QED
    BY <1>2, <1>13, <2>1, PublishInv
<1>14. ASSUME NEW c \in Callers, Release(c) \/ EndStats(c)
       PROVE  IInv'
  <2>1. /\ UNCHANGED <<comics, stats, xkcdLast>>
        /\ \A d \in Callers \ {c} : run'[d] = run[d] /\ pc'[d] = pc[d]
        /\ run'[c] = NoRun /\ pc'[c] = "idle"
    BY <1>1, <1>14 DEF Release, EndStats, Goto, storeVars
  <2>2. RunInv(c)'
    BY <1>1, <2>1, FreshInvNext
  <2> QED
    BY <1>2, <2>1, <2>2
<1>15. ASSUME NEW c \in Callers, ReadStats(c)
       PROVE  IInv'
  <2>1. /\ UNCHANGED <<comics, stats, xkcdLast>>
        /\ \A d \in Callers \ {c} : run'[d] = run[d] /\ pc'[d] = pc[d]
    BY <1>1, <1>15 DEF ReadStats, Goto, storeVars
  <2> QED
    BY <1>2, <1>15, <2>1, ReadStatsInv
<1>16. ASSUME (\E c \in Callers : Cancel(c)) \/ NewComic \/ Take \/ UNCHANGED vars
       PROVE  IInv'
  <2>1. UNCHANGED <<comics, stats, run, pc>>
    BY <1>16 DEF Cancel, NewComic, Take, vars, storeVars
  <2>2. xkcdLast <= xkcdLast'
    BY <1>1, <1>16, ServiceAssumption DEF Cancel, NewComic, Take, vars
  <2> QED
    BY <1>3, <2>1, <2>2
<1>17. CASE Crash
  <2>1. \A c \in Callers : RunInv(c)'
    BY <1>1, <1>17, FreshInvNext DEF Crash
  <2>2. StatsConsistent' /\ comics' \subseteq 1..xkcdLast'
    BY <1>0, <1>17, ApplyStore DEF Crash, StatsConsistent
  <2> QED
    BY <1>0, <2>1, <2>2 DEF IInv
<1> QED
  BY <1>4, <1>5, <1>6, <1>7, <1>8, <1>9, <1>10, <1>11, <1>12, <1>13, <1>14,
     <1>15, <1>16, <1>17 DEF Next, Handler

\* The inductive invariant holds in every reachable state.
THEOREM Invariant == Spec => []IInv
  BY InitInv, InvStep, PTL DEF Spec

-----------------------------------------------------------------------------
(* The safety properties *)

\* The atomic flag admits one of the concurrent Update and Drop calls.
THEOREM MutualExclusion == Spec => []FlagHeldByOne
<1>1. IInv => FlagHeldByOne
  BY DEF IInv
<1> QED
  BY <1>1, Invariant, PTL

\* The statistics row always describes the comics table.
THEOREM StatisticsExact == Spec => []StatsConsistent
<1>1. IInv => StatsConsistent
  BY DEF IInv
<1> QED
  BY <1>1, Invariant, PTL

\* The primary key never refuses a batch.
THEOREM BatchIsNew == Spec => []NoKeyCollision
<1>1. IInv => NoKeyCollision
  <2> SUFFICES ASSUME IInv, NEW c \in Callers, pc[c] \in Storing
               PROVE  run[c].batch # {} /\ run[c].batch \cap comics = {}
    BY DEF NoKeyCollision, Storing
  <2>1. run[c].exists = comics /\ run[c].batch # {}
    BY DEF IInv, RunInv, Known
  <2> QED
    BY <2>1 DEF IInv, RunInv, Fed
<1> QED
  BY <1>1, Invariant, PTL

\* A set of numbers up to n that misses one of them has fewer than n.
LEMMA FewerThan ==
  ASSUME NEW n \in Nat, NEW S \in SUBSET (1..n), NEW id \in (1..n) \ S
  PROVE  Cardinality(S) < n
<1>1. IsFiniteSet(1..n) /\ Cardinality(1..n) = n
  <2>1. IsFiniteSet(1..n) /\ Cardinality(1..n) = IF 1 > n THEN 0 ELSE n - 1 + 1
    BY FS_Interval
  <2> QED
    BY <2>1
<1>2. S # 1..n
  OBVIOUS
<1> DEFINE T == 1..n
<1>3. IsFiniteSet(T) /\ Cardinality(T) = n /\ S \in SUBSET T /\ S # T
  BY <1>1, <1>2
<1> HIDE DEF T
<1>4. /\ Cardinality(S) <= Cardinality(T)
      /\ Cardinality(T) # Cardinality(S)
      /\ IsFiniteSet(S)
  BY <1>3, FS_Subset
<1>5. Cardinality(S) \in Nat
  BY <1>4, FS_CardinalityType
<1> QED
  BY <1>3, <1>4, <1>5

\* The collector waits for exactly the jobs that are still under way, and no
\* send into a channel waits.
THEOREM JobsAccounted == Spec => []JobsConserved
<1>1. IInv => JobsConserved
  <2> SUFFICES ASSUME IInv, NEW c \in Callers
               PROVE  /\ run[c].awaiting = Cardinality(Outstanding(c))
                      /\ pc[c] = "feed" /\ run[c].next <= run[c].last
                           => Cardinality(run[c].jobs) < ChanCap(c)
                      /\ Held(c) # {}
                           => Cardinality(run[c].ok \cup run[c].nil) < ChanCap(c)
    BY DEF JobsConserved
  <2>1. TypeOK /\ OnePlace(c) /\ Fed(c) /\ Counted(c)
    BY DEF IInv, RunInv
  <2>2. run[c].last \in Nat /\ run[c].next \in Nat \ {0}
    BY <2>1, FieldTypes, ServiceAssumption DEF TypeOK
  <2>3. Outstanding(c) \subseteq 1..(run[c].next - 1)
    BY <2>1 DEF Fed
  <2>4. Outstanding(c) \subseteq 1..run[c].last
    BY <2>1, <2>2, <2>3 DEF Fed
  <2>5. ASSUME run[c].next <= run[c].last
        PROVE  Cardinality(run[c].jobs) < ChanCap(c)
    <3>1. run[c].jobs \in SUBSET (1..run[c].last)
      BY <2>4 DEF Outstanding
    <3>2. run[c].next \in 1..run[c].last
      BY <2>2, <2>5
    <3>3. run[c].next \notin run[c].jobs
      BY <2>2, <2>3 DEF Outstanding
    <3> QED
      BY <2>2, <3>1, <3>2, <3>3, FewerThan DEF ChanCap
  <2>6. ASSUME NEW id \in Held(c)
        PROVE  Cardinality(run[c].ok \cup run[c].nil) < ChanCap(c)
    <3>1. run[c].ok \cup run[c].nil \in SUBSET (1..run[c].last)
      BY <2>4 DEF Outstanding
    <3>2. id \in 1..run[c].last
      BY <2>4 DEF Outstanding
    <3>3. id \notin run[c].ok \cup run[c].nil
      BY <2>1 DEF OnePlace, Held
    <3> QED
      BY <2>2, <3>1, <3>2, <3>3, FewerThan DEF ChanCap
  <2> QED
    BY <2>1, <2>5, <2>6 DEF Counted
<1> QED
  BY <1>1, Invariant, PTL

\* A successful Update has stored every comic whose fetch did not fail.
THEOREM UpdateStoresAll == Spec => []UpdateComplete
<1>1. IInv => UpdateComplete
  BY DEF IInv, RunInv, Known, UpdateComplete
<1> QED
  BY <1>1, Invariant, PTL

\* A Stats reply never counts more comics than xkcd.com has.
THEOREM ReplyWithinTotal == Spec => []FetchedWithinTotal
<1>1. IInv => FetchedWithinTotal
  BY DEF IInv, RunInv, Replied, FetchedWithinTotal
<1> QED
  BY <1>1, Invariant, PTL

-----------------------------------------------------------------------------
(* Refinement: the update service implements the abstract store *)

Publishing == {"publishupdate", "publishreset"}

\* Who owes what: nobody, or the one handler that is about to publish.
LEMMA OwedIs ==
  ASSUME FlagHeldByOne
  PROVE  /\ (\A c \in Callers : pc[c] \notin Publishing) => Owed = "none"
         /\ \A c \in Callers : pc[c] = "publishupdate" => Owed = "update"
         /\ \A c \in Callers : pc[c] = "publishreset" => Owed = "reset"
  BY DEF FlagHeldByOne, Owed, Publishing, Holding, UpdateLocs, DropLocs

\* The same of the state a step leads to.
LEMMA OwedIsNext ==
  ASSUME FlagHeldByOne'
  PROVE  /\ (\A c \in Callers : pc'[c] \notin Publishing) => Owed' = "none"
         /\ \A c \in Callers : pc'[c] = "publishupdate" => Owed' = "update"
         /\ \A c \in Callers : pc'[c] = "publishreset" => Owed' = "reset"
  BY DEF FlagHeldByOne, Owed, Publishing, Holding, UpdateLocs, DropLocs

\* While c holds the flag nobody else is about to publish.
LEMMA OnlyHolderPublishes ==
  ASSUME FlagHeldByOne, NEW c \in Callers, pc[c] \in Holding
  PROVE  \A d \in Callers \ {c} : pc[d] \notin Publishing
  BY DEF FlagHeldByOne, Publishing, Holding, UpdateLocs, DropLocs

\* Both levels compute the row alike.
LEMMA SameStatsOf == \A S : Store!StatsOf(S) = StatsOf(S)
  BY DEF StatsOf, Store!StatsOf, Cardinality, Store!Cardinality

LEMMA MapsInit == Init => Store!StoreInit
<1> SUFFICES ASSUME Init PROVE Store!StoreInit
  OBVIOUS
<1>1. Owed = "none"
  BY DEF Init, Owed
<1> QED
  BY <1>1 DEF Init, Store!StoreInit, ZeroStats, Store!ZeroStats

\* An applied transaction is a change of the abstract store, announced or not.
LEMMA MapsApply ==
  ASSUME IInv, NEW c \in Callers, Apply(c), UNCHANGED events, Owed = "none",
         \/ Owed' = "none"
         \/ pc[c] = "commitadd" /\ Owed' = "update"
         \/ pc[c] = "commitdrop" /\ Owed' = "reset"
  PROVE  Store!StoreNext
<1>1. run[c] \in RunType /\ RunInv(c)
  BY DEF IInv, TypeOK
<1>2. CASE pc[c] = "commitadd"
  <2> DEFINE batch == run[c].batch
  <2>1. batch \in SUBSET Store!Ids
    BY <1>1, FieldTypes DEF Ids, Store!Ids
  <2>2. comics' = comics \cup batch /\ stats' = Store!StatsOf(comics')
    <3>1. comics' = comics \cup batch /\ stats' = StatsOf(comics')
      BY <1>1, <1>2 DEF Apply, RunInv, Known
    <3>2. StatsOf(comics') = Store!StatsOf(comics')
      BY SameStatsOf
    <3> QED
      BY <3>1, <3>2
  <2>3. batch # {} /\ batch \cap comics = {}
    BY <1>1, <1>2 DEF RunInv, Known, Fed, Storing
  <2>4. Owed' \in {"update", "none"}
    BY <1>2
  <2> HIDE DEF batch
  <2>5. Store!AddBatch(batch)
    BY <2>2, <2>3, <2>4 DEF Store!AddBatch
  <2> QED
    BY <2>1, <2>5 DEF Store!StoreNext
<1>3. CASE pc[c] = "commitdrop"
  <2>1. comics' = {} /\ stats' = Store!ZeroStats
    BY <1>1, <1>3 DEF Apply, RunInv, Known, ZeroStats, Store!ZeroStats
  <2>2. Store!Clear
    BY <1>3, <2>1 DEF Store!Clear
  <2> QED
    BY <2>2 DEF Store!StoreNext
<1> QED
  BY <1>2, <1>3 DEF Apply

LEMMA MapsStep == IInv /\ [Next]_vars => [Store!StoreNext]_(Store!storeVars)
<1> SUFFICES ASSUME IInv, [Next]_vars PROVE [Store!StoreNext]_(Store!storeVars)
  OBVIOUS
<1>0. /\ FlagHeldByOne /\ FlagHeldByOne'
      /\ pc \in [Callers -> Holding \cup StatsLocs \cup {"idle"}]
      /\ Len(events) \in Nat /\ events \in Seq({"update", "reset"})
  BY InvStep DEF IInv, TypeOK
\* A step that moves no handler into or out of its publishing.
<1>1. ASSUME UNCHANGED storeVars,
             \A c \in Callers : pc'[c] # pc[c] =>
               pc[c] \notin Publishing /\ pc'[c] \notin Publishing
      PROVE  UNCHANGED Store!storeVars
  <2>1. Owed' = Owed
    BY <1>1 DEF Owed, Publishing
  <2> QED
    BY <1>1, <2>1 DEF storeVars, Store!storeVars
<1>2. ASSUME NEW c \in Callers,
             \/ Begin(c) \/ ReadIDs(c) \/ ReadLastID(c) \/ Feed(c) \/ CloseJobs(c)
             \/ Collect(c) \/ EndCollect(c) \/ Insert(c) \/ UpdateStats(c)
             \/ Truncate(c) \/ ResetStats(c) \/ Release(c) \/ ReadStats(c) \/ EndStats(c)
             \/ Cancel(c)
      PROVE  UNCHANGED Store!storeVars
  <2>1. UNCHANGED storeVars
    BY <1>2 DEF Begin, Update, Drop, Stats, ReadIDs, ReadLastID, Feed, CloseJobs,
       Collect, EndCollect, Insert, UpdateStats, Truncate, ResetStats, Release,
       ReadStats, EndStats, Cancel, Fail
  <2>2. pc' = pc \/ (/\ pc[c] \notin Publishing
                     /\ \E loc : loc \notin Publishing /\ pc' = [pc EXCEPT ![c] = loc])
    BY <1>2 DEF Begin, Update, Drop, Stats, ReadIDs, ReadLastID, Feed, CloseJobs,
       Collect, EndCollect, Insert, UpdateStats, Truncate, ResetStats, Release,
       ReadStats, EndStats, Cancel, Fail, Goto, Publishing, StatsLocs
  <2> QED
    BY <1>0, <1>1, <2>1, <2>2
<1>3. ASSUME NEW c \in Callers, NEW w \in Workers, Worker(c, w)
      PROVE  UNCHANGED Store!storeVars
  BY <1>1, <1>3 DEF Worker, TakeJob, SendComic, SendNil
<1>4. ASSUME NEW c \in Callers, Commit(c)
      PROVE  Store!StoreNext
  <2>1. /\ Apply(c) /\ UNCHANGED events
        /\ \/ pc[c] = "commitadd" /\ pc'[c] = "publishupdate"
           \/ pc[c] = "commitdrop" /\ pc'[c] = "publishreset"
    BY <1>0, <1>4 DEF Commit, Goto
  <2>2. Owed = "none"
    BY <1>0, <2>1, OwedIs, OnlyHolderPublishes
    DEF Holding, UpdateLocs, DropLocs, Publishing
  <2>3. \/ pc[c] = "commitadd" /\ Owed' = "update"
        \/ pc[c] = "commitdrop" /\ Owed' = "reset"
    BY <1>0, <2>1, OwedIsNext
  <2> QED
    BY <2>1, <2>2, <2>3, MapsApply
<1>5. ASSUME NEW c \in Callers, CommitError(c)
      PROVE  [Store!StoreNext]_(Store!storeVars)
  <2>1. /\ pc[c] \in {"commitadd", "commitdrop"} /\ pc' = [pc EXCEPT ![c] = "release"]
        /\ UNCHANGED events
        /\ Apply(c) \/ UNCHANGED <<comics, stats>>
    BY <1>5 DEF CommitError, Goto
  <2>2. Owed = "none" /\ Owed' = "none"
    <3>1. \A d \in Callers : pc[d] \notin Publishing /\ pc'[d] \notin Publishing
      BY <1>0, <2>1, OnlyHolderPublishes DEF Holding, UpdateLocs, DropLocs, Publishing
    <3> QED
      BY <1>0, <3>1, OwedIs, OwedIsNext
  <2>3. CASE Apply(c)
    BY <2>1, <2>2, <2>3, MapsApply
  <2>4. CASE UNCHANGED <<comics, stats>>
    BY <2>1, <2>2, <2>4 DEF Store!storeVars
  <2> QED
    BY <2>1, <2>3, <2>4
<1>6. ASSUME NEW c \in Callers, Publish(c)
      PROVE  Store!StoreNext
  <2>1. /\ UNCHANGED <<comics, stats>> /\ pc' = [pc EXCEPT ![c] = "release"]
        /\ Len(events') <= MaxEvents
        /\ \/ /\ pc[c] = "publishupdate"
              /\ events' = events \/ events' = Append(events, "update")
           \/ /\ pc[c] = "publishreset"
              /\ events' = events \/ events' = Append(events, "reset")
    BY <1>6 DEF Publish, Goto
  <2>2. /\ pc[c] = "publishupdate" => Owed = "update"
        /\ pc[c] = "publishreset" => Owed = "reset"
    BY <1>0, OwedIs
  <2>3. Owed' = "none"
    <3>1. \A d \in Callers : pc'[d] \notin Publishing
      BY <1>0, <2>1, OnlyHolderPublishes DEF Holding, UpdateLocs, DropLocs, Publishing
    <3> QED
      BY <1>0, <3>1, OwedIsNext
  <2>4. CASE events' = events
    BY <2>1, <2>2, <2>3, <2>4 DEF Store!Forget, Store!StoreNext
  <2>5. CASE events' # events
    <3>1. events' = Append(events, Owed) /\ Owed # "none"
      BY <2>1, <2>2, <2>5
    <3>2. Len(events') = Len(events) + 1
      BY <1>0, <2>1, <2>5
    <3>3. Len(events) < MaxEvents
      BY <1>0, <2>1, <3>2, ServiceAssumption
    <3> QED
      BY <2>1, <2>3, <3>1, <3>3 DEF Store!Announce, Store!StoreNext
  <2> QED
    BY <2>4, <2>5
<1>7. ASSUME Crash
      PROVE  [Store!StoreNext]_(Store!storeVars)
  <2>1. Owed' = "none" /\ UNCHANGED events
    BY <1>7 DEF Crash, Owed
  <2>2. CASE \E c \in Callers : Apply(c)
    <3>1. PICK c \in Callers : Apply(c)
      BY <2>2
    <3>2. \A d \in Callers : pc[d] \notin Publishing
      BY <1>0, <3>1, OnlyHolderPublishes
      DEF Apply, Holding, UpdateLocs, DropLocs, Publishing
    <3>3. Owed = "none"
      BY <1>0, <3>2, OwedIs
    <3> QED
      BY <2>1, <3>1, <3>3, MapsApply
  <2>3. CASE UNCHANGED <<comics, stats>>
    BY <2>1, <2>3 DEF Store!storeVars, Store!Forget, Store!StoreNext
  <2> QED
    BY <1>7, <2>2, <2>3 DEF Crash
<1>8. ASSUME NewComic \/ UNCHANGED vars
      PROVE  UNCHANGED Store!storeVars
  BY <1>1, <1>8 DEF NewComic, vars, storeVars
<1>9. ASSUME Take
      PROVE  Store!StoreNext
  <2>1. Owed' = Owed
    BY <1>9 DEF Take, Owed
  <2> QED
    BY <1>9, <2>1 DEF Take, Store!Take, Store!StoreNext
<1> QED
  BY <1>2, <1>3, <1>4, <1>5, <1>6, <1>7, <1>8, <1>9 DEF Next, Handler

\* Through every interleaving, failure, cancellation and crash, the service's
\* database and events behave as the abstract store: whole batches, a row
\* that fits, and at most one event per change, published after it.
THEOREM Refinement == Spec => ImplementsStore
  BY MapsInit, MapsStep, Invariant, PTL DEF Spec, ImplementsStore, Store!StoreSpec
=============================================================================
