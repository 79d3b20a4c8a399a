-------------------------- MODULE SearchIndexProofs --------------------------
(***************************************************************************)
(* Proofs about SearchIndex, for any number of readers, comics, keywords   *)
(* and events: types, the lock, the freshness of the index, and what       *)
(* Search and ISearch return.                                              *)
(*                                                                         *)
(* The heart is Told, which says what is known of the index as long as the *)
(* event of the last change has not been lost: it is still to be sent, or  *)
(* to be handled, or the index that is published is that of the table.  A  *)
(* reset says so only because the table it announces is still empty.       *)
(***************************************************************************)
EXTENDS SearchIndex, RankingProofs, SequenceTheorems

WriterLocs == {"idle", "lock", "drain", "read", "fill", "failed", "reset", "done"}
ReaderLocs == {"idle", "blocked", "norm", "fetch", "reply", "answer"}

Located ==
  /\ \A w \in Writers : pc[w] \in WriterLocs
  /\ \A r \in Readers : pc[r] \in ReaderLocs
  /\ \A r \in Readers : pc[r] # "idle" => phase = "serving"
  /\ \A w \in Writers : pc[w] # "idle" => phase # "down"

\* The lock belongs to the writer that has got past it, and no reader is inside
\* while that one works.
Locking ==
  /\ \A w \in Writers : pc[w] = "drain" \/ Rewriting(w) <=> owner = w
  /\ \A w \in Writers : Rewriting(w) => Inside = {}

Jobs ==
  /\ job["sched"] = "update"
  /\ \A w \in Writers : pc[w] \in {"read", "fill", "failed"} => job[w] = "update"
  /\ \A w \in Writers : pc[w] \in {"reset", "done"} => job[w] = "reset"

\* The index is that of the table shown, less the rows a writer has still to do.
Building ==
  /\ \A w \in Writers :
       pc[w] = "fill" => todo[w] \subseteq shown /\ index = IndexOf(shown \ todo[w])
  /\ (\A w \in Writers : pc[w] # "fill") => index = IndexOf(shown)

\* What is owed, or on its way, is true of the table; see above.
Told ==
  /\ owed = "reset" => comics = {}
  /\ pc["sub"] = "failed" /\ events = <<>> /\ owed = "none" => lost
  /\ ~lost /\ owed = "none" =>
       /\ events # <<>> /\ events[Len(events)] = "reset" => comics = {}
       /\ events = <<>> /\ pc["sub"] # "idle" /\ job["sub"] = "reset" => comics = {}
       /\ events = <<>> /\ pc["sub"] \in {"fill", "done"} => shown = comics
       /\ events = <<>> /\ pc["sub"] = "idle"
            /\ (phase = "serving" \/ (phase = "booting" /\ pc["sched"] = "fill"))
            => shown = comics

\* What is known of a reader that has seen the table as it is.
Answered(r) ==
  /\ pc[r] \in {"fetch", "reply", "answer"}
  /\ pc[r] = "fetch" => \A i \in comics : scores[r][i] = Common(r, i)
  /\ pc[r] = "reply" => IsTop(r, MoreInCommon(r))
  /\ pc[r] = "answer" => IsTop(r, MoreInCommon(r) \cup LargerPart(r))

Answers == \A r \in current : Answered(r)

IInv == TypeOK /\ Located /\ Locking /\ Jobs /\ Building /\ Told /\ Answers

-----------------------------------------------------------------------------
(* Constants and single values *)

LEMMA WritersAre ==
  /\ "sched" \in Writers /\ "sub" \in Writers /\ "sched" # "sub" /\ "none" \notin Writers
  /\ \A w \in Writers : w = "sched" \/ w = "sub"
  /\ \A r \in Readers : r \notin Writers
BY ReaderAssumption DEF Writers

\* The comics that exist are finitely many, and each has finitely many keywords.
LEMMA FiniteData ==
  /\ \A S \in SUBSET Ids : IsFiniteSet(S) /\ Cardinality(S) \in Nat
  /\ \A i \in Ids : \A K : IsFiniteSet(WordsOf[i] \cap K) /\ Cardinality(WordsOf[i] \cap K) \in Nat
  /\ \A i \in Ids : IsFiniteSet(WordsOf[i]) /\ Cardinality(WordsOf[i]) \in Nat
<1>1. IsFiniteSet(Ids)
  BY StoreAssumption, FS_Interval DEF Ids
<1>2. ASSUME NEW S \in SUBSET Ids
      PROVE  IsFiniteSet(S) /\ Cardinality(S) \in Nat
  BY <1>1, FS_Subset, FS_CardinalityType
<1>3. ASSUME NEW T \in SUBSET Words
      PROVE  IsFiniteSet(T) /\ Cardinality(T) \in Nat
  BY StoreAssumption, FS_Subset, FS_CardinalityType
<1>4. \A i \in Ids : WordsOf[i] \in SUBSET Words
  BY StoreAssumption DEF Ids
<1>5. ASSUME NEW i \in Ids, NEW K
      PROVE  WordsOf[i] \cap K \in SUBSET Words
  BY <1>4
<1> QED
  BY <1>2, <1>3, <1>4, <1>5

\* The statistics of a set of comics are a row of naturals.
LEMMA StatsOfType ==
  ASSUME NEW S \in SUBSET Ids
  PROVE  StatsOf(S) \in StatsRow
<1> DEFINE Pairs == {p \in S \X Words : p[2] \in WordsOf[p[1]]}
           Used == UNION {WordsOf[i] : i \in S}
<1>1. IsFiniteSet(S) /\ Cardinality(S) \in Nat
  BY FiniteData
<1>2. Cardinality(Pairs) \in Nat
  <2>1. IsFiniteSet(S \X Words)
    BY <1>1, StoreAssumption, FS_Product
  <2>2. Pairs \in SUBSET (S \X Words)
    OBVIOUS
  <2> HIDE DEF Pairs
  <2> QED
    BY <2>1, <2>2, FS_Subset, FS_CardinalityType
<1>3. Cardinality(Used) \in Nat
  <2>1. Used \in SUBSET Words
    BY StoreAssumption DEF Ids
  <2> HIDE DEF Used
  <2> QED
    BY <2>1, StoreAssumption, FS_Subset, FS_CardinalityType
<1> HIDE DEF Pairs, Used
<1>4. StatsOf(S) = [fetched |-> Cardinality(S), total |-> Cardinality(Pairs),
                    unique |-> Cardinality(Used)]
  BY DEF StatsOf, Pairs, Used
<1> QED
  BY <1>1, <1>2, <1>3, <1>4 DEF StatsRow

\* An index is typed, and that of no comics lists nothing.
LEMMA IndexOfType ==
  /\ \A S \in SUBSET Ids : IndexOf(S) \in [Words -> SUBSET Ids]
  /\ \A S : IndexOf({}) = IndexOf(S \ S)
BY DEF IndexOf

\* A list of keywords, none of them twice.
AreKeywords(p) == p \in Seq(Words) /\ IsInjective(p)

\* What Norm returns is one.
LEMMA NormType ==
  ASSUME NEW phrase \in Seq(DOMAIN Stem)
  PROVE  AreKeywords(Norm(phrase))
<1> DEFINE p == Norm(phrase)
<1>1. /\ p \in Seq(Stems) /\ IsInjective(p)
      /\ Range(p) = {Stem[phrase[j]] : j \in 1..Len(phrase)} \ StopWords
  BY NormKeepsFirst DEF KeptFirst
<1>2. Range(p) \subseteq Words
  <2>1. \A j \in 1..Len(phrase) : phrase[j] \in DOMAIN Stem
    OBVIOUS
  <2> QED
    BY <1>1, <2>1, VocabularyAssumption
<1> HIDE DEF p
<1>3. p \in Seq(Words)
  <2>1. \A j \in 1..Len(p) : p[j] \in Words
    BY <1>1, <1>2 DEF Range
  <2> QED
    BY <1>1, <2>1, SeqDef
<1> QED
  BY <1>1, <1>3 DEF AreKeywords, p

\* What Norm makes of a request: no keyword twice, and at least one comic.
LEMMA QueryType ==
  /\ \A path : \A q \in Queries(path) :
       AreKeywords(q.keywords) /\ q.limit \in Nat
  /\ AreKeywords(NoQuery.keywords) /\ NoQuery.limit \in Nat
<1>1. ASSUME NEW path, NEW q \in Queries(path)
      PROVE  AreKeywords(q.keywords) /\ q.limit \in Nat
  <2>1. PICK p \in Requests : q = [keywords |-> Norm(p.phrase), limit |-> p.limit]
    BY DEF Queries
  <2>2. AreKeywords(Norm(p.phrase)) /\ p.limit \in Nat
    BY RequestAssumption, NormType
  <2>3. q.keywords = Norm(p.phrase) /\ q.limit = p.limit
    BY <2>1
  <2> QED
    BY <2>2, <2>3
<1>2. AreKeywords(NoQuery.keywords) /\ NoQuery.limit \in Nat
  BY DEF NoQuery, AreKeywords, IsInjective
<1> QED
  BY <1>1, <1>2

\* The events an update service announces.
Kinds == {"update", "reset"}

\* The oldest element of a queue leaves it: what was last stays last.
LEMMA QueueTail ==
  ASSUME NEW E \in Seq(Kinds), E # <<>>
  PROVE  /\ Tail(E) \in Seq(Kinds)
         /\ Head(E) \in Kinds
         /\ Tail(E) = <<>> => Head(E) = E[Len(E)]
         /\ Tail(E) # <<>> => Tail(E)[Len(Tail(E))] = E[Len(E)]
<1>1. /\ Head(E) \in Kinds /\ Tail(E) \in Seq(Kinds) /\ Len(Tail(E)) = Len(E) - 1
      /\ \A i \in 1..Len(Tail(E)) : Tail(E)[i] = E[i + 1]
  BY HeadTailProperties
<1>2. Len(E) \in Nat /\ Len(E) # 0 /\ Head(E) = E[1]
  BY EmptySeq
<1>3. Tail(E) = <<>> <=> Len(Tail(E)) = 0
  BY <1>1, EmptySeq
<1>4. Tail(E) = <<>> => Len(E) = 1
  BY <1>1, <1>2, <1>3
<1>5. ASSUME Tail(E) # <<>>
      PROVE  Len(Tail(E)) \in 1..Len(Tail(E)) /\ Len(Tail(E)) + 1 = Len(E)
  BY <1>1, <1>2, <1>3, <1>5
<1> QED
  BY <1>1, <1>2, <1>4, <1>5

\* So it does when the oldest n leave.
LEMMA QueueSuffix ==
  ASSUME NEW E \in Seq(Kinds), NEW n \in 0..Len(E), NEW F, F = SubSeq(E, n + 1, Len(E))
  PROVE  /\ F \in Seq(Kinds)
         /\ F # <<>> => F[Len(F)] = E[Len(E)]
         /\ n < Len(E) => F # <<>>
<1>1. n + 1 \in Int /\ Len(E) \in Int /\ n >= 0 /\ n <= Len(E)
  OBVIOUS
<1>2. \A i \in (n + 1)..Len(E) : E[i] \in Kinds
  BY <1>1
<1>3. /\ F \in Seq(Kinds)
      /\ Len(F) = IF n + 1 <= Len(E) THEN Len(E) - (n + 1) + 1 ELSE 0
      /\ \A i \in 1..(Len(E) - (n + 1) + 1) : F[i] = E[n + 1 + i - 1]
  BY <1>1, <1>2, SubSeqProperties
<1>4. F = <<>> <=> Len(F) = 0
  BY <1>3, EmptySeq
<1>5. ASSUME F # <<>>
      PROVE  F[Len(F)] = E[Len(E)]
  <2>1. Len(F) = Len(E) - n /\ Len(E) - n \in 1..(Len(E) - (n + 1) + 1)
    BY <1>1, <1>3, <1>4, <1>5
  <2>2. n + 1 + (Len(E) - n) - 1 = Len(E)
    BY <1>1
  <2> QED
    BY <1>3, <2>1, <2>2
<1>6. n < Len(E) => F # <<>>
  BY <1>1, <1>3, <1>4
<1> QED
  BY <1>3, <1>5, <1>6

\* And when the n-th leaves that is not the last one itself.
LEMMA QueueLoss ==
  ASSUME NEW E \in Seq(Kinds), NEW n \in DOMAIN E, NEW F,
         F = SubSeq(E, 1, n - 1) \o SubSeq(E, n + 1, Len(E))
  PROVE  /\ F \in Seq(Kinds)
         /\ n # Len(E) => F # <<>> /\ F[Len(F)] = E[Len(E)]
<1>1. n \in 1..Len(E) /\ Len(E) \in Nat /\ n - 1 \in Int /\ n + 1 \in Int /\ n \in 0..Len(E)
  OBVIOUS
<1>2. PICK A : A = SubSeq(E, 1, n - 1)
  OBVIOUS
<1>3. PICK B : B = SubSeq(E, n + 1, Len(E))
  OBVIOUS
<1>4. A \in Seq(Kinds) /\ Len(A) \in Nat
  <2>1. \A i \in 1..(n - 1) : E[i] \in Kinds
    BY <1>1
  <2>2. A \in Seq(Kinds)
    BY <1>1, <1>2, <2>1, SubSeqProperties
  <2> QED
    BY <2>2
<1>5. /\ B \in Seq(Kinds)
      /\ B # <<>> => B[Len(B)] = E[Len(E)]
      /\ n < Len(E) => B # <<>>
  BY <1>1, <1>3, QueueSuffix, Zenon
<1>6. Len(B) \in Nat /\ (B # <<>> => Len(B) > 0)
  BY <1>5, EmptySeq
<1>7. F = A \o B
  BY <1>2, <1>3
<1>8. /\ F \in Seq(Kinds) /\ Len(F) = Len(A) + Len(B)
      /\ \A i \in 1..(Len(A) + Len(B)) : F[i] = IF i <= Len(A) THEN A[i] ELSE B[i - Len(A)]
  <2>1. /\ A \o B \in Seq(Kinds) /\ Len(A \o B) = Len(A) + Len(B)
        /\ \A i \in 1..(Len(A) + Len(B)) :
             (A \o B)[i] = IF i <= Len(A) THEN A[i] ELSE B[i - Len(A)]
    BY <1>4, <1>5, ConcatProperties, Zenon
  <2> QED
    BY <1>7, <2>1, Zenon
<1>9. F = <<>> <=> Len(F) = 0
  BY <1>8, EmptySeq
<1>10. ASSUME B # <<>>
       PROVE  F # <<>> /\ F[Len(F)] = B[Len(B)]
  <2>1. /\ Len(F) # 0 /\ Len(F) \in 1..(Len(A) + Len(B))
        /\ ~(Len(F) <= Len(A)) /\ Len(F) - Len(A) = Len(B)
    BY <1>4, <1>6, <1>8, <1>10
  <2> QED
    BY <1>8, <1>9, <2>1
<1>11. n # Len(E) => n < Len(E)
  BY <1>1
<1> QED
  BY <1>5, <1>8, <1>10, <1>11, Zenon

-----------------------------------------------------------------------------
(* What a step leaves alone *)

\* A reader whose lookup and answer are untouched keeps them, as long as the
\* table stays.
LEMMA AnswerKept ==
  ASSUME NEW r, Answered(r), UNCHANGED comics, pc'[r] = pc[r], query'[r] = query[r],
         scores'[r] = scores[r], reply'[r] = reply[r]
  PROVE  Answered(r)'
<1>1. \A i : Common(r, i)' = Common(r, i)
  BY DEF Common
<1>2. Matches(r)' = Matches(r)
  BY <1>1 DEF Matches
<1>3. MoreInCommon(r)' = MoreInCommon(r)
  BY <1>1 DEF MoreInCommon
<1>4. LargerPart(r)' = LargerPart(r)
  BY <1>1 DEF LargerPart
<1>5. IsTop(r, MoreInCommon(r))' <=> IsTop(r, MoreInCommon(r))
  BY <1>2, <1>3 DEF IsTop
<1>6. IsTop(r, MoreInCommon(r) \cup LargerPart(r))'
        <=> IsTop(r, MoreInCommon(r) \cup LargerPart(r))
  BY <1>2, <1>3, <1>4 DEF IsTop
<1> QED
  BY <1>1, <1>5, <1>6 DEF Answered

LEMMA AnswersKept ==
  ASSUME Answers, UNCHANGED comics, current' \subseteq current,
         \A r \in current' : /\ pc'[r] = pc[r] /\ query'[r] = query[r]
                             /\ scores'[r] = scores[r] /\ reply'[r] = reply[r]
  PROVE  Answers'
<1> SUFFICES ASSUME NEW r \in current'
             PROVE  Answered(r)'
  BY DEF Answers
<1>1. Answered(r)
  BY DEF Answers
<1> QED
  BY <1>1, AnswerKept

\* A step of the store or of the connection leaves writers and readers where
\* they are.
LEMMA PlacesKept ==
  ASSUME IInv, UNCHANGED <<indexVars, owner, phase, pc, job, todo>>
  PROVE  Located' /\ Locking' /\ Jobs' /\ Building'
BY DEF IInv, Located, Locking, Jobs, Building, Rewriting, Inside, indexVars

\* A reader that gets in only while no writer has the lock disturbs none.
LEMMA ReaderMoves ==
  ASSUME IInv, NEW r \in Readers, NEW x \in ReaderLocs,
         pc' = [pc EXCEPT ![r] = x], phase = "serving",
         x \in {"norm", "fetch", "reply"} => owner = "none" \/ r \in Inside,
         UNCHANGED <<storeVars, indexVars, owner, phase, job, todo, lost>>
  PROVE  Located' /\ Locking' /\ Jobs' /\ Building' /\ Told'
<1>1. pc'[r] = x /\ \A p \in Writers \cup Readers : p # r => pc'[p] = pc[p]
  BY DEF IInv, TypeOK
<1>2. \A w \in Writers : pc'[w] = pc[w] /\ (Rewriting(w)' <=> Rewriting(w))
  BY <1>1, WritersAre DEF Rewriting
<1>3. Located'
  BY <1>1, <1>2 DEF IInv, Located
<1>4. \A w \in Writers : Rewriting(w) => Inside' = {}
  <2> SUFFICES ASSUME NEW w \in Writers, Rewriting(w), NEW s \in Inside'
               PROVE  FALSE
    OBVIOUS
  <2>1. owner = w /\ Inside = {}
    BY DEF IInv, Locking
  <2>2. s \in Readers /\ pc'[s] \in {"norm", "fetch", "reply"}
    BY DEF Inside
  <2>3. s = r
    BY <1>1, <2>1, <2>2 DEF Inside
  <2> QED
    BY <1>1, <2>1, <2>2, <2>3, WritersAre
<1>5. Locking'
  BY <1>2, <1>4 DEF IInv, Locking
<1>6. Jobs' /\ Building'
  BY <1>2 DEF IInv, Jobs, Building, indexVars
<1>7. Told'
  BY <1>2, WritersAre DEF IInv, Told, storeVars, indexVars
<1> QED
  BY <1>3, <1>5, <1>6, <1>7

\* A writer moves on.
LEMMA WriterMoves ==
  ASSUME IInv, NEW w \in Writers, NEW x \in WriterLocs, pc' = [pc EXCEPT ![w] = x]
  PROVE  /\ pc' \in [Writers \cup Readers -> PCs]
         /\ pc'[w] = x /\ \A p \in Writers \cup Readers : p # w => pc'[p] = pc[p]
         /\ \A v \in Writers : v # w => (Rewriting(v)' <=> Rewriting(v))
         /\ Rewriting(w)' <=> x \in {"read", "fill", "failed", "reset", "done"}
         /\ Inside' = Inside
         /\ x # "idle" /\ UNCHANGED phase /\ phase # "down" => Located'
<1>1. /\ pc' \in [Writers \cup Readers -> PCs]
      /\ pc'[w] = x /\ \A p \in Writers \cup Readers : p # w => pc'[p] = pc[p]
  BY DEF IInv, TypeOK, WriterLocs, PCs
<1>2. \A v \in Writers : v # w => (Rewriting(v)' <=> Rewriting(v))
  BY <1>1 DEF Rewriting
<1>3. Rewriting(w)' <=> x \in {"read", "fill", "failed", "reset", "done"}
  BY <1>1 DEF Rewriting
<1>4. Inside' = Inside
  BY <1>1, WritersAre DEF Inside
<1>5. ASSUME x # "idle", UNCHANGED phase, phase # "down"
      PROVE  Located'
  BY <1>1, <1>5, WritersAre DEF IInv, Located
<1> QED
  BY <1>1, <1>2, <1>3, <1>4, <1>5

-----------------------------------------------------------------------------
(* The store and the connection *)

LEMMA InitInv == Init => IInv
<1> SUFFICES ASSUME Init
             PROVE  IInv
  OBVIOUS
<1>1. TypeOK
  <2>1. index \in [Words -> SUBSET Ids]
    BY IndexOfType DEF Init
  <2>2. NoScores \in [Ids -> Nat]
    BY DEF NoScores
  <2>3. ZeroStats \in StatsRow
    BY DEF ZeroStats, StatsRow
  <2>4. pc \in [Writers \cup Readers -> PCs] /\ job \in [Writers -> {"update", "reset"}]
        /\ todo \in [Writers -> SUBSET Ids]
    BY DEF Init, PCs
  <2>5. /\ query \in [Readers -> Queries("search") \cup Queries("isearch") \cup {NoQuery}]
        /\ scores \in [Readers -> [Ids -> Nat]]
        /\ reply \in [Readers -> Seq(Ids)]
    BY <2>2 DEF Init
  <2>6. comics \in SUBSET Ids /\ stats \in StatsRow /\ owed \in {"none", "update", "reset"}
        /\ events \in Seq({"update", "reset"})
    BY <2>3 DEF Init, StoreInit
  <2> QED
    BY <2>1, <2>4, <2>5, <2>6 DEF Init, TypeOK
<1>2. Located /\ Locking /\ Jobs
  BY WritersAre DEF Init, Located, Locking, Jobs, Rewriting, Inside, WriterLocs, ReaderLocs
<1>3. Building /\ Told /\ Answers
  BY WritersAre DEF Init, StoreInit, Building, Told, Answers
<1> QED
  BY <1>1, <1>2, <1>3 DEF IInv

LEMMA ChangeInv == IInv /\ Change => IInv'
<1> SUFFICES ASSUME IInv, Change
             PROVE  IInv'
  OBVIOUS
<1>1. comics' \in SUBSET Ids /\ stats' \in StatsRow /\ events' = events
      /\ owed' \in {"none", "update", "reset"} /\ (owed' = "reset" => comics' = {})
  <2>1. ASSUME NEW batch \in SUBSET Ids, AddBatch(batch)
        PROVE  <1>1!:
    <3>1. comics' \in SUBSET Ids
      BY <2>1 DEF AddBatch, IInv, TypeOK
    <3> QED
      BY <2>1, <3>1, StatsOfType DEF AddBatch
  <2>2. ASSUME Clear
        PROVE  <1>1!:
    BY <2>2 DEF Clear, ZeroStats, StatsRow
  <2> QED
    BY <2>1, <2>2 DEF Change
<1>2. /\ lost' = (owed' = "none") /\ current' = {}
      /\ UNCHANGED <<index, shown, owner, phase, attached, pc, job, todo, query, scores, reply>>
  BY DEF Change, indexVars, procVars
<1>3. TypeOK'
  BY <1>1, <1>2 DEF IInv, TypeOK
<1>4. Located' /\ Locking' /\ Jobs' /\ Building'
  BY <1>2, PlacesKept DEF indexVars
<1>5. Told'
  BY <1>1, <1>2 DEF Told
<1>6. Answers'
  BY <1>2 DEF Answers
<1> QED
  BY <1>3, <1>4, <1>5, <1>6 DEF IInv

LEMMA PublishInv == IInv /\ Publish => IInv'
<1> SUFFICES ASSUME IInv, Publish
             PROVE  IInv'
  OBVIOUS
<1>1. UNCHANGED <<comics, stats, index, shown, owner, phase, attached, pc, job, todo,
                  query, scores, reply, current>>
  BY DEF Publish, Announce, Forget, indexVars, procVars, readVars
<1>2. CASE Announce /\ UNCHANGED lost
  <2>1. /\ events \in Seq(Kinds) /\ owed \in Kinds /\ owed' = "none"
        /\ events' = Append(events, owed)
    BY <1>2 DEF Announce, IInv, TypeOK, Kinds
  <2>2. events' \in Seq(Kinds) /\ events' # <<>> /\ events'[Len(events')] = owed
    BY <2>1, AppendProperties
  <2>3. TypeOK'
    BY <1>1, <1>2, <2>1, <2>2 DEF IInv, TypeOK, Kinds
  <2>4. Told'
    BY <1>1, <1>2, <2>1, <2>2 DEF IInv, Told
  <2> QED
    BY <1>1, <2>3, <2>4, PlacesKept, AnswersKept DEF IInv, indexVars
<1>3. CASE Forget /\ lost' = TRUE
  <2>1. TypeOK'
    BY <1>1, <1>3 DEF IInv, TypeOK, Forget
  <2>2. Told'
    BY <1>1, <1>3 DEF Told, Forget
  <2> QED
    BY <1>1, <2>1, <2>2, PlacesKept, AnswersKept DEF IInv, indexVars
<1> QED
  BY <1>2, <1>3 DEF Publish

LEMMA ConnectionInv == IInv /\ (Attach \/ Disconnect) => IInv'
<1> SUFFICES ASSUME IInv, Attach \/ Disconnect
             PROVE  IInv'
  OBVIOUS
<1>1. /\ attached' \in BOOLEAN
      /\ UNCHANGED <<comics, stats, owed, events, index, shown, owner, phase, pc, job, todo,
                     query, scores, reply, current, lost>>
  BY DEF Attach, Disconnect, storeVars, indexVars, readVars
<1>2. TypeOK' /\ Told'
  BY <1>1 DEF IInv, TypeOK, Told
<1> QED
  BY <1>1, <1>2, PlacesKept, AnswersKept DEF IInv, indexVars

LEMMA MissInv == IInv /\ Miss => IInv'
<1> SUFFICES ASSUME IInv, Miss
             PROVE  IInv'
  OBVIOUS
<1>1. UNCHANGED <<comics, stats, owed, index, shown, owner, phase, attached, pc, job, todo,
                  query, scores, reply, current>>
  BY DEF Miss, Lose, indexVars, procVars, readVars
<1>2. PICK n \in DOMAIN events :
        /\ events' = SubSeq(events, 1, n - 1) \o SubSeq(events, n + 1, Len(events))
        /\ lost' = (lost \/ (n = Len(events) /\ owed = "none"))
  BY DEF Miss, Lose
<1>3. /\ events' \in Seq(Kinds)
      /\ n # Len(events) => events' # <<>> /\ events'[Len(events')] = events[Len(events)]
  <2>1. events \in Seq(Kinds)
    BY DEF IInv, TypeOK, Kinds
  <2> QED
    BY <1>2, <2>1, QueueLoss
<1>4. events # <<>>
  BY <1>2 DEF IInv, TypeOK
<1>5. TypeOK'
  BY <1>1, <1>2, <1>3 DEF IInv, TypeOK, Kinds
<1>6. Told'
  BY <1>1, <1>2, <1>3, <1>4 DEF IInv, Told
<1> QED
  BY <1>1, <1>5, <1>6, PlacesKept, AnswersKept DEF IInv, indexVars

\* No reader notices what a writer does.
LEMMA AnswersUntouched ==
  ASSUME IInv, UNCHANGED <<comics, query, scores, reply, current>>,
         \A r \in Readers : r \in current => pc'[r] = pc[r]
  PROVE  Answers'
<1>1. current \subseteq Readers
  BY DEF IInv, TypeOK
<1> QED
  BY <1>1, AnswersKept DEF IInv

\* A writer that only asks for the lock has neither the lock nor the index.
LEMMA LockWanted ==
  ASSUME IInv, NEW w \in Writers, pc[w] = "idle", pc' = [pc EXCEPT ![w] = "lock"],
         UNCHANGED <<index, shown, owner, todo>>
  PROVE  Locking' /\ Building' /\ pc' \in [Writers \cup Readers -> PCs]
<1>1. /\ pc' \in [Writers \cup Readers -> PCs]
      /\ pc'[w] = "lock" /\ \A p \in Writers \cup Readers : p # w => pc'[p] = pc[p]
      /\ \A v \in Writers : v # w => (Rewriting(v)' <=> Rewriting(v))
      /\ ~Rewriting(w)' /\ Inside' = Inside
  BY WriterMoves DEF WriterLocs
<1>2. ~Rewriting(w) /\ pc[w] # "drain"
  BY DEF Rewriting
<1>3. Locking'
  BY <1>1, <1>2 DEF IInv, Locking
<1>4. Building'
  BY <1>1 DEF IInv, Building
<1> QED
  BY <1>1, <1>3, <1>4

-----------------------------------------------------------------------------
(* The writers *)

LEMMA StartInv == IInv /\ (Start \/ Tick) => IInv'
<1> SUFFICES ASSUME IInv, Start \/ Tick
             PROVE  IInv'
  OBVIOUS
<1>1. /\ UNCHANGED <<comics, stats, owed, events, index, shown, owner, attached, job, todo,
                     query, scores, reply, current, lost>>
      /\ pc' = [pc EXCEPT !["sched"] = "lock"] /\ pc["sched"] = "idle"
      /\ \/ phase = "down" /\ phase' = "booting"
         \/ phase = "serving" /\ phase' = phase
  BY WritersAre DEF Start, Tick, storeVars, indexVars, readVars, IInv, Located
<1>2. Locking' /\ Building' /\ pc' \in [Writers \cup Readers -> PCs]
  BY <1>1, WritersAre, LockWanted
<1>3. pc'["sched"] = "lock" /\ \A p \in Writers \cup Readers : p # "sched" => pc'[p] = pc[p]
  BY <1>1, WritersAre, WriterMoves DEF WriterLocs
<1>4. TypeOK'
  BY <1>1, <1>2 DEF IInv, TypeOK
<1>5. Located'
  BY <1>1, <1>3, WritersAre DEF IInv, Located, WriterLocs
<1>6. Jobs'
  BY <1>1, <1>3, WritersAre DEF IInv, Jobs
<1>7. Told'
  BY <1>1, <1>3, WritersAre DEF IInv, Told
<1>8. Answers'
  BY <1>1, <1>3, WritersAre, AnswersUntouched
<1> QED
  BY <1>2, <1>4, <1>5, <1>6, <1>7, <1>8 DEF IInv

LEMMA HandleEventInv == IInv /\ HandleEvent => IInv'
<1> SUFFICES ASSUME IInv, HandleEvent
             PROVE  IInv'
  OBVIOUS
<1>1. /\ UNCHANGED <<comics, stats, owed, index, shown, owner, phase, attached, todo,
                     query, scores, reply, current, lost>>
      /\ pc' = [pc EXCEPT !["sub"] = "lock"] /\ pc["sub"] = "idle" /\ phase # "down"
      /\ events # <<>> /\ events' = Tail(events)
      /\ job' = [job EXCEPT !["sub"] = Head(events)]
  BY DEF HandleEvent, Take, indexVars, readVars
<1>2. Locking' /\ Building' /\ pc' \in [Writers \cup Readers -> PCs]
  BY <1>1, WritersAre, LockWanted
<1>3. pc'["sub"] = "lock" /\ \A p \in Writers \cup Readers : p # "sub" => pc'[p] = pc[p]
  BY <1>1, WritersAre, WriterMoves DEF WriterLocs
<1>4. /\ events' \in Seq(Kinds) /\ Head(events) \in Kinds
      /\ events' = <<>> => Head(events) = events[Len(events)]
      /\ events' # <<>> => events'[Len(events')] = events[Len(events)]
  <2>1. events \in Seq(Kinds)
    BY DEF IInv, TypeOK, Kinds
  <2> QED
    BY <1>1, <2>1, QueueTail
<1>5. /\ job' \in [Writers -> Kinds] /\ job'["sub"] = Head(events)
      /\ \A w \in Writers : w # "sub" => job'[w] = job[w]
  BY <1>1, <1>4, WritersAre DEF IInv, TypeOK, Kinds
<1>6. TypeOK'
  BY <1>1, <1>2, <1>4, <1>5 DEF IInv, TypeOK, Kinds
<1>7. Located'
  BY <1>1, <1>3, WritersAre DEF IInv, Located, WriterLocs
<1>8. Jobs'
  BY <1>1, <1>3, <1>5, WritersAre DEF IInv, Jobs
<1>9. Told'
  BY <1>1, <1>3, <1>4, <1>5, WritersAre DEF IInv, Told
<1>10. Answers'
  BY <1>1, <1>3, WritersAre, AnswersUntouched
<1> QED
  BY <1>2, <1>6, <1>7, <1>8, <1>9, <1>10 DEF IInv

LEMMA LockInv == ASSUME IInv, NEW w \in Writers, Lock(w) PROVE IInv'
<1>1. /\ UNCHANGED <<comics, stats, owed, events, index, shown, phase, attached, job, todo,
                     query, scores, reply, current, lost>>
      /\ pc' = [pc EXCEPT ![w] = "drain"] /\ pc[w] = "lock"
      /\ owner = "none" /\ owner' = w
  BY DEF Lock, storeVars, indexVars, readVars
<1>2. phase # "down"
  BY <1>1 DEF IInv, Located
<1>3. /\ pc' \in [Writers \cup Readers -> PCs]
      /\ pc'[w] = "drain" /\ \A p \in Writers \cup Readers : p # w => pc'[p] = pc[p]
      /\ \A v \in Writers : v # w => (Rewriting(v)' <=> Rewriting(v))
      /\ ~Rewriting(w)' /\ Inside' = Inside /\ Located'
  BY <1>1, <1>2, WriterMoves DEF WriterLocs
<1>4. TypeOK'
  BY <1>1, <1>3 DEF IInv, TypeOK
<1>5. Locking'
  BY <1>1, <1>3, WritersAre DEF IInv, Locking
<1>6. Jobs'
  BY <1>1, <1>3 DEF IInv, Jobs
<1>7. Building'
  BY <1>1, <1>3 DEF IInv, Building
<1>8. Told'
  BY <1>1, <1>3, WritersAre DEF IInv, Told
<1>9. Answers'
  BY <1>1, <1>3, WritersAre, AnswersUntouched
<1> QED
  BY <1>3, <1>4, <1>5, <1>6, <1>7, <1>8, <1>9 DEF IInv

LEMMA DrainInv == ASSUME IInv, NEW w \in Writers, Drain(w) PROVE IInv'
<1> DEFINE x == IF job[w] = "update" THEN "read" ELSE "reset"
<1>1. /\ UNCHANGED <<comics, stats, owed, events, index, shown, owner, phase, attached, job,
                     todo, query, scores, reply, current, lost>>
      /\ pc' = [pc EXCEPT ![w] = x] /\ pc[w] = "drain" /\ Inside = {}
  BY DEF Drain, storeVars, indexVars, readVars
<1>2. x \in {"read", "reset"} /\ (x = "read" <=> job[w] = "update")
  OBVIOUS
<1> HIDE DEF x
<1>3. phase # "down" /\ owner = w
  BY <1>1 DEF IInv, Located, Locking
<1>4. /\ pc' \in [Writers \cup Readers -> PCs]
      /\ pc'[w] = x /\ \A p \in Writers \cup Readers : p # w => pc'[p] = pc[p]
      /\ \A v \in Writers : v # w => (Rewriting(v)' <=> Rewriting(v))
      /\ Rewriting(w)' /\ Inside' = Inside /\ Located'
  BY <1>1, <1>2, <1>3, WriterMoves DEF WriterLocs
<1>5. TypeOK'
  BY <1>1, <1>4 DEF IInv, TypeOK
<1>6. Locking'
  BY <1>1, <1>2, <1>3, <1>4, WritersAre DEF IInv, Locking
<1>7. Jobs'
  BY <1>1, <1>2, <1>4 DEF IInv, Jobs, TypeOK
<1>8. Building'
  BY <1>1, <1>2, <1>4 DEF IInv, Building
<1>9. Told'
  BY <1>1, <1>2, <1>4, WritersAre DEF IInv, Told
<1>10. Answers'
  BY <1>1, <1>4, WritersAre, AnswersUntouched
<1> QED
  BY <1>4, <1>5, <1>6, <1>7, <1>8, <1>9, <1>10 DEF IInv

LEMMA ReadTableInv == ASSUME IInv, NEW w \in Writers, ReadTable(w) PROVE IInv'
<1>1. /\ UNCHANGED <<comics, stats, owed, events, owner, phase, attached, job, query, scores,
                     reply, current>>
      /\ pc' = [pc EXCEPT ![w] = "fill"] /\ pc[w] = "read"
      /\ todo' = [todo EXCEPT ![w] = comics] /\ index' = IndexOf({}) /\ shown' = comics
      /\ lost' = (lost /\ ResetPending)
  BY DEF ReadTable, storeVars, readVars
<1>2. phase # "down" /\ Rewriting(w) /\ owner = w /\ job[w] = "update"
  BY <1>1 DEF IInv, Located, Locking, Rewriting, Jobs
<1>3. \A v \in Writers : v # w => ~Rewriting(v) /\ pc[v] # "drain"
  BY <1>2 DEF IInv, Locking
<1>4. /\ pc' \in [Writers \cup Readers -> PCs]
      /\ pc'[w] = "fill" /\ \A p \in Writers \cup Readers : p # w => pc'[p] = pc[p]
      /\ \A v \in Writers : v # w => (Rewriting(v)' <=> Rewriting(v))
      /\ Rewriting(w)' /\ Inside' = Inside /\ Located'
  BY <1>1, <1>2, WriterMoves DEF WriterLocs
<1>5. /\ todo' \in [Writers -> SUBSET Ids] /\ todo'[w] = comics
      /\ index' \in [Words -> SUBSET Ids] /\ index' = IndexOf(shown' \ todo'[w])
  <2>1. todo' \in [Writers -> SUBSET Ids] /\ todo'[w] = comics
    BY <1>1 DEF IInv, TypeOK
  <2>2. IndexOf({}) \in [Words -> SUBSET Ids] /\ IndexOf({}) = IndexOf(comics \ comics)
    BY IndexOfType
  <2> QED
    BY <1>1, <2>1, <2>2
<1>6. TypeOK'
  BY <1>1, <1>4, <1>5 DEF IInv, TypeOK
<1>7. Locking'
  BY <1>1, <1>2, <1>4 DEF IInv, Locking
<1>8. Jobs'
  BY <1>1, <1>2, <1>4 DEF IInv, Jobs
<1>9. Building'
  <2>1. \A v \in Writers : v # w => pc'[v] # "fill"
    BY <1>3, <1>4 DEF Rewriting
  <2> QED
    BY <1>1, <1>4, <1>5, <2>1 DEF Building
<1>10. Told'
  <2>1. ASSUME lost, ~lost', events # <<>>
        PROVE  events[Len(events)] # "reset"
    <3>1. Len(events) \in DOMAIN events
      BY <2>1, EmptySeq DEF IInv, TypeOK
    <3> QED
      BY <1>1, <2>1, <3>1 DEF ResetPending
  <2>2. lost /\ ~lost' => (pc["sub"] = "idle" \/ job["sub"] # "reset")
    BY <1>1 DEF ResetPending
  <2>3. pc'["sub"] # "failed"
    BY <1>3, <1>4, WritersAre DEF Rewriting
  <2>4. pc'["sub"] = "idle" <=> pc["sub"] = "idle"
    BY <1>1, <1>4, WritersAre
  <2>5. lost' \in BOOLEAN /\ lost \in BOOLEAN
    BY <1>6 DEF IInv, TypeOK
  <2> QED
    BY <1>1, <2>1, <2>2, <2>3, <2>4, <2>5 DEF IInv, Told
<1>11. Answers'
  BY <1>1, <1>4, WritersAre, AnswersUntouched
<1> QED
  BY <1>4, <1>6, <1>7, <1>8, <1>9, <1>10, <1>11 DEF IInv

LEMMA ReadErrorInv == ASSUME IInv, NEW w \in Writers, ReadError(w) PROVE IInv'
<1>1. /\ UNCHANGED <<comics, stats, owed, events, index, shown, owner, phase, attached, job,
                     todo, query, scores, reply, current>>
      /\ pc' = [pc EXCEPT ![w] = "failed"] /\ pc[w] = "read"
      /\ lost' = (lost \/ (w = "sub" /\ events = <<>> /\ owed = "none"))
  BY DEF ReadError, storeVars, indexVars, readVars
<1>2. phase # "down" /\ Rewriting(w) /\ owner = w /\ job[w] = "update"
  BY <1>1 DEF IInv, Located, Locking, Rewriting, Jobs
<1>3. /\ pc' \in [Writers \cup Readers -> PCs]
      /\ pc'[w] = "failed" /\ \A p \in Writers \cup Readers : p # w => pc'[p] = pc[p]
      /\ \A v \in Writers : v # w => (Rewriting(v)' <=> Rewriting(v))
      /\ Rewriting(w)' /\ Inside' = Inside /\ Located'
  BY <1>1, <1>2, WriterMoves DEF WriterLocs
<1>4. TypeOK'
  BY <1>1, <1>3 DEF IInv, TypeOK
<1>5. Locking'
  BY <1>1, <1>2, <1>3 DEF IInv, Locking
<1>6. Jobs'
  BY <1>1, <1>2, <1>3 DEF IInv, Jobs
<1>7. Building'
  BY <1>1, <1>3 DEF IInv, Building
<1>8. Told'
  BY <1>1, <1>3, WritersAre DEF IInv, Told, TypeOK
<1>9. Answers'
  BY <1>1, <1>3, WritersAre, AnswersUntouched
<1> QED
  BY <1>3, <1>4, <1>5, <1>6, <1>7, <1>8, <1>9 DEF IInv

LEMMA FillInv == ASSUME IInv, NEW w \in Writers, Fill(w) PROVE IInv'
<1>1. /\ UNCHANGED <<comics, stats, owed, events, shown, owner, phase, attached, pc, job, query,
                     scores, reply, current, lost>>
      /\ pc[w] = "fill"
  BY DEF Fill, storeVars, readVars
<1>2. PICK i \in todo[w] :
        /\ index' = [k \in Words |-> IF k \in WordsOf[i] THEN index[k] \cup {i} ELSE index[k]]
        /\ todo' = [todo EXCEPT ![w] = @ \ {i}]
  BY DEF Fill
<1>3. todo[w] \subseteq shown /\ index = IndexOf(shown \ todo[w]) /\ shown \in SUBSET Ids
  BY <1>1 DEF IInv, Building, TypeOK
<1>4. /\ todo' \in [Writers -> SUBSET Ids] /\ todo'[w] = todo[w] \ {i}
      /\ \A v \in Writers : v # w => todo'[v] = todo[v]
  BY <1>2 DEF IInv, TypeOK
<1>5. index' = IndexOf(shown \ (todo[w] \ {i}))
  <2>1. i \in shown /\ \A k \in Words : index[k] = {j \in shown \ todo[w] : k \in WordsOf[j]}
    BY <1>3 DEF IndexOf
  <2>2. \A k \in Words :
          index'[k] = {j \in shown \ (todo[w] \ {i}) : k \in WordsOf[j]}
    <3> SUFFICES ASSUME NEW k \in Words
                 PROVE  index'[k] = {j \in shown \ (todo[w] \ {i}) : k \in WordsOf[j]}
      OBVIOUS
    <3>1. CASE k \in WordsOf[i]
      BY <1>2, <2>1, <3>1
    <3>2. CASE k \notin WordsOf[i]
      BY <1>2, <2>1, <3>2
    <3> QED
      BY <3>1, <3>2
  <2> QED
    BY <1>2, <2>2 DEF IndexOf
<1>6. index' \in [Words -> SUBSET Ids]
  BY <1>3, <1>5, IndexOfType
<1>7. TypeOK'
  BY <1>1, <1>4, <1>6 DEF IInv, TypeOK
<1>8. Located' /\ Locking' /\ Jobs'
  BY <1>1 DEF IInv, Located, Locking, Jobs, Rewriting, Inside
<1>9. Building'
  <2>1. \A v \in Writers : v # w => pc[v] # "fill"
    BY <1>1 DEF IInv, Locking, Rewriting
  <2> QED
    BY <1>1, <1>3, <1>4, <1>5, <2>1 DEF Building
<1>10. Told'
  BY <1>1 DEF IInv, Told
<1>11. Answers'
  BY <1>1, AnswersUntouched
<1> QED
  BY <1>7, <1>8, <1>9, <1>10, <1>11 DEF IInv

LEMMA ResetInv == ASSUME IInv, NEW w \in Writers, Reset(w) PROVE IInv'
<1>1. /\ UNCHANGED <<comics, stats, owed, events, owner, phase, attached, job, todo, query,
                     scores, reply, current, lost>>
      /\ pc' = [pc EXCEPT ![w] = "done"] /\ pc[w] = "reset"
      /\ index' = IndexOf({}) /\ shown' = {}
  BY DEF Reset, storeVars, readVars
<1>2. phase # "down" /\ Rewriting(w) /\ owner = w /\ job[w] = "reset" /\ w = "sub"
  BY <1>1, WritersAre DEF IInv, Located, Locking, Rewriting, Jobs
<1>3. \A v \in Writers : v # w => ~Rewriting(v) /\ pc[v] # "drain"
  BY <1>2 DEF IInv, Locking
<1>4. /\ pc' \in [Writers \cup Readers -> PCs]
      /\ pc'[w] = "done" /\ \A p \in Writers \cup Readers : p # w => pc'[p] = pc[p]
      /\ \A v \in Writers : v # w => (Rewriting(v)' <=> Rewriting(v))
      /\ Rewriting(w)' /\ Inside' = Inside /\ Located'
  BY <1>1, <1>2, WriterMoves DEF WriterLocs
<1>5. TypeOK'
  BY <1>1, <1>4, IndexOfType DEF IInv, TypeOK
<1>6. Locking'
  BY <1>1, <1>2, <1>4 DEF IInv, Locking
<1>7. Jobs'
  BY <1>1, <1>2, <1>4 DEF IInv, Jobs
<1>8. Building'
  <2>1. \A v \in Writers : pc'[v] # "fill"
    BY <1>3, <1>4 DEF Rewriting
  <2> QED
    BY <1>1, <2>1 DEF Building
<1>9. Told'
  BY <1>1, <1>2, <1>4 DEF IInv, Told
<1>10. Answers'
  BY <1>1, <1>4, WritersAre, AnswersUntouched
<1> QED
  BY <1>4, <1>5, <1>6, <1>7, <1>8, <1>9, <1>10 DEF IInv

LEMMA UnlockInv == ASSUME IInv, NEW w \in Writers, Unlock(w) PROVE IInv'
<1>1. /\ UNCHANGED <<comics, stats, owed, events, index, shown, attached, job, todo, query,
                     scores, reply, current, lost>>
      /\ owner' = "none" /\ phase' = IF w = "sched" THEN "serving" ELSE phase
      /\ \/ pc[w] = "fill" /\ todo[w] = {}
         \/ pc[w] = "done"
         \/ pc[w] = "failed" /\ ~(w = "sched" /\ phase = "booting")
  BY DEF Unlock, storeVars, indexVars, readVars
<1>2. /\ pc'[w] = "idle"
      /\ \A v \in Writers : v # w => pc'[v] = pc[v]
      /\ \A r \in Readers : pc'[r] = IF pc[r] = "blocked" THEN "norm" ELSE pc[r]
      /\ pc' \in [Writers \cup Readers -> PCs]
  <2>1. pc \in [Writers \cup Readers -> PCs]
    BY DEF IInv, TypeOK
  <2>2. pc' = [p \in Writers \cup Readers |->
                 IF p = w THEN "idle" ELSE IF pc[p] = "blocked" THEN "norm" ELSE pc[p]]
    BY <2>1 DEF Unlock
  <2>3. \A v \in Writers : pc[v] # "blocked"
    BY DEF IInv, Located, WriterLocs
  <2> QED
    BY <2>1, <2>2, <2>3, WritersAre DEF PCs
<1>3. phase # "down" /\ Rewriting(w) /\ owner = w
  BY <1>1 DEF IInv, Located, Locking, Rewriting
<1>4. \A v \in Writers : v # w => ~Rewriting(v) /\ pc[v] # "drain"
  BY <1>3 DEF IInv, Locking
<1>5. \A v \in Writers : ~Rewriting(v)' /\ pc'[v] # "drain"
  BY <1>2, <1>4 DEF Rewriting
<1>6. phase' \in {"booting", "serving"} /\ (phase = "serving" => phase' = "serving")
  BY <1>1, <1>3 DEF IInv, TypeOK
<1>7. TypeOK'
  BY <1>1, <1>2, <1>6 DEF IInv, TypeOK
<1>8. Located'
  BY <1>2, <1>6 DEF IInv, Located, WriterLocs, ReaderLocs
<1>9. Locking'
  BY <1>1, <1>5, WritersAre DEF Locking
<1>10. Jobs'
  BY <1>1, <1>2 DEF IInv, Jobs
<1>11. Building'
  <2>1. index = IndexOf(shown)
    <3>1. CASE pc[w] = "fill"
      <4>1. index = IndexOf(shown \ todo[w]) /\ todo[w] = {} /\ shown \ {} = shown
        BY <1>1, <3>1 DEF IInv, Building
      <4> QED
        BY <4>1
    <3>2. CASE pc[w] # "fill"
      BY <1>4, <3>2 DEF IInv, Building, Rewriting
    <3> QED
      BY <3>1, <3>2
  <2>2. \A v \in Writers : pc'[v] # "fill"
    BY <1>5 DEF Rewriting
  <2> QED
    BY <1>1, <2>1, <2>2 DEF Building
<1>12. Told'
  <2>1. CASE w = "sub"
    <3>1. pc["sub"] \in {"fill", "done", "failed"} /\ pc'["sub"] = "idle"
      BY <1>1, <1>2, <2>1
    <3> QED
      BY <1>1, <2>1, <3>1, WritersAre DEF IInv, Told
  <2>2. CASE w = "sched"
    <3>1. /\ pc'["sub"] = pc["sub"] /\ pc["sched"] # "done"
          /\ pc["sched"] = "fill" \/ phase = "serving"
          /\ phase \in {"booting", "serving"} 
      BY <1>1, <1>2, <1>3, <2>2, WritersAre DEF IInv, Jobs, TypeOK
    <3> QED
      BY <1>1, <1>2, <2>2, <3>1, WritersAre DEF IInv, Told
  <2> QED
    BY <2>1, <2>2, WritersAre
<1>13. Answers'
  <2>1. \A r \in current : pc[r] # "blocked"
    BY DEF IInv, Answers, Answered
  <2> QED
    BY <1>1, <1>2, <2>1, AnswersUntouched
<1> QED
  BY <1>7, <1>8, <1>9, <1>10, <1>11, <1>12, <1>13 DEF IInv

-----------------------------------------------------------------------------
(* What the readers see and return *)

\* The column words of a comic holds each of its keywords once.
LEMMA ListedWords ==
  ASSUME NEW i \in Ids
  PROVE  /\ i \in DOMAIN TextOf
         /\ Listed[i] \in Seq(Words) /\ IsInjective(Listed[i]) /\ Range(Listed[i]) = WordsOf[i]
<1>1. i \in DOMAIN TextOf /\ i \in 1..MaxID
  BY TextAssumption DEF Ids
<1>2. Listed[i] = Norm(TextOf[i])
  BY <1>1 DEF Listed
<1> QED
  BY <1>1, <1>2, TextAssumption, NormType DEF AreKeywords

\* Looked up in the index of S, the score of a comic of S is what it has in
\* common with the keywords, and no other comic scores.
LEMMA ScoreIsCommon ==
  ASSUME NEW S \in SUBSET Ids, NEW keywords, AreKeywords(keywords),
         NEW I, I = IndexOf(S)
  PROVE  /\ Scores(I, keywords) \in [Ids -> Nat]
         /\ \A i \in S :
              Scores(I, keywords)[i] = Cardinality(WordsOf[i] \cap Range(keywords))
         /\ \A i \in Ids \ S : Scores(I, keywords)[i] = 0
<1>1. keywords \in Seq(Words) /\ IsInjective(keywords)
  BY DEF AreKeywords
<1>2. DOMAIN TextOf = Ids
  BY TextAssumption DEF Ids
<1>3. \A n \in DOMAIN keywords : keywords[n] \in Words
  BY <1>1
<1>4. ASSUME NEW i \in Ids
      PROVE  /\ i \in S => Scores(I, keywords)[i] = Cardinality(WordsOf[i] \cap Range(keywords))
             /\ i \notin S => Scores(I, keywords)[i] = 0
  <2> DEFINE D == {n \in DOMAIN keywords : i \in I[keywords[n]]}
  <2>1. Scores(I, keywords)[i] = Cardinality(D)
    BY <1>2 DEF Scores
  <2>2. \A n \in DOMAIN keywords :
           i \in I[keywords[n]] <=> i \in S /\ keywords[n] \in WordsOf[i]
    BY <1>3 DEF IndexOf
  <2>3. CASE i \in S
    <3>1. D = {n \in DOMAIN keywords : keywords[n] \in WordsOf[i]}
      BY <2>2, <2>3
    <3>2. Cardinality(D) = Cardinality(Range(keywords) \cap WordsOf[i])
      BY <1>1, <3>1, CountInList
    <3>3. Range(keywords) \cap WordsOf[i] = WordsOf[i] \cap Range(keywords)
      OBVIOUS
    <3> QED
      BY <2>1, <2>3, <3>2, <3>3
  <2>4. CASE i \notin S
    <3>1. D = {}
      BY <2>2, <2>4
    <3> QED
      BY <2>1, <2>4, <3>1, FS_EmptySet
  <2> QED
    BY <2>3, <2>4
<1>5. \A i \in Ids : Scores(I, keywords)[i] \in Nat
  <2>1. \A i \in Ids : Cardinality(WordsOf[i] \cap Range(keywords)) \in Nat
    BY FiniteData
  <2> SUFFICES ASSUME NEW i \in Ids
               PROVE  Scores(I, keywords)[i] \in Nat
    OBVIOUS
  <2>2. CASE i \in S
    BY <1>4, <2>1, <2>2
  <2>3. CASE i \notin S
    <3>1. Scores(I, keywords)[i] = 0 /\ 0 \in Nat
      BY <1>4, <2>3
    <3> QED
      BY <3>1, Zenon
  <2> QED
    BY <2>2, <2>3
<1>6. Scores(I, keywords) = [i \in Ids |-> Scores(I, keywords)[i]]
  BY <1>2 DEF Scores
<1> QED
  BY <1>4, <1>5, <1>6

LEMMA SeqOfSubset ==
  ASSUME NEW T, NEW S \in SUBSET T, NEW t \in Seq(S)
  PROVE  t \in Seq(T)
OBVIOUS

\* What ISearch may return for the rows S.
LEMMA ByScoreIsTop ==
  ASSUME NEW S \in SUBSET Ids, NEW scored, NEW limit \in Nat,
         NEW t \in ByScore(S, scored, limit), NEW better,
         \A x, y \in S : <<x, y>> \in better => scored[x] > scored[y]
  PROVE  t \in Seq(Ids) /\ Best(t, S, limit, better)
<1>1. PICK p \in SetToSeqs(S) :
        /\ \A a, b \in DOMAIN p : a < b => ~(scored[p[b]] > scored[p[a]])
        /\ t = FirstOf(p, limit)
  BY DEF ByScore
<1>2. IsFiniteSet(S)
  BY FiniteData
<1>3. p \in Seq(S)
  BY <1>2, Listing
<1>4. \A a \in DOMAIN p : p[a] \in S
  BY <1>3
<1>5. Sorted(p, better)
  BY <1>1, <1>4 DEF Sorted
<1>6. t \in Seq(S) => t \in Seq(Ids)
  BY SeqOfSubset
<1> QED
  BY <1>1, <1>2, <1>5, <1>6, FirstAreBest

\* What the service counts of a comic is what it has in common with the
\* keywords.
LEMMA MatchedIsCommon ==
  ASSUME NEW i \in Ids, NEW keywords
  PROVE  Matched(i, keywords) = Cardinality(WordsOf[i] \cap Range(keywords))
BY ListedWords, Counts

\* What Search may return for the rows R.
LEMMA RankedIsTop ==
  ASSUME NEW R \in SUBSET Ids, NEW keywords, NEW limit \in Nat,
         NEW t \in RankedSearch(R, keywords, limit),
         NEW S, S = {i \in R : Cardinality(WordsOf[i] \cap Range(keywords)) > 0},
         NEW better,
         \A x, y \in S : <<x, y>> \in better =>
           \/ Cardinality(WordsOf[x] \cap Range(keywords))
                > Cardinality(WordsOf[y] \cap Range(keywords))
           \/ /\ Cardinality(WordsOf[x] \cap Range(keywords))
                   = Cardinality(WordsOf[y] \cap Range(keywords))
              /\ Cardinality(WordsOf[x]) < Cardinality(WordsOf[y])
  PROVE  t \in Seq(Ids) /\ Best(t, S, limit, better)
<1>1. S = {i \in R : Matched(i, keywords) > 0} /\ S \in SUBSET Ids
  BY MatchedIsCommon
<1>2. PICK p \in SetToSeqs(S) :
        /\ \A a, b \in DOMAIN p : a < b => ~Ahead(p[b], p[a], keywords)
        /\ t = FirstOf(p, limit)
  BY <1>1 DEF RankedSearch
<1>3. IsFiniteSet(S)
  BY <1>1, FiniteData
<1>4. p \in Seq(S)
  BY <1>3, Listing
<1>5. \A a \in DOMAIN p : p[a] \in S
  BY <1>4
<1>6. ASSUME NEW x \in S, NEW y \in S, <<x, y>> \in better
      PROVE  Ahead(x, y, keywords)
  <2>1. x \in Ids /\ y \in Ids /\ Matched(x, keywords) > 0
    BY <1>1
  <2>2. /\ x \in DOMAIN TextOf /\ Listed[x] \in Seq(Words)
        /\ IsInjective(Listed[x]) /\ Range(Listed[x]) = WordsOf[x]
    BY <2>1, ListedWords
  <2>3. /\ y \in DOMAIN TextOf /\ Listed[y] \in Seq(Words)
        /\ IsInjective(Listed[y]) /\ Range(Listed[y]) = WordsOf[y]
    BY <2>1, ListedWords
  <2>4. Ahead(x, y, keywords) <=>
          \/ Cardinality(Range(Listed[x]) \cap Range(keywords))
               > Cardinality(Range(Listed[y]) \cap Range(keywords))
          \/ /\ Cardinality(Range(Listed[x]) \cap Range(keywords))
                  = Cardinality(Range(Listed[y]) \cap Range(keywords))
             /\ Cardinality(Range(Listed[x])) < Cardinality(Range(Listed[y]))
    BY <2>1, <2>2, <2>3, LessRanks
  <2> QED
    BY <1>6, <2>2, <2>3, <2>4
<1>7. Sorted(p, better)
  BY <1>2, <1>5, <1>6 DEF Sorted
<1>8. t \in Seq(S) => t \in Seq(Ids)
  BY <1>1, SeqOfSubset
<1> QED
  BY <1>2, <1>3, <1>7, <1>8, FirstAreBest

-----------------------------------------------------------------------------
(* The readers *)

\* Requests of a reader are well formed.
LEMMA QueryOf ==
  ASSUME TypeOK, NEW r \in Readers
  PROVE  AreKeywords(query[r].keywords) /\ query[r].limit \in Nat
<1>1. query[r] \in Queries("search") \cup Queries("isearch") \cup {NoQuery}
  BY DEF TypeOK
<1> QED
  BY <1>1, QueryType

\* The variables a reader's step may leave alone.
LEMMA ReaderPlace ==
  ASSUME TypeOK, NEW r \in Readers, NEW x \in ReaderLocs, pc' = [pc EXCEPT ![r] = x]
  PROVE  /\ pc' \in [Writers \cup Readers -> PCs]
         /\ pc'[r] = x /\ \A p \in Writers \cup Readers : p # r => pc'[p] = pc[p]
BY DEF TypeOK, ReaderLocs, PCs

\* Answers of other readers stay; what r has must be looked at.
LEMMA OtherAnswers ==
  ASSUME IInv, NEW r \in Readers, UNCHANGED comics, current' \subseteq current \cup {r},
         \A s \in Readers \ {r} : /\ pc'[s] = pc[s] /\ query'[s] = query[s]
                                  /\ scores'[s] = scores[s] /\ reply'[s] = reply[s],
         r \in current' => Answered(r)'
  PROVE  Answers'
<1>1. ASSUME NEW s \in current', s # r
      PROVE  Answered(s)'
  <2>1. s \in Readers \ {r} /\ s \in current
    BY <1>1 DEF IInv, TypeOK
  <2>2. Answered(s)
    BY <2>1 DEF IInv, Answers
  <2> QED
    BY <2>1, <2>2, AnswerKept
<1> QED
  BY <1>1 DEF Answers

LEMMA RLockInv == ASSUME IInv, NEW r \in Readers, RLock(r) PROVE IInv'
<1> DEFINE x == IF owner = "none" THEN "norm" ELSE "blocked"
<1>1. /\ UNCHANGED <<comics, stats, owed, events, index, shown, owner, phase, attached, job,
                     todo, query, scores, reply, current, lost>>
      /\ phase = "serving" /\ pc[r] = "idle" /\ pc' = [pc EXCEPT ![r] = x]
  BY DEF RLock, storeVars, indexVars, readVars
<1>2. x \in ReaderLocs /\ (x \in {"norm", "fetch", "reply"} => owner = "none" \/ r \in Inside)
  BY DEF ReaderLocs
<1> HIDE DEF x
<1>3. Located' /\ Locking' /\ Jobs' /\ Building' /\ Told'
  BY <1>1, <1>2, ReaderMoves DEF storeVars, indexVars
<1>4. /\ pc' \in [Writers \cup Readers -> PCs]
      /\ \A p \in Writers \cup Readers : p # r => pc'[p] = pc[p]
  BY <1>1, <1>2, ReaderPlace DEF IInv
<1>5. TypeOK'
  BY <1>1, <1>4 DEF IInv, TypeOK
<1>6. Answers'
  <2>1. r \notin current
    BY <1>1 DEF IInv, Answers, Answered
  <2> QED
    BY <1>1, <1>4, <2>1, AnswersUntouched
<1> QED
  BY <1>3, <1>5, <1>6 DEF IInv

LEMMA LookupInv == ASSUME IInv, NEW r \in Readers, Lookup(r) PROVE IInv'
<1>1. /\ UNCHANGED <<comics, stats, owed, events, index, shown, owner, phase, attached, job,
                     todo, reply, lost>>
      /\ pc[r] = "norm" /\ pc' = [pc EXCEPT ![r] = "fetch"]
      /\ current' = IF Settled THEN current \cup {r} ELSE current \ {r}
  BY DEF Lookup, storeVars, indexVars
<1>2. PICK q \in Queries("isearch") :
        /\ query' = [query EXCEPT ![r] = q]
        /\ scores' = [scores EXCEPT ![r] = Scores(index, q.keywords)]
  BY DEF Lookup
<1>3. phase = "serving" /\ r \in Inside
  BY <1>1 DEF IInv, Located, Inside
<1>4. Located' /\ Locking' /\ Jobs' /\ Building' /\ Told'
  BY <1>1, <1>3, ReaderMoves DEF storeVars, indexVars, ReaderLocs
<1>5. /\ pc' \in [Writers \cup Readers -> PCs] /\ pc'[r] = "fetch"
      /\ \A p \in Writers \cup Readers : p # r => pc'[p] = pc[p]
  BY <1>1, ReaderPlace DEF IInv, ReaderLocs
<1>6. index = IndexOf(shown) /\ shown \in SUBSET Ids
  <2>1. \A w \in Writers : ~Rewriting(w)
    BY <1>3 DEF IInv, Locking
  <2> QED
    BY <2>1 DEF IInv, Building, Rewriting, TypeOK
<1>7. AreKeywords(q.keywords)
  BY QueryType
<1>8. /\ Scores(index, q.keywords) \in [Ids -> Nat]
      /\ \A i \in shown :
           Scores(index, q.keywords)[i] = Cardinality(WordsOf[i] \cap Range(q.keywords))
  BY <1>6, <1>7, ScoreIsCommon
<1>9. /\ query'[r] = q /\ scores'[r] = Scores(index, q.keywords)
      /\ \A s \in Readers \ {r} : query'[s] = query[s] /\ scores'[s] = scores[s]
      /\ query' \in [Readers -> Queries("search") \cup Queries("isearch") \cup {NoQuery}]
      /\ scores' \in [Readers -> [Ids -> Nat]]
  BY <1>2, <1>8 DEF IInv, TypeOK
<1>10. current' \in SUBSET Readers /\ current' \subseteq current \cup {r}
  BY <1>1 DEF IInv, TypeOK
<1>11. TypeOK'
  BY <1>1, <1>5, <1>9, <1>10 DEF IInv, TypeOK
<1>12. ASSUME r \in current'
       PROVE  Answered(r)'
  <2>1. Settled
    BY <1>1, <1>12
  <2>2. shown = comics
    BY <1>3, <2>1 DEF Settled, IInv, Told, TypeOK
  <2>3. \A i \in comics' : scores'[r][i] = Common(r, i)'
    BY <1>1, <1>8, <1>9, <2>2 DEF Common
  <2> QED
    BY <1>5, <2>3 DEF Answered
<1>13. Answers'
  BY <1>1, <1>5, <1>9, <1>10, <1>12, OtherAnswers
<1> QED
  BY <1>4, <1>11, <1>13 DEF IInv

LEMMA FetchInv == ASSUME IInv, NEW r \in Readers, Fetch(r) PROVE IInv'
<1>1. /\ UNCHANGED <<comics, stats, owed, events, index, shown, owner, phase, attached, job,
                     todo, query, current, lost>>
      /\ pc[r] = "fetch" /\ pc' = [pc EXCEPT ![r] = "reply"]
      /\ scores' = [scores EXCEPT ![r] = NoScores]
  BY DEF Fetch, storeVars, indexVars
<1> DEFINE S == {i \in comics : scores[r][i] > 0}
<1>2. PICK p \in ByScore(S, scores[r], query[r].limit) : reply' = [reply EXCEPT ![r] = p]
  BY DEF Fetch
<1>3. phase = "serving" /\ r \in Inside
  BY <1>1 DEF IInv, Located, Inside
<1>4. Located' /\ Locking' /\ Jobs' /\ Building' /\ Told'
  BY <1>1, <1>3, ReaderMoves DEF storeVars, indexVars, ReaderLocs
<1>5. /\ pc' \in [Writers \cup Readers -> PCs] /\ pc'[r] = "reply"
      /\ \A s \in Writers \cup Readers : s # r => pc'[s] = pc[s]
  BY <1>1, ReaderPlace DEF IInv, ReaderLocs
<1>6. comics \in SUBSET Ids /\ S \in SUBSET Ids /\ query[r].limit \in Nat
  BY QueryOf DEF IInv, TypeOK
<1>7. p \in Seq(Ids)
  <2> HIDE DEF S
  <2>1. PICK none : none = {}
    OBVIOUS
  <2>2. \A x, y \in S : <<x, y>> \in none => scores[r][x] > scores[r][y]
    BY <2>1
  <2> QED
    BY <1>2, <1>6, <2>2, ByScoreIsTop
<1>8. /\ reply'[r] = p
      /\ \A s \in Readers \ {r} : reply'[s] = reply[s] /\ scores'[s] = scores[s]
      /\ reply' \in [Readers -> Seq(Ids)]
      /\ scores' \in [Readers -> [Ids -> Nat]]
  BY <1>1, <1>2, <1>7 DEF IInv, TypeOK, NoScores
<1>9. TypeOK'
  BY <1>1, <1>5, <1>8 DEF IInv, TypeOK
<1>10. ASSUME r \in current
       PROVE  IsTop(r, MoreInCommon(r))'
  <2>1. \A i \in comics : scores[r][i] = Common(r, i)
    BY <1>1, <1>10 DEF IInv, Answers, Answered
  <2>2. S = Matches(r)
    BY <2>1 DEF Matches
  <2>3. \A x, y \in S : <<x, y>> \in MoreInCommon(r) => scores[r][x] > scores[r][y]
    BY <2>1 DEF MoreInCommon
  <2>4. Matches(r)' = Matches(r) /\ MoreInCommon(r)' = MoreInCommon(r)
    BY <1>1 DEF Matches, MoreInCommon, Common
  <2> HIDE DEF S
  <2>5. Best(p, S, query[r].limit, MoreInCommon(r))
    BY <1>2, <1>6, <2>3, ByScoreIsTop
  <2> QED
    BY <1>1, <1>8, <2>2, <2>4, <2>5 DEF IsTop, Best
<1>11. Answers'
  BY <1>1, <1>5, <1>8, <1>10, OtherAnswers DEF Answered
<1> QED
  BY <1>4, <1>9, <1>11 DEF IInv

\* A reader that leaves takes everything with it.
LEMMA LeaveInv ==
  ASSUME IInv, NEW r \in Readers, RUnlock(r) \/ Return(r)
  PROVE  IInv'
<1>1. /\ UNCHANGED <<comics, stats, owed, events, index, shown, owner, phase, attached, job,
                     todo, lost>>
      /\ pc' = [pc EXCEPT ![r] = "idle"] /\ pc[r] # "idle"
      /\ query' = [query EXCEPT ![r] = NoQuery]
      /\ scores' = [scores EXCEPT ![r] = NoScores]
      /\ reply' = [reply EXCEPT ![r] = <<>>]
      /\ current' = current \ {r}
  BY DEF RUnlock, Return, Forgotten, Idle, Inside, storeVars, indexVars
<1>2. phase = "serving"
  BY <1>1 DEF IInv, Located
<1>3. Located' /\ Locking' /\ Jobs' /\ Building' /\ Told'
  BY <1>1, <1>2, ReaderMoves DEF storeVars, indexVars, ReaderLocs
<1>4. /\ pc' \in [Writers \cup Readers -> PCs]
      /\ \A p \in Writers \cup Readers : p # r => pc'[p] = pc[p]
  BY <1>1, ReaderPlace DEF IInv, ReaderLocs
<1>5. /\ query' \in [Readers -> Queries("search") \cup Queries("isearch") \cup {NoQuery}]
      /\ scores' \in [Readers -> [Ids -> Nat]]
      /\ reply' \in [Readers -> Seq(Ids)]
      /\ current' \in SUBSET Readers
      /\ \A s \in Readers \ {r} : /\ query'[s] = query[s] /\ scores'[s] = scores[s]
                                  /\ reply'[s] = reply[s]
  <2>1. NoScores \in [Ids -> Nat] /\ <<>> \in Seq(Ids)
    BY DEF NoScores
  <2> QED
    BY <1>1, <2>1 DEF IInv, TypeOK
<1>6. TypeOK'
  BY <1>1, <1>4, <1>5 DEF IInv, TypeOK
<1>7. Answers'
  BY <1>1, <1>4, <1>5, OtherAnswers
<1> QED
  BY <1>3, <1>6, <1>7 DEF IInv

LEMMA SearchInv == ASSUME IInv, NEW r \in Readers, Search(r) PROVE IInv'
<1>1. /\ UNCHANGED <<comics, stats, owed, events, index, shown, owner, phase, attached, job,
                     todo, scores, lost>>
      /\ pc' = [pc EXCEPT ![r] = "answer"] /\ phase = "serving"
      /\ current' = current \cup {r}
  BY DEF Search, storeVars, indexVars
<1>2. PICK q \in Queries("search") :
        /\ query' = [query EXCEPT ![r] = q]
        /\ \E p \in RankedSearch(comics, q.keywords, q.limit) : reply' = [reply EXCEPT ![r] = p]
  BY DEF Search
<1>3. PICK p \in RankedSearch(comics, q.keywords, q.limit) : reply' = [reply EXCEPT ![r] = p]
  BY <1>2
<1>4. Located' /\ Locking' /\ Jobs' /\ Building' /\ Told'
  BY <1>1, ReaderMoves DEF storeVars, indexVars, ReaderLocs
<1>5. /\ pc' \in [Writers \cup Readers -> PCs] /\ pc'[r] = "answer"
      /\ \A s \in Writers \cup Readers : s # r => pc'[s] = pc[s]
  BY <1>1, ReaderPlace DEF IInv, ReaderLocs
<1>6. comics \in SUBSET Ids /\ q.limit \in Nat
  BY QueryType DEF IInv, TypeOK
<1>7. /\ query'[r] = q
      /\ \A s \in Readers \ {r} : query'[s] = query[s] /\ reply'[s] = reply[s]
      /\ query' \in [Readers -> Queries("search") \cup Queries("isearch") \cup {NoQuery}]
      /\ reply'[r] = p
  BY <1>2, <1>3 DEF IInv, TypeOK
<1> DEFINE better == (MoreInCommon(r) \cup LargerPart(r))'
           S == Matches(r)'
<1>8. S = {i \in comics : Cardinality(WordsOf[i] \cap Range(q.keywords)) > 0}
  BY <1>1, <1>7 DEF Matches, Common
<1>9. \A x, y \in S : <<x, y>> \in better =>
        \/ Cardinality(WordsOf[x] \cap Range(q.keywords))
             > Cardinality(WordsOf[y] \cap Range(q.keywords))
        \/ /\ Cardinality(WordsOf[x] \cap Range(q.keywords))
                = Cardinality(WordsOf[y] \cap Range(q.keywords))
           /\ Cardinality(WordsOf[x]) < Cardinality(WordsOf[y])
  BY <1>7 DEF MoreInCommon, LargerPart, Common
<1>10. p \in Seq(Ids) /\ Best(p, S, q.limit, better)
  <2> HIDE DEF S, better
  <2> QED
    BY <1>3, <1>6, <1>8, <1>9, RankedIsTop
<1>11. reply' \in [Readers -> Seq(Ids)] /\ current' \in SUBSET Readers
  BY <1>1, <1>3, <1>10 DEF IInv, TypeOK
<1>12. TypeOK'
  BY <1>1, <1>5, <1>7, <1>11 DEF IInv, TypeOK
<1>13. IsTop(r, MoreInCommon(r) \cup LargerPart(r))'
  BY <1>7, <1>10 DEF IsTop, Best
<1>14. Answers'
  BY <1>1, <1>5, <1>7, <1>13, OtherAnswers DEF Answered
<1> QED
  BY <1>4, <1>12, <1>14 DEF IInv

-----------------------------------------------------------------------------
(* The process ends *)

LEMMA ExitInv == IInv /\ Exit => IInv'
<1> SUFFICES ASSUME IInv, Exit
             PROVE  IInv'
  OBVIOUS
<1>1. /\ UNCHANGED <<comics, stats, owed>>
      /\ phase' = "down" /\ attached' = FALSE /\ owner' = "none" /\ current' = {}
      /\ pc' = [p \in Writers \cup Readers |-> "idle"]
      /\ job' = [w \in Writers |-> "update"] /\ todo' = [w \in Writers |-> {}]
      /\ index' = IndexOf({}) /\ shown' = {}
      /\ query' = [r \in Readers |-> NoQuery]
      /\ scores' = [r \in Readers |-> NoScores]
      /\ reply' = [r \in Readers |-> <<>>]
  BY DEF Exit
<1>2. /\ lost' \in BOOLEAN /\ (lost => lost')
      /\ \E n \in 0..Len(events) : events' = SubSeq(events, n + 1, Len(events))
  BY DEF Exit, IInv, TypeOK
<1>3. events' \in Seq(Kinds) /\ (events' # <<>> => events'[Len(events')] = events[Len(events)])
  <2>1. events \in Seq(Kinds)
    BY DEF IInv, TypeOK, Kinds
  <2> QED
    BY <1>2, <2>1, QueueSuffix
<1>4. events' # <<>> => events # <<>>
  <2>1. events = <<>> => Len(events) = 0
    BY EmptySeq
  <2>2. SubSeq(<<>>, 1, 0) = <<>>
    BY SubSeqEmpty
  <2>3. ASSUME events = <<>>
        PROVE  events' = <<>>
    <3>1. PICK n \in 0..0 : events' = SubSeq(events, n + 1, 0)
      BY <1>2, <2>1, <2>3
    <3>2. n = 0
      OBVIOUS
    <3> QED
      BY <2>2, <2>3, <3>1, <3>2
  <2> QED
    BY <2>3
<1>5. \A p \in Writers \cup Readers : pc'[p] = "idle"
  BY <1>1
<1>6. TypeOK'
  <2>1. pc' \in [Writers \cup Readers -> PCs] /\ job' \in [Writers -> {"update", "reset"}]
        /\ todo' \in [Writers -> SUBSET Ids]
    BY <1>1 DEF PCs
  <2>2. /\ query' \in [Readers -> Queries("search") \cup Queries("isearch") \cup {NoQuery}]
        /\ scores' \in [Readers -> [Ids -> Nat]]
        /\ reply' \in [Readers -> Seq(Ids)]
    BY <1>1 DEF NoScores
  <2>3. index' \in [Words -> SUBSET Ids]
    BY <1>1, IndexOfType
  <2> QED
    BY <1>1, <1>2, <1>3, <2>1, <2>2, <2>3 DEF IInv, TypeOK, Kinds
<1>7. Located' /\ Locking'
  BY <1>1, <1>5, WritersAre DEF Located, Locking, Rewriting, WriterLocs, ReaderLocs
<1>8. Jobs' /\ Building'
  BY <1>1, <1>5, WritersAre DEF Jobs, Building
<1>9. Told'
  BY <1>1, <1>2, <1>3, <1>4, <1>5, WritersAre DEF IInv, Told
<1>10. Answers'
  BY <1>1 DEF Answers
<1> QED
  BY <1>6, <1>7, <1>8, <1>9, <1>10 DEF IInv

-----------------------------------------------------------------------------
(* Every reply of ISearch is sound.  The read lock keeps the published table   *)
(* from the lookup to the reply: the scores are those of its comics, also     *)
(* where the index is out of date.                                            *)

SoundReader(r) ==
  /\ pc[r] = "fetch" =>
       \A i \in Ids : scores[r][i] = IF i \in shown THEN Common(r, i) ELSE 0
  /\ pc[r] = "reply" => IsSound(r)

Sound == \A r \in Readers : SoundReader(r)

\* A reader that stays where it is, under the same index, stays sound.
LEMMA SoundKept ==
  ASSUME NEW r \in Readers, SoundReader(r), UNCHANGED shown, query'[r] = query[r],
         scores'[r] = scores[r], reply'[r] = reply[r],
         pc'[r] = pc[r] \/ pc'[r] \notin {"fetch", "reply"}
  PROVE  SoundReader(r)'
<1>1. \A i : Common(r, i)' = Common(r, i)
  BY DEF Common
<1>2. MoreInCommon(r)' = MoreInCommon(r)
  BY <1>1 DEF MoreInCommon
<1>3. IsSound(r)' <=> IsSound(r)
  BY <1>1, <1>2 DEF IsSound
<1> QED
  BY <1>1, <1>3 DEF SoundReader

LEMMA SoundInit == Init => Sound
BY ReaderAssumption DEF Init, Sound, SoundReader

\* What a lookup counts in the index is what the comics of its table have in
\* common with the phrase.
LEMMA SoundLookup ==
  ASSUME IInv, NEW r \in Readers, Lookup(r)
  PROVE  SoundReader(r)'
<1>1. PICK q \in Queries("isearch") :
        /\ query' = [query EXCEPT ![r] = q]
        /\ scores' = [scores EXCEPT ![r] = Scores(index, q.keywords)]
  BY DEF Lookup
<1>2. /\ pc[r] = "norm" /\ pc' = [pc EXCEPT ![r] = "fetch"]
      /\ UNCHANGED shown
  BY DEF Lookup, indexVars
<1>3. pc'[r] = "fetch" /\ query'[r] = q /\ scores'[r] = Scores(index, q.keywords)
  BY <1>1, <1>2 DEF IInv, TypeOK
<1>4. r \in Inside
  BY <1>2 DEF Inside
<1>5. index = IndexOf(shown) /\ shown \in SUBSET Ids
  BY <1>4 DEF IInv, Locking, Building, Rewriting, TypeOK
<1>6. AreKeywords(q.keywords)
  BY QueryType
<1>7. \A i \in Ids : Scores(index, q.keywords)[i]
                      = IF i \in shown THEN Cardinality(WordsOf[i] \cap Range(q.keywords))
                        ELSE 0
  BY <1>5, <1>6, ScoreIsCommon
<1>8. \A i \in Ids : scores'[r][i] = IF i \in shown' THEN Common(r, i)' ELSE 0
  BY <1>2, <1>3, <1>7 DEF Common
<1> QED
  BY <1>3, <1>8 DEF SoundReader

\* Whichever rows the table still has, the ones that score are returned in order.
LEMMA SoundFetch ==
  ASSUME IInv, NEW r \in Readers, SoundReader(r), Fetch(r)
  PROVE  SoundReader(r)'
<1> DEFINE S == {i \in comics : scores[r][i] > 0}
           better == MoreInCommon(r)
<1>1. PICK p \in ByScore(S, scores[r], query[r].limit) : reply' = [reply EXCEPT ![r] = p]
  BY DEF Fetch
<1>2. /\ pc[r] = "fetch" /\ pc' = [pc EXCEPT ![r] = "reply"]
      /\ UNCHANGED <<shown, query>>
  BY DEF Fetch, indexVars
<1>3. pc'[r] = "reply" /\ reply'[r] = p
  BY <1>1, <1>2 DEF IInv, TypeOK
<1>4. S \in SUBSET Ids /\ query[r].limit \in Nat
  BY QueryOf DEF IInv, TypeOK
<1>5. \A i \in S : i \in shown /\ scores[r][i] = Common(r, i) /\ Common(r, i) > 0
  BY <1>2, <1>4 DEF SoundReader
<1>6. \A x, y \in S : <<x, y>> \in better => scores[r][x] > scores[r][y]
  BY <1>5 DEF MoreInCommon
<1>7. IsFiniteSet(S) /\ Cardinality(S) \in Nat
  BY <1>4, FiniteData
<1> HIDE DEF S, better
<1>8. p \in Seq(Ids) /\ Best(p, S, query[r].limit, better)
  BY <1>1, <1>4, <1>6, ByScoreIsTop
<1>9. /\ IsInjective(p)
      /\ Len(p) <= query[r].limit
      /\ \A b \in DOMAIN p : /\ p[b] \in S
                             /\ \A a \in 1..(b - 1) : <<p[b], p[a]>> \notin better
  <2>1. Len(p) = IF query[r].limit < Cardinality(S) THEN query[r].limit ELSE Cardinality(S)
    BY <1>8 DEF Best
  <2>2. Len(p) <= query[r].limit
    BY <1>4, <1>7, <2>1
  <2>3. \A b \in DOMAIN p : p[b] \in Range(p)
    BY DEF Range
  <2> QED
    BY <1>8, <2>2, <2>3 DEF Best
<1>10. \A i : Common(r, i)' = Common(r, i)
  BY <1>2 DEF Common
<1>11. MoreInCommon(r)' = better
  BY <1>10 DEF MoreInCommon, better
<1>12. IsSound(r)'
  BY <1>2, <1>3, <1>5, <1>9, <1>10, <1>11 DEF IsSound
<1> QED
  BY <1>3, <1>12 DEF SoundReader

LEMMA SoundStep == IInv /\ Sound /\ [Next]_vars => Sound'
<1> SUFFICES ASSUME IInv, Sound, [Next]_vars, NEW r \in Readers
             PROVE  SoundReader(r)'
  BY DEF Sound
<1>1. SoundReader(r) /\ r \notin Writers /\ r \in Writers \cup Readers
  BY WritersAre DEF Sound
<1>2. pc \in [Writers \cup Readers -> PCs] /\ "sched" \in Writers /\ "sub" \in Writers
  BY WritersAre DEF IInv, TypeOK
<1>3. CASE \/ UNCHANGED vars
           \/ Change \/ Publish \/ Attach \/ Disconnect \/ Miss
           \/ Start \/ Tick \/ HandleEvent
  <2>1. UNCHANGED <<shown, query, scores, reply>>
    BY <1>3 DEF vars, indexVars, readVars, Change, Publish, Attach, Disconnect, Miss, Start,
                Tick, HandleEvent
  <2>2. pc'[r] = pc[r]
    BY <1>1, <1>2, <1>3
    DEF vars, procVars, Change, Publish, Attach, Disconnect, Miss, Start, Tick, HandleEvent
  <2> QED
    BY <1>1, <2>1, <2>2, SoundKept
<1>4. ASSUME NEW w \in Writers, Writer(w)
      PROVE  SoundReader(r)'
  <2>1. UNCHANGED <<query, scores, reply>>
    BY <1>4 DEF Writer, Lock, Drain, ReadTable, ReadError, Fill, Reset, Unlock, readVars
  <2>2. pc'[r] = pc[r] \/ pc'[r] \notin {"fetch", "reply"}
    BY <1>1, <1>2, <1>4
    DEF Writer, Lock, Drain, ReadTable, ReadError, Fill, Reset, Unlock, Idle
  <2>3. CASE UNCHANGED shown
    BY <1>1, <2>1, <2>2, <2>3, SoundKept
  <2>4. CASE ReadTable(w) \/ Reset(w)
    <3>1. Rewriting(w)
      BY <2>4 DEF ReadTable, Reset, Rewriting
    <3>2. pc[r] \notin {"fetch", "reply"}
      BY <3>1 DEF IInv, Locking, Inside
    <3>3. pc'[r] \notin {"fetch", "reply"}
      BY <2>2, <3>2
    <3> QED
      BY <3>3 DEF SoundReader
  <2> QED
    BY <1>4, <2>3, <2>4 DEF Writer, Lock, Drain, ReadError, Fill, Unlock, indexVars
<1>5. ASSUME NEW s \in Readers, RLock(s) \/ Search(s) \/ RUnlock(s) \/ Return(s)
      PROVE  SoundReader(r)'
  <2>1. UNCHANGED shown
    BY <1>5 DEF RLock, Search, RUnlock, Return, indexVars
  <2>2. CASE s = r
    <3>1. pc'[r] \notin {"fetch", "reply"}
      BY <1>1, <1>2, <1>5, <2>2 DEF RLock, Search, RUnlock, Return, Idle
    <3> QED
      BY <3>1 DEF SoundReader
  <2>3. CASE s # r
    <3>1. pc'[r] = pc[r]
      BY <1>1, <1>2, <1>5, <2>3 DEF RLock, Search, RUnlock, Return, Idle
    <3>2. query'[r] = query[r] /\ scores'[r] = scores[r] /\ reply'[r] = reply[r]
      BY <1>5, <2>3
      DEF RLock, Search, RUnlock, Return, Forgotten, readVars, IInv, TypeOK
    <3> QED
      BY <1>1, <2>1, <3>1, <3>2, SoundKept
  <2> QED
    BY <2>2, <2>3
<1>6. ASSUME NEW s \in Readers, Lookup(s) \/ Fetch(s)
      PROVE  SoundReader(r)'
  <2>1. CASE s = r
    BY <1>1, <1>6, <2>1, SoundLookup, SoundFetch
  <2>2. CASE s # r
    <3>1. UNCHANGED shown /\ pc'[r] = pc[r]
      BY <1>1, <1>2, <1>6, <2>2 DEF Lookup, Fetch, indexVars
    <3>2. query'[r] = query[r] /\ scores'[r] = scores[r] /\ reply'[r] = reply[r]
      BY <1>6, <2>2 DEF Lookup, Fetch, IInv, TypeOK
    <3> QED
      BY <1>1, <3>1, <3>2, SoundKept
  <2> QED
    BY <2>1, <2>2
<1>7. CASE Exit
  <2>1. pc'[r] = "idle"
    BY <1>1, <1>7 DEF Exit
  <2> QED
    BY <2>1 DEF SoundReader
<1> QED
  BY <1>3, <1>4, <1>5, <1>6, <1>7 DEF Next, Reader

-----------------------------------------------------------------------------
(* The theorems *)

LEMMA NextInv == IInv /\ [Next]_vars => IInv'
<1> SUFFICES ASSUME IInv, [Next]_vars
             PROVE  IInv'
  OBVIOUS
<1>1. CASE UNCHANGED vars
  <2>1. UNCHANGED <<comics, stats, owed, events, index, shown, owner, phase, attached, pc, job,
                    todo, query, scores, reply, current, lost>>
    BY <1>1 DEF vars, storeVars, indexVars, procVars, readVars
  <2>2. TypeOK' /\ Told'
    BY <2>1 DEF IInv, TypeOK, Told
  <2> QED
    BY <2>1, <2>2, PlacesKept, AnswersUntouched DEF IInv, indexVars
<1>2. CASE Change \/ Publish \/ Attach \/ Disconnect \/ Miss
  BY <1>2, ChangeInv, PublishInv, ConnectionInv, MissInv
<1>3. CASE Start \/ Tick \/ HandleEvent
  BY <1>3, StartInv, HandleEventInv
<1>4. CASE \E w \in Writers : Writer(w)
  BY <1>4, LockInv, DrainInv, ReadTableInv, ReadErrorInv, FillInv, ResetInv, UnlockInv
  DEF Writer
<1>5. CASE \E r \in Readers : RLock(r) \/ Search(r) \/ Reader(r)
  BY <1>5, RLockInv, SearchInv, LookupInv, FetchInv, LeaveInv DEF Reader
<1>6. CASE Exit
  BY <1>6, ExitInv
<1> QED
  BY <1>1, <1>2, <1>3, <1>4, <1>5, <1>6 DEF Next

\* The strengthening is inductive.
THEOREM Invariant == Spec => []IInv
BY InitInv, NextInv, PTL DEF Spec

\* Every variable of the search service keeps its type.
THEOREM TypeCorrect == Spec => []TypeOK
<1>1. IInv => TypeOK
  BY DEF IInv
<1> QED
  BY <1>1, Invariant, PTL

\* While an ISearch holds the read lock no writer is at work on the index, and
\* what it reads is the index of one table.
THEOREM NeverTorn == Spec => []NoTornRead
<1>1. IInv => NoTornRead
  BY DEF IInv, Locking, Building, Rewriting, NoTornRead
<1> QED
  BY <1>1, Invariant, PTL

\* Once the event of the last change has been handled, the published index is
\* that of the table.
THEOREM Fresh == Spec => []FreshWhenSettled
<1>1. IInv => FreshWhenSettled
  <2> SUFFICES ASSUME IInv, phase = "serving", Settled, ~Rewriting("sched")
               PROVE  index = IndexOf(comics)
    BY DEF FreshWhenSettled
  <2>1. shown = comics
    BY DEF Settled, IInv, Told, TypeOK
  <2>2. \A w \in Writers : pc[w] # "fill"
    BY WritersAre DEF Settled, Rewriting
  <2> QED
    BY <2>1, <2>2 DEF IInv, Building
<1> QED
  BY <1>1, Invariant, PTL

\* Every ISearch returns a sound reply; one between two changes returns comics
\* of the table that no other exceeds in common keywords, and as many as it can.
THEOREM ISearchReturnsBest == Spec => []ISearchExact
<1>1. IInv /\ Sound => ISearchExact
  <2> SUFFICES ASSUME IInv, Sound, NEW r \in Readers, pc[r] = "reply"
               PROVE  IsSound(r) /\ (r \in current => IsTop(r, MoreInCommon(r)))
    BY DEF ISearchExact
  <2>1. IsSound(r)
    BY DEF Sound, SoundReader
  <2>2. r \in current => IsTop(r, MoreInCommon(r))
    BY DEF IInv, Answers, Answered
  <2> QED
    BY <2>1, <2>2
<1>2. Spec => []Sound
  BY SoundInit, SoundStep, Invariant, PTL DEF Spec
<1> QED
  BY <1>1, <1>2, Invariant, PTL

\* A Search returns the comics with most common keywords, the shorter ones
\* first among equals: counting lists and comparing products orders them so.
THEOREM SearchReturnsBest == Spec => []SearchExact
<1>1. IInv => SearchExact
  BY DEF IInv, Answers, Answered, SearchExact
<1> QED
  BY <1>1, Invariant, PTL
=============================================================================
