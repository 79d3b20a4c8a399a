---------------------------- MODULE RankingProofs ----------------------------
(***************************************************************************)
(* Norm keeps the first of every keyword; lists without repetitions count  *)
(* like sets; the less function of rankedSearch prefers more matches and,  *)
(* among equals, fewer words; the first elements of a sorted list are the  *)
(* best of all.  For any texts, phrases and limits.                        *)
(***************************************************************************)
EXTENDS Ranking, FiniteSetTheorems, FunctionTheorems, WellFoundedInduction, TLAPS

-----------------------------------------------------------------------------
(* Lists without repetitions *)

\* The places of a list that hold an element of K are as many as the elements
\* it shares with K.
LEMMA CountInList ==
  ASSUME NEW W, NEW s \in Seq(W), IsInjective(s), NEW K
  PROVE  /\ IsFiniteSet(Range(s) \cap K)
         /\ Cardinality({n \in DOMAIN s : s[n] \in K}) = Cardinality(Range(s) \cap K)
         /\ Cardinality(Range(s) \cap K) \in Nat
<1> DEFINE D == {n \in DOMAIN s : s[n] \in K}
           F == [n \in D |-> s[n]]
<1>1. DOMAIN s = 1..Len(s) /\ Len(s) \in Nat
  OBVIOUS
<1>2. IsFiniteSet(D)
  <2>1. IsFiniteSet(1..Len(s))
    BY <1>1, FS_Interval
  <2> QED
    BY <2>1, <1>1, FS_Subset
<1>3. F \in [D -> Range(s) \cap K]
  BY DEF Range
<1>4. IsInjective(F)
  BY DEF IsInjective
<1>5. \A t \in Range(s) \cap K : \E n \in D : F[n] = t
  BY DEF Range
<1>6. F \in Bijection(D, Range(s) \cap K)
  BY <1>3, <1>4, <1>5 DEF Bijection, Injection, Surjection
<1>7. ExistsBijection(D, Range(s) \cap K)
  BY <1>6 DEF ExistsBijection
<1>8. /\ IsFiniteSet(Range(s) \cap K)
      /\ Cardinality(Range(s) \cap K) = Cardinality(D)
  <2> HIDE DEF D
  <2> QED
    BY <1>2, <1>7, FS_Bijection
<1> QED
  BY <1>8, FS_CardinalityType

\* A list is as long as the set of its elements is large.
LEMMA LenIsCount ==
  ASSUME NEW W, NEW s \in Seq(W), IsInjective(s)
  PROVE  /\ IsFiniteSet(Range(s))
         /\ Len(s) = Cardinality(Range(s))
<1>1. DOMAIN s = 1..Len(s) /\ Len(s) \in Nat
  OBVIOUS
<1>2. {n \in DOMAIN s : s[n] \in Range(s)} = 1..Len(s)
  BY <1>1 DEF Range
<1>3. Cardinality(1..Len(s)) = Len(s)
  BY <1>1, FS_Interval
<1>4. Range(s) \cap Range(s) = Range(s)
  OBVIOUS
<1> QED
  BY <1>2, <1>3, <1>4, CountInList

-----------------------------------------------------------------------------
(* The less function *)

\* Of two ratios with the same positive numerator the smaller denominator wins.
LEMMA CrossProducts ==
  ASSUME NEW m \in Nat, m > 0, NEW a \in Nat, NEW b \in Nat
  PROVE  m * b > m * a <=> a < b
OBVIOUS

\* What the service counts of comic i for a phrase.
LEMMA Counts ==
  ASSUME NEW W, NEW i \in DOMAIN TextOf, NEW keywords,
         Listed[i] \in Seq(W), IsInjective(Listed[i])
  PROVE  /\ Matched(i, keywords) = Cardinality(Range(Listed[i]) \cap Range(keywords))
         /\ Matched(i, keywords) \in Nat
         /\ Total(i) = Cardinality(Range(Listed[i]))
         /\ Total(i) \in Nat
<1>1. Matched(i, keywords) = Cardinality(Range(Listed[i]) \cap Range(keywords))
  BY CountInList DEF Matched
<1>2. Cardinality(Range(Listed[i]) \cap Range(keywords)) \in Nat
  BY CountInList
<1>3. Total(i) = Cardinality(Range(Listed[i])) /\ Total(i) \in Nat
  BY LenIsCount DEF Total
<1> QED
  BY <1>1, <1>2, <1>3

\* Comparing products, the less function of rankedSearch prefers the comic with
\* more keywords of the phrase, and among equals the one with fewer words.
THEOREM LessRanks ==
  ASSUME NEW W, NEW i \in DOMAIN TextOf, NEW j \in DOMAIN TextOf, NEW keywords,
         Listed[i] \in Seq(W), IsInjective(Listed[i]),
         Listed[j] \in Seq(W), IsInjective(Listed[j]),
         Matched(i, keywords) > 0
  PROVE  Ahead(i, j, keywords) <=>
           \/ Cardinality(Range(Listed[i]) \cap Range(keywords))
                > Cardinality(Range(Listed[j]) \cap Range(keywords))
           \/ /\ Cardinality(Range(Listed[i]) \cap Range(keywords))
                   = Cardinality(Range(Listed[j]) \cap Range(keywords))
              /\ Cardinality(Range(Listed[i])) < Cardinality(Range(Listed[j]))
<1> DEFINE m(x) == Matched(x, keywords)
<1>1. /\ m(i) = Cardinality(Range(Listed[i]) \cap Range(keywords))
      /\ m(i) \in Nat /\ Total(i) = Cardinality(Range(Listed[i])) /\ Total(i) \in Nat
  BY Counts
<1>2. /\ m(j) = Cardinality(Range(Listed[j]) \cap Range(keywords))
      /\ m(j) \in Nat /\ Total(j) = Cardinality(Range(Listed[j])) /\ Total(j) \in Nat
  BY Counts
<1>3. Ahead(i, j, keywords) <=> \/ m(i) > m(j)
                                \/ m(i) = m(j) /\ m(i) * Total(j) > m(j) * Total(i)
  BY DEF Ahead
<1>4. m(i) = m(j) => (m(i) * Total(j) > m(j) * Total(i) <=> Total(i) < Total(j))
  <2> HIDE DEF m
  <2> SUFFICES ASSUME m(i) = m(j)
               PROVE  m(i) * Total(j) > m(i) * Total(i) <=> Total(i) < Total(j)
    OBVIOUS
  <2> m(i) > 0
    BY DEF m
  <2> QED
    BY <1>1, <1>2, CrossProducts
<1> HIDE DEF m
<1> QED
  BY <1>1, <1>2, <1>3, <1>4

-----------------------------------------------------------------------------
(* The first of a sorted list *)

\* A list of all elements of a finite set, each once.
LEMMA Listing ==
  ASSUME NEW S, IsFiniteSet(S), NEW p \in SetToSeqs(S)
  PROVE  /\ p \in Seq(S)
         /\ Len(p) = Cardinality(S)
         /\ Cardinality(S) \in Nat
         /\ IsInjective(p)
         /\ \A x \in S : \E k \in 1..Len(p) : p[k] = x
<1> DEFINE n == Cardinality(S)
<1>1. n \in Nat
  BY FS_CardinalityType
<1>2. p \in [1..n -> S] /\ \A i, j \in 1..n : i # j => p[i] # p[j]
  BY DEF SetToSeqs
<1>3. p \in Seq(S) /\ Len(p) = n
  BY <1>1, <1>2
<1>4. IsInjective(p)
  BY <1>2 DEF IsInjective
<1>5. p \in Injection(1..n, S)
  BY <1>2, <1>4 DEF Injection
<1>6. Cardinality(1..n) = n
  <2> HIDE DEF n
  <2> QED
    BY <1>1, FS_Interval
<1>7. p \in Surjection(1..n, S)
  <2> HIDE DEF n
  <2>1. n = Cardinality(S)
    BY DEF n
  <2> QED
    BY <1>5, <1>6, <2>1, FS_Injection
<1>8. \A x \in S : \E k \in 1..n : p[k] = x
  BY <1>7 DEF Surjection
<1> QED
  BY <1>1, <1>3, <1>4, <1>8

\* No element of the list stands before a better one.
Sorted(p, better) == \A a, b \in DOMAIN p : a < b => <<p[b], p[a]>> \notin better

\* The list has no element twice, as many of S as there are or as asked for, and
\* none before or instead of a better one.
Best(t, S, limit, better) ==
  /\ IsInjective(t)
  /\ Range(t) \subseteq S
  /\ Len(t) = IF limit < Cardinality(S) THEN limit ELSE Cardinality(S)
  /\ \A b \in DOMAIN t :
       /\ \A a \in 1..(b - 1) : <<t[b], t[a]>> \notin better
       /\ \A x \in S \ Range(t) : <<x, t[b]>> \notin better

\* Cut off at the limit, a sorted list of all elements of S is the best of S.
LEMMA FirstAreBest ==
  ASSUME NEW S, IsFiniteSet(S), NEW better, NEW limit \in Nat, NEW p \in SetToSeqs(S),
         Sorted(p, better), NEW t, t = FirstOf(p, limit)
  PROVE  t \in Seq(S) /\ Best(t, S, limit, better)
<1>1. /\ p \in Seq(S) /\ Len(p) = Cardinality(S) /\ Cardinality(S) \in Nat
      /\ IsInjective(p)
      /\ \A x \in S : \E k \in 1..Len(p) : p[k] = x
  BY Listing
<1>2. DOMAIN p = 1..Len(p) /\ Len(p) \in Nat
  BY <1>1
<1>3. /\ t \in Seq(S)
      /\ Len(t) = IF limit < Len(p) THEN limit ELSE Len(p)
      /\ DOMAIN t = 1..Len(t)
      /\ \A k \in 1..Len(t) : t[k] = p[k] /\ k \in 1..Len(p)
  <2>1. CASE limit < Len(p)
    <3>1. t = SubSeq(p, 1, limit)
      BY <2>1 DEF FirstOf
    <3> QED
      BY <3>1, <2>1, <1>1, <1>2
  <2>2. CASE ~(limit < Len(p))
    <3>1. t = p
      BY <2>2 DEF FirstOf
    <3> QED
      BY <3>1, <2>2, <1>1, <1>2
  <2> QED
    BY <2>1, <2>2
<1>4. IsInjective(t)
  BY <1>1, <1>2, <1>3 DEF IsInjective
<1>5. Range(t) \subseteq S
  BY <1>3 DEF Range
<1>6. ASSUME NEW b \in DOMAIN t, NEW a \in 1..(b - 1)
      PROVE  <<t[b], t[a]>> \notin better
  <2>1. b \in 1..Len(t) /\ a \in 1..Len(t) /\ a < b /\ Len(t) \in Nat
    BY <1>3, <1>2
  <2>2. t[b] = p[b] /\ t[a] = p[a] /\ a \in DOMAIN p /\ b \in DOMAIN p
    BY <2>1, <1>3, <1>2
  <2> QED
    BY <2>1, <2>2 DEF Sorted
<1>7. ASSUME NEW b \in DOMAIN t, NEW x \in S \ Range(t)
      PROVE  <<x, t[b]>> \notin better
  <2>1. PICK k \in 1..Len(p) : p[k] = x
    BY <1>1
  <2>2. k \notin 1..Len(t)
    BY <2>1, <1>3 DEF Range
  <2>3. b \in 1..Len(t) /\ Len(t) \in Nat
    BY <1>3, <1>2
  <2>4. b < k
    BY <2>2, <2>3, <1>2
  <2>5. b \in DOMAIN p /\ k \in DOMAIN p /\ t[b] = p[b]
    BY <2>3, <1>3, <1>2
  <2> QED
    BY <2>1, <2>4, <2>5 DEF Sorted
<1>8. Len(t) = IF limit < Cardinality(S) THEN limit ELSE Cardinality(S)
  BY <1>1, <1>3
<1> QED
  BY <1>3, <1>4, <1>5, <1>6, <1>7, <1>8 DEF Best

-----------------------------------------------------------------------------
(* What Norm keeps of a phrase *)

\* A set of numbers has a least one: what the inductions below are made of.
LEMMA Least ==
  ASSUME NEW T \in SUBSET Nat, T # {}
  PROVE  \E n \in T : \A m \in T : n <= m
<1>1. IsWellFoundedOn(OpToRel(<, Nat), Nat)
  BY NatLessThanWellFounded
<1>2. PICK n \in T : \A m \in T : ~(<<m, n>> \in OpToRel(<, Nat))
  BY <1>1, WFMin
<1>3. \A m \in Nat : m < n => <<m, n>> \in OpToRel(<, Nat)
  BY DEF OpToRel
<1>4. n \in Nat /\ \A m \in T : m \in Nat /\ ~(m < n)
  BY <1>2, <1>3
<1> QED
  BY <1>4

\* The function that Norm's loop computes, over the first n words.
Loop(phrase, n) ==
  CHOOSE f : f = [i \in 0..n |-> IF i = 0 THEN <<>> ELSE Keep(f[i - 1], phrase[i])]

\* Norm is the loop over all words.
LEMMA NormIsLoop == \A phrase : Norm(phrase) = Loop(phrase, Len(phrase))[Len(phrase)]
BY DEF Norm, Loop

\* There is such a function: from the one for n words follows that for n + 1.
LEMMA LoopExists ==
  ASSUME NEW phrase, NEW n \in Nat
  PROVE  \E f : f = [i \in 0..n |-> IF i = 0 THEN <<>> ELSE Keep(f[i - 1], phrase[i])]
<1> DEFINE Ok(m, f) == f = [i \in 0..m |-> IF i = 0 THEN <<>> ELSE Keep(f[i - 1], phrase[i])]
           T == {m \in Nat : ~\E f : Ok(m, f)}
<1>1. SUFFICES ASSUME T # {} PROVE FALSE
  OBVIOUS
<1>2. PICK m \in T : \A k \in T : m <= k
  BY <1>1, Least
<1> HIDE DEF Ok
<1>a. m \in Nat /\ \A k \in Nat : ~(\E f : Ok(k, f)) => m <= k
  BY <1>2
<1>b. ~\E f : Ok(m, f)
  BY <1>2
<1>3. CASE m = 0
  <2>1. Ok(0, [i \in 0..0 |-> <<>>])
    BY DEF Ok
  <2> QED
    BY <1>b, <1>3, <2>1
<1>4. CASE m # 0
  <2>1. m - 1 \in Nat /\ ~(m <= m - 1)
    BY <1>a, <1>4
  <2>2. PICK f : Ok(m - 1, f)
    BY <1>a, <2>1
  <2> DEFINE g == [i \in 0..m |-> IF i = m THEN Keep(f[m - 1], phrase[m]) ELSE f[i]]
  <2>3. ASSUME NEW i \in 0..m
        PROVE  g[i] = IF i = 0 THEN <<>> ELSE Keep(g[i - 1], phrase[i])
    BY <2>2, <2>1, <1>4 DEF Ok
  <2>4. Ok(m, g)
    BY <2>3 DEF Ok
  <2> QED
    BY <1>b, <2>4
<1> QED
  BY <1>3, <1>4

\* So the loop starts with nothing and keeps or skips a word at a time.
LEMMA LoopStep ==
  ASSUME NEW phrase, NEW n \in Nat
  PROVE  /\ Loop(phrase, n)[0] = <<>>
         /\ \A i \in 1..n : Loop(phrase, n)[i] = Keep(Loop(phrase, n)[i - 1], phrase[i])
<1>1. Loop(phrase, n) = [i \in 0..n |-> IF i = 0 THEN <<>> ELSE Keep(Loop(phrase, n)[i - 1], phrase[i])]
  BY LoopExists, Zenon DEF Loop
<1> HIDE DEF Loop
<1> QED
  BY <1>1

Stems == {Stem[w] : w \in DOMAIN Stem}

\* What the loop has kept after n words: the stems that are no stop words, each
\* once, in the order in which they first came.
KeptFirst(ks, phrase, n) ==
  /\ ks \in Seq(Stems)
  /\ IsInjective(ks)
  /\ Range(ks) = {Stem[phrase[j]] : j \in 1..n} \ StopWords
  /\ \A a, b \in DOMAIN ks :
       a < b => \E i \in 1..n : Stem[phrase[i]] = ks[a] /\ \A j \in 1..i : Stem[phrase[j]] # ks[b]

\* A new element at the end of a list without repetitions.
LEMMA AppendNew ==
  ASSUME NEW W, NEW s \in Seq(W), IsInjective(s), NEW e \in W, e \notin Range(s)
  PROVE  /\ Append(s, e) \in Seq(W)
         /\ IsInjective(Append(s, e))
         /\ Range(Append(s, e)) = Range(s) \cup {e}
<1> DEFINE t == Append(s, e)
           n == Len(s)
<1>1. /\ n \in Nat /\ DOMAIN s = 1..n /\ DOMAIN t = 1..(n + 1)
      /\ t[n + 1] = e /\ \A i \in 1..n : t[i] = s[i]
  OBVIOUS
<1> HIDE DEF t, n
<1>2. \A i \in DOMAIN t : i \in DOMAIN s \/ i = n + 1
  BY <1>1
<1>3. IsInjective(t)
  BY <1>1, <1>2 DEF IsInjective, Range
<1>4. Range(t) = Range(s) \cup {e}
  <2>1. Range(t) \subseteq Range(s) \cup {e}
    BY <1>1, <1>2 DEF Range
  <2>2. Range(s) \subseteq Range(t)
    BY <1>1 DEF Range
  <2>3. e \in Range(t)
    BY <1>1 DEF Range
  <2> QED
    BY <2>1, <2>2, <2>3
<1> QED
  BY <1>3, <1>4 DEF t

\* One more word.
LEMMA KeepStep ==
  ASSUME NEW phrase \in Seq(DOMAIN Stem), NEW n \in Nat, n < Len(phrase),
         NEW ks, KeptFirst(ks, phrase, n)
  PROVE  KeptFirst(Keep(ks, phrase[n + 1]), phrase, n + 1)
<1> DEFINE k == Stem[phrase[n + 1]]
<1>1. /\ phrase[n + 1] \in DOMAIN Stem /\ k \in Stems
  BY DEF Stems
<1>2. {Stem[phrase[j]] : j \in 1..(n + 1)} = {Stem[phrase[j]] : j \in 1..n} \cup {k}
  <2>1. 1..(n + 1) = (1..n) \cup {n + 1}
    OBVIOUS
  <2> QED
    BY <2>1
<1>3. /\ ks \in Seq(Stems) /\ IsInjective(ks)
      /\ Range(ks) = {Stem[phrase[j]] : j \in 1..n} \ StopWords
      /\ \A a, b \in DOMAIN ks :
           a < b => \E i \in 1..n : Stem[phrase[i]] = ks[a] /\ \A j \in 1..i : Stem[phrase[j]] # ks[b]
  BY DEF KeptFirst
<1>4. CASE k \in StopWords \cup Range(ks)
  <2>1. Keep(ks, phrase[n + 1]) = ks
    BY <1>4 DEF Keep
  <2>2. Range(ks) = {Stem[phrase[j]] : j \in 1..(n + 1)} \ StopWords
    BY <1>2, <1>3, <1>4
  <2>3. 1..n \subseteq 1..(n + 1)
    OBVIOUS
  <2>4. \A a, b \in DOMAIN ks :
           a < b => \E i \in 1..(n + 1) : Stem[phrase[i]] = ks[a] /\ \A j \in 1..i : Stem[phrase[j]] # ks[b]
    BY <1>3, <2>3
  <2> QED
    BY <1>3, <2>1, <2>2, <2>4 DEF KeptFirst
<1>5. CASE k \notin StopWords \cup Range(ks)
  <2> DEFINE t == Append(ks, k)
             m == Len(ks)
  <2>1. Keep(ks, phrase[n + 1]) = t
    BY <1>5 DEF Keep
  <2>2. t \in Seq(Stems) /\ IsInjective(t) /\ Range(t) = Range(ks) \cup {k}
    BY <1>1, <1>3, <1>5, AppendNew
  <2>3. Range(t) = {Stem[phrase[j]] : j \in 1..(n + 1)} \ StopWords
    BY <1>2, <1>3, <1>5, <2>2
  <2>4. /\ m \in Nat /\ DOMAIN ks = 1..m /\ DOMAIN t = 1..(m + 1)
        /\ t[m + 1] = k /\ \A i \in 1..m : t[i] = ks[i]
    BY <1>1, <1>3
  <2> HIDE DEF t, m, k
  <2>5. ASSUME NEW a \in DOMAIN t, NEW b \in DOMAIN t, a < b
        PROVE  \E i \in 1..(n + 1) : Stem[phrase[i]] = t[a] /\ \A j \in 1..i : Stem[phrase[j]] # t[b]
    <3>1. a \in 1..m
      BY <2>4, <2>5
    <3>2. CASE b \in 1..m
      <4>1. PICK i \in 1..n : Stem[phrase[i]] = ks[a] /\ \A j \in 1..i : Stem[phrase[j]] # ks[b]
        BY <1>3, <2>4, <2>5, <3>1, <3>2
      <4> QED
        BY <2>4, <3>1, <3>2, <4>1
    <3>3. CASE b = m + 1
      <4>1. ks[a] \in {Stem[phrase[j]] : j \in 1..n}
        BY <1>3, <2>4, <3>1 DEF Range
      <4>2. PICK i \in 1..n : Stem[phrase[i]] = ks[a]
        BY <4>1
      <4>3. k \notin {Stem[phrase[j]] : j \in 1..n}
        BY <1>3, <1>5
      <4>4. \A j \in 1..i : Stem[phrase[j]] # k
        BY <4>2, <4>3
      <4> QED
        BY <2>4, <3>1, <3>3, <4>2, <4>4
    <3> QED
      BY <2>4, <3>2, <3>3
  <2> QED
    BY <2>1, <2>2, <2>3, <2>5 DEF KeptFirst
<1> QED
  BY <1>4, <1>5

\* Norm keeps every keyword of the phrase, none twice, no stop word, in the
\* order of their first appearance.
THEOREM NormKeepsFirst ==
  ASSUME NEW phrase \in Seq(DOMAIN Stem)
  PROVE  KeptFirst(Norm(phrase), phrase, Len(phrase))
<1> DEFINE N == Len(phrase)
           kept == Loop(phrase, N)
           T == {n \in 0..N : ~KeptFirst(kept[n], phrase, n)}
<1>1. N \in Nat
  OBVIOUS
<1>2. /\ kept[0] = <<>>
      /\ \A i \in 1..N : kept[i] = Keep(kept[i - 1], phrase[i])
  BY <1>1, LoopStep
<1> HIDE DEF kept, N
<1>3. KeptFirst(kept[0], phrase, 0)
  BY <1>2 DEF KeptFirst, IsInjective, Range
<1>4. T = {}
  <2>1. SUFFICES ASSUME T # {} PROVE FALSE
    OBVIOUS
  <2>2. T \in SUBSET Nat
    BY <1>1
  <2>3. PICK n \in T : \A m \in T : n <= m
    BY <2>1, <2>2, Least
  <2>4. n \in 0..N /\ ~KeptFirst(kept[n], phrase, n)
    BY <2>3
  <2>5. n # 0
    BY <1>3, <2>4
  <2>6. n - 1 \in 0..N /\ ~(n <= n - 1)
    BY <1>1, <2>4, <2>5
  <2>7. KeptFirst(kept[n - 1], phrase, n - 1)
    BY <2>3, <2>6
  <2>8. n - 1 \in Nat /\ n - 1 < Len(phrase) /\ (n - 1) + 1 = n /\ n \in 1..N
    BY <1>1, <2>4, <2>5 DEF N
  <2>9. KeptFirst(Keep(kept[n - 1], phrase[n]), phrase, n)
    BY <2>7, <2>8, KeepStep
  <2> QED
    BY <1>2, <2>4, <2>8, <2>9
<1>5. KeptFirst(kept[N], phrase, N)
  <2>1. N \in 0..N
    BY <1>1
  <2> QED
    BY <1>4, <2>1
<1> QED
  BY <1>5, NormIsLoop DEF kept, N
=============================================================================
