------------------------------- MODULE Ranking -------------------------------
(***************************************************************************)
(* How the search service picks and orders comics: Search ranks the rows   *)
(* of the table by what they have in common with the phrase, ISearch those *)
(* that its index lists.  sort.Slice is not stable, so what ties may come  *)
(* in any order.                                                           *)
(***************************************************************************)
EXTENDS WordsService

CONSTANT TextOf   \* TextOf[i]: title, alternative text and transcript of comic i

\* The column words of comic i.
Listed == [i \in DOMAIN TextOf |-> Norm(TextOf[i])]

\* The entries of the column that are among the keywords, and all of them.
Matched(i, keywords) == Cardinality({n \in DOMAIN Listed[i] : Listed[i][n] \in Range(keywords)})
Total(i) == Len(Listed[i])

\* Bug for SearchExact: the cross products are swapped.
AheadLonger(i, j, keywords) ==
  \/ Matched(i, keywords) > Matched(j, keywords)
  \/ /\ Matched(i, keywords) = Matched(j, keywords)
     /\ Matched(i, keywords) * Total(j) < Matched(j, keywords) * Total(i)

\* The less function of rankedSearch: matches first, then matched / total,
\* compared without dividing.
Ahead(i, j, keywords) ==
  \/ Matched(i, keywords) > Matched(j, keywords)
  \/ /\ Matched(i, keywords) = Matched(j, keywords)
     /\ Matched(i, keywords) * Total(j) > Matched(j, keywords) * Total(i)

\* The first `limit` elements of p, or all.
FirstOf(p, limit) == IF limit < Len(p) THEN SubSeq(p, 1, limit) ELSE p

\* What rankedSearch may return for the rows S.
RankedSearch(S, keywords, limit) ==
  {FirstOf(p, limit) :
     p \in {q \in SetToSeqs({i \in S : Matched(i, keywords) > 0}) :
              \A a, b \in DOMAIN q : a < b => ~Ahead(q[b], q[a], keywords)}}

\* scores of ISearch: for each comic, the keywords whose list has it.
Scores(index, keywords) ==
  [i \in DOMAIN TextOf |-> Cardinality({n \in DOMAIN keywords : i \in index[keywords[n]]})]

\* What ISearch may return for the rows S that GetComicsByIds found.
ByScore(S, scores, limit) ==
  {FirstOf(p, limit) :
     p \in {q \in SetToSeqs(S) :
              \A a, b \in DOMAIN q : a < b => ~(scores[q[b]] > scores[q[a]])}}
=============================================================================
