---------------------------- MODULE MCSearchIndex ----------------------------
(* Instances of SearchIndex for TLC. *)
EXTENDS SearchIndex

\* Two comics that share a keyword, which the text of the first repeats, and a
\* comic that has none.
MCTextOf == [i \in 1..MaxID |-> CASE i = 1 -> <<"linux", "the", "apples", "linux">>
                                   [] i = 2 -> <<"linux">>
                                   [] OTHER -> <<"the">>]
MCWords == {"appl", "linux"}
MCWordsOf == [i \in 1..MaxID |-> CASE i = 1 -> {"appl", "linux"}
                                    [] i = 2 -> {"linux"}
                                    [] OTHER -> {}]

\* The stemmer and the stop words.
MCStem == [w \in {"apple", "apples", "linux", "the"} |->
             IF w \in {"apple", "apples"} THEN "appl" ELSE w]
MCStopWords == {"the"}

\* Of two comics one is asked for: Search has one keyword, which both have,
\* ISearch two, of which one comic has both.  And a phrase that is too long.
MCRequests == {[path |-> "search", phrase |-> <<"linux">>, limit |-> 1],
               [path |-> "isearch", phrase |-> <<"linux", "apple", "the">>, limit |-> 1],
               [path |-> "isearch", phrase |-> <<"the", "the", "the", "the">>, limit |-> 1]}

MCSymmetry == Permutations(Readers)
=============================================================================
