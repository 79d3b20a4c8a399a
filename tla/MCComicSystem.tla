---------------------------- MODULE MCComicSystem ----------------------------
(* Instances of ComicSystem for TLC. *)
EXTENDS ComicSystem

\* Two comics that share a keyword, which is all the second has.
MCTextOf == [i \in 1..MaxID |-> IF i = 1 THEN <<"linux", "apples">> ELSE <<"linux">>]
MCWordsOf == [i \in 1..MaxID |-> IF i = 1 THEN {"appl", "linux"} ELSE {"linux"}]
MCWords == {"appl", "linux"}
MCStem == [w \in {"apples", "linux"} |-> IF w = "apples" THEN "appl" ELSE w]

MCRequests == {[path |-> "search", phrase |-> <<"linux">>, limit |-> 1],
               [path |-> "isearch", phrase |-> <<"linux">>, limit |-> 1]}
=============================================================================
