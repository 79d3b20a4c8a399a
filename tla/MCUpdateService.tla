--------------------------- MODULE MCUpdateService ---------------------------
(* Instances of UpdateService for TLC. *)
EXTENDS UpdateService

\* Comic 2 is the special one: it has no words.  Comics 1 and 3 share a word,
\* so the total and the unique count differ.
MCWordsOf == [i \in 1..MaxID |-> IF i = SpecialID THEN {}
                                 ELSE IF i = 1 THEN {"apple", "linux"}
                                 ELSE {"linux"}]
MCWords == {"apple", "linux"}
=============================================================================
