---------------------------- MODULE WordsService ----------------------------
(***************************************************************************)
(* The words service: a phrase, split at everything that is neither letter *)
(* nor digit, becomes the list of its keywords.  It keeps no state.        *)
(***************************************************************************)
EXTENDS Naturals, SequencesExt

CONSTANTS
  Stem,          \* the English stemmer: Stem[w] is the keyword of word w
  StopWords,     \* the stems that carry no meaning
  MaxPhraseLen   \* the longest phrase the service takes, in words here

\* A word is stemmed first and the stem compared with the stop words and with
\* the keywords found before it.
Keep(keywords, word) ==
  IF Stem[word] \in StopWords \cup Range(keywords) THEN keywords
  ELSE Append(keywords, Stem[word])

\* The loop over the words of the phrase, whose order is kept.
Norm(phrase) ==
  LET kept[n \in 0..Len(phrase)] ==
        IF n = 0 THEN <<>> ELSE Keep(kept[n - 1], phrase[n])
  IN  kept[Len(phrase)]

\* The handler refuses a longer phrase (ResourceExhausted), which the clients
\* of the service take for a bad argument.
Accepted(phrase) == Len(phrase) <= MaxPhraseLen
=============================================================================
