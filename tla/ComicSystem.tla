---------------------------- MODULE ComicSystem ----------------------------
(***************************************************************************)
(* The update service and the search service over one database and one     *)
(* broker.  SearchIndex composes the search service with the abstract      *)
(* store; here the store is the update service itself, with its handlers,  *)
(* workers, transactions and crashes.  The processes share the committed   *)
(* rows and the events on their way, and nothing else.                     *)
(***************************************************************************)
EXTENDS UpdateService

CONSTANTS
  Readers, Requests, TextOf, Stem, StopWords, MaxPhraseLen  \* as in SearchIndex

VARIABLES
  index, owner, phase, attached, job, todo,   \* the search process
  spc,                                        \* its program counters, its pc
  query, scores, reply, shown, lost, current,
  promised   \* ghost: comics an Update that returned no error has left stored

Index == INSTANCE SearchIndex WITH pc <- spc, owed <- Owed

ASSUME SystemAssumption ==
  /\ Index!VocabularyAssumption
  /\ Index!TextAssumption
  /\ Index!RequestAssumption
  /\ Index!ReaderAssumption

serviceVars == <<xkcdLast, inProgress, pc, cancelled, run>>
searchVars == <<index, owner, phase, attached, job, todo, spc, query, scores, reply, shown>>
sysVars == <<vars, searchVars, lost, current, promised>>

SysInit ==
  /\ Init
  /\ Index!Init
  /\ promised = {}

-----------------------------------------------------------------------------
(* A step of the update service, or of xkcd.com *)

\* What c's Update says is stored when it returns without an error.
Stored(c) ==
  IF run[c].outcome = "updated" THEN 1..run[c].last \ run[c].skipped ELSE {}

\* The ghosts of SearchIndex.  A change that owes no event, or whose event the
\* handler has given up, is lost; after a change every answer under way is one
\* about the past.
Remembered ==
  /\ lost' = IF UNCHANGED Index!storeVars \/ events' # events THEN lost
             ELSE (Owed' = "none")
  /\ current' = IF UNCHANGED Index!storeVars \/ Owed # "none" THEN current ELSE {}

\* A committed Drop takes back what was promised.
Promises ==
  promised' = IF comics # {} /\ comics' = {} THEN {}
              ELSE promised \cup UNION {Stored(c) : c \in {c \in Callers : pc'[c] = "idle"}}

ServiceStep ==
  /\ \/ \E c \in Callers : Begin(c) \/ Handler(c) \/ Cancel(c)
     \/ \E c \in Callers, w \in Workers : Worker(c, w)
     \/ Crash
     \/ NewComic
  /\ UNCHANGED searchVars
  /\ Remembered
  /\ Promises

-----------------------------------------------------------------------------
(* A step of the search service, or of the connection to the broker.  They  *)
(* are what UpdateService leaves to the environment in its Take.           *)

SearchStep ==
  /\ UNCHANGED <<serviceVars, promised>>
  /\ \/ Index!Attach \/ Index!Disconnect \/ Index!Miss
     \/ Index!Start \/ Index!Tick \/ Index!HandleEvent
     \/ \E w \in Index!Writers : Index!Writer(w)
     \/ \E r \in Readers : Index!RLock(r) \/ Index!Search(r) \/ Index!Reader(r)
     \/ Index!Exit

SysNext == ServiceStep \/ SearchStep

SysSpec == SysInit /\ [][SysNext]_sysVars

-----------------------------------------------------------------------------
(* Properties *)

SysTypeOK ==
  /\ TypeOK
  /\ Index!TypeOK
  /\ promised \in SUBSET Ids

\* The inductive invariant behind Found: that of the update service, and what
\* was promised is in the table.
SysInv == IInv /\ promised \subseteq comics

\* What SearchIndex says of the abstract store holds of the update service:
\* every behaviour of the two services is one of SearchIndex.
ImplementsIndex == Index!Spec

\* A comic that an Update reported as stored is found: a Search that nothing
\* overtakes, and an ISearch that begins when the last change was dealt with,
\* return it whenever it shares a keyword with the phrase, unless the limit
\* is reached with comics that share at least as many.
Found ==
  \A r \in current, i \in promised :
    spc[r] \in {"reply", "answer"} /\ Index!Common(r, i) > 0 =>
      \/ \E n \in DOMAIN reply[r] : reply[r][n] = i
      \/ /\ Len(reply[r]) = query[r].limit
         /\ \A n \in DOMAIN reply[r] : Index!Common(r, reply[r][n]) >= Index!Common(r, i)
=============================================================================
