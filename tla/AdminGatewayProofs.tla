------------------------- MODULE AdminGatewayProofs -------------------------
(***************************************************************************)
(* What an answer says of a command, from the update service to the alert, *)
(* for any number of tabs, polls and logins.                               *)
(*                                                                         *)
(* The invariant follows an answer through its translations (Good): each   *)
(* of them keeps apart what was carried out from what was not, and loses   *)
(* only why it was not.  The service works on one command at a time,       *)
(* because the flag is set by the call that begins and cleared by nobody   *)
(* but that command, also when its client has gone (OneAbandoned).         *)
(***************************************************************************)
EXTENDS AdminGateway, FiniteSetTheorems, TLAPS

Locs == {"free", "web", "gate", "call", "work", "replied", "answered", "shown", "told"}
Replies == Codes \cup Statuses \cup Alerts \cup {"", "login page"}
Deeds == {"nothing", "refused", "done", "failed"}

\* What is known of call c: a click asks for a command, only commands leave a
\* trace, nothing is done before the service is reached, and every answer that
\* sounds like success is one, or comes from the login page.
Good(c) ==
  /\ c[2] = "click" /\ pc[c] # "free" => op[c] \in Commands
  /\ pc[c] = "work" => op[c] \in Commands
  /\ op[c] \notin Commands => did[c] = "nothing"
  /\ pc[c] \in {"free", "web", "gate", "call", "work"} => did[c] = "nothing"
  /\ pc[c] = "replied" /\ op[c] \in Commands =>
       /\ reply[c] = "OK" => did[c] = "done"
       /\ reply[c] = "AlreadyExists" => did[c] = "refused"
  /\ pc[c] = "replied" => reply[c] \in Codes
  /\ pc[c] = "answered" => reply[c] \in Statuses
  /\ pc[c] \in {"answered", "shown"} /\ op[c] \in Commands =>
       /\ reply[c] = "200" => did[c] = "done"
       /\ reply[c] = "202" => did[c] = "refused"
  /\ pc[c] = "shown" /\ reply[c] = "login page" =>
       did[c] = "nothing" /\ ~Valid(token[c])
  /\ pc[c] = "told" /\ reply[c] \in {"started", "dropped"} =>
       \/ did[c] \in {"done", "refused"}
       \/ did[c] = "nothing" /\ ~Valid(token[c])

AllGood == \A c \in Calls : Good(c)

IInv == TypeOK /\ OneCommand /\ AllGood

\* The tab of a call is one of an admin.
LEMMA TabType == \A c \in Calls : Tab(c) \in Admins
BY AdminAssumption DEF Calls, Tab

\* What the translations of an answer return, for whatever they are given.
LEMMA Translations ==
  /\ \A o, outcome : ServerCode(o, outcome) \in Codes
  /\ \A o, err : GateStatus(o, err) \in Statuses /\ WebStatus(o, err) \in Statuses
  /\ \A o, s : Alert(o, s) \in Alerts
BY DEF ServerCode, GateStatus, WebStatus, Alert, Codes, Statuses, Alerts

\* Call c has moved and the other calls have not.
Only(c) ==
  \A d \in Calls : d # c =>
    /\ pc'[d] = pc[d] /\ op'[d] = op[d] /\ token'[d] = token[d]
    /\ reply'[d] = reply[d] /\ did'[d] = did[d]

\* A client that goes leaves the one command behind that it waited for, if any.
LEMMA Abandoning ==
  ASSUME TypeOK, OneCommand, NEW S, Abandon(S)
  PROVE  abandoned' = IF S \cap Working = {} THEN abandoned ELSE 1
<1>1. abandoned \in Nat
  BY DEF TypeOK
<1>2. CASE S \cap Working = {}
  BY <1>1, <1>2, FS_EmptySet DEF Abandon
<1>3. CASE S \cap Working # {}
  <2>1. PICK c : c \in S \cap Working
    BY <1>3
  <2>2. S \cap Working = {c} /\ abandoned = 0
    BY <2>1, <1>1 DEF OneCommand
  <2>3. Cardinality({c}) = 1
    BY FS_Singleton
  <2> QED
    BY <1>3, <2>2, <2>3 DEF Abandon
<1> QED
  BY <1>2, <1>3

-----------------------------------------------------------------------------
(* Types *)

\* A call moves, with an answer.
LEMMA MoveType ==
  ASSUME TypeOK, NEW c \in Calls, NEW loc \in Locs, NEW answer \in Replies,
         Goto(c, loc), Answered(c, answer),
         did' = did \/ \E d \in Deeds : did' = [did EXCEPT ![c] = d],
         inProgress' \in BOOLEAN, abandoned' \in Nat
  PROVE  TypeOK' /\ Only(c)
<1>1. /\ issued' = issued /\ dead' = dead /\ page' = page /\ cookie' = cookie
      /\ op' = op /\ token' = token
      /\ pc' = [pc EXCEPT ![c] = loc] /\ reply' = [reply EXCEPT ![c] = answer]
  BY DEF Goto, Answered, sessionVars
<1>2. pc' \in [Calls -> Locs] /\ reply' \in [Calls -> Replies] /\ did' \in [Calls -> Deeds]
  BY <1>1 DEF TypeOK, Locs, Replies, Deeds
<1>3. TypeOK'
  BY <1>1, <1>2 DEF TypeOK, Locs, Replies, Deeds
<1>4. Only(c)
  BY <1>1 DEF Only, TypeOK
<1> QED
  BY <1>3, <1>4

\* Calls end.
LEMMA FreeType ==
  ASSUME TypeOK, NEW S, Free(S),
         page' \in [Admins -> {"admin", "away"}],
         abandoned' \in Nat,
         UNCHANGED <<issued, dead, cookie, inProgress>>
  PROVE  TypeOK'
<1>1. /\ issued \in Nat
      /\ pc' \in [Calls -> Locs] /\ op' \in [Calls -> Commands \cup {"stats", "status"}]
      /\ reply' \in [Calls -> Replies] /\ did' \in [Calls -> Deeds]
  BY DEF TypeOK, Free, Locs, Replies, Deeds, Commands
<1>2. 0 \in 0..issued
  BY <1>1
<1>3. token' \in [Calls -> 0..issued]
  BY <1>2 DEF TypeOK, Free
<1> QED
  BY <1>1, <1>3 DEF TypeOK, Locs, Replies, Deeds

\* These steps are moves of a call, with an answer of their kind.
LEMMA MoveStep ==
  ASSUME NEW c \in Calls,
         \/ WebCheck(c) \/ GateCheck(c) \/ Unreachable(c) \/ Refuse(c) \/ Read(c)
         \/ Finish(c) \/ Crash(c) \/ GateReply(c) \/ WebReply(c) \/ ClientFails(c)
         \/ ShowClick(c)
  PROVE  /\ \E loc \in Locs, answer \in Replies : Goto(c, loc) /\ Answered(c, answer)
         /\ did' = did \/ \E d \in Deeds : did' = [did EXCEPT ![c] = d]
         /\ inProgress' = inProgress \/ inProgress' = FALSE
         /\ abandoned' = abandoned \/ abandoned' = 0 \/ Abandon({c})
<1> USE DEF serviceVars
<1>a. /\ "login page" \in Replies /\ "" \in Replies
      /\ Codes \subseteq Replies /\ Statuses \subseteq Replies /\ Alerts \subseteq Replies
      /\ "Unavailable" \in Codes /\ "401" \in Statuses
      /\ {"gate", "shown", "call", "answered", "replied", "told"} \subseteq Locs
      /\ {"refused", "done", "failed"} \subseteq Deeds
  BY DEF Replies, Codes, Statuses, Alerts, Locs, Deeds
<1>1. CASE WebCheck(c)
  BY <1>1, <1>a DEF WebCheck
<1>2. CASE GateCheck(c)
  BY <1>2, <1>a DEF GateCheck
<1>3. CASE Unreachable(c)
  BY <1>3, <1>a DEF Unreachable
<1>4. CASE Refuse(c)
  BY <1>4, <1>a, Translations DEF Refuse
<1>5. CASE Read(c)
  BY <1>5, <1>a, Translations DEF Read
<1>6. CASE Finish(c)
  BY <1>6, <1>a, Translations DEF Finish
<1>7. CASE Crash(c)
  BY <1>7, <1>a DEF Crash
<1>8. CASE GateReply(c)
  BY <1>8, <1>a, Translations DEF GateReply
<1>9. CASE WebReply(c)
  BY <1>9, <1>a, Translations DEF WebReply
<1>10. CASE ClientFails(c)
  BY <1>10, <1>a, Translations DEF ClientFails
<1>11. CASE ShowClick(c)
  BY <1>11, <1>a, Translations DEF ShowClick
<1> QED
  BY <1>1, <1>2, <1>3, <1>4, <1>5, <1>6, <1>7, <1>8, <1>9, <1>10, <1>11

LEMMA TypeStep == TypeOK /\ OneCommand /\ [Next]_vars => TypeOK'
<1> SUFFICES ASSUME TypeOK, OneCommand, [Next]_vars PROVE TypeOK'
  OBVIOUS
<1>0. issued \in Nat /\ dead \in 0..issued
  BY DEF TypeOK
<1>a. /\ issued \in Nat /\ dead \in Nat /\ dead <= issued
      /\ page \in [Admins -> {"admin", "away"}] /\ cookie \in [Admins -> 0..issued]
      /\ inProgress \in BOOLEAN /\ abandoned \in Nat
      /\ pc \in [Calls -> Locs] /\ op \in [Calls -> Commands \cup {"stats", "status"}]
      /\ token \in [Calls -> 0..issued] /\ reply \in [Calls -> Replies]
      /\ did \in [Calls -> Deeds]
  <2>1. dead \in Nat /\ dead <= issued
    BY <1>0
  <2> QED
    BY <2>1 DEF TypeOK, Locs, Replies, Deeds
<1>n. ASSUME NEW S, Abandon(S) PROVE abandoned' \in Nat
  BY <1>n, <1>a, Abandoning
<1>b. 0..issued \subseteq 0..(issued + 1) /\ issued + 1 \in 0..(issued + 1)
  BY <1>a
<1> USE DEF Answered, sessionVars, serviceVars, callVars
<1>1. ASSUME NEW a \in Admins, Login(a) PROVE TypeOK'
  <2>1. /\ issued' = issued + 1
        /\ cookie' = [cookie EXCEPT ![a] = issued + 1]
        /\ UNCHANGED <<dead, page, inProgress, abandoned, pc, op, token, reply, did>>
    BY <1>1 DEF Login
  <2>2. cookie' \in [Admins -> 0..(issued + 1)] /\ token \in [Calls -> 0..(issued + 1)]
    BY <1>a, <1>b, <2>1
  <2>3. issued' \in Nat /\ dead' \in 0..issued'
    BY <1>a, <2>1
  <2> QED
    BY <1>a, <2>1, <2>2, <2>3 DEF TypeOK, Locs, Replies, Deeds
<1>2. ASSUME NEW a \in Admins, OpenAdmin(a) PROVE TypeOK'
  BY <1>2 DEF OpenAdmin, TypeOK
<1>3. ASSUME NEW a, Navigate(a) PROVE TypeOK'
  <2>1. page' \in [Admins -> {"admin", "away"}]
    BY <1>3, <1>a DEF Navigate
  <2> QED
    BY <1>3, <1>n, <2>1, FreeType DEF Navigate
<1>4. CASE Expire
  <2>1. dead' \in 0..issued' /\ UNCHANGED <<issued, page, cookie, serviceVars, callVars>>
    BY <1>4, <1>a DEF Expire
  <2> QED
    BY <2>1, <1>a DEF TypeOK, Locs, Replies, Deeds
<1>5. CASE EndOrphan
  <2>1. abandoned' \in Nat
    BY <1>5, <1>a DEF EndOrphan
  <2>2. /\ inProgress' = FALSE
        /\ UNCHANGED <<issued, dead, page, cookie, pc, op, token, reply, did>>
    BY <1>5 DEF EndOrphan
  <2> QED
    BY <2>1, <2>2, <1>a DEF TypeOK, Locs, Replies, Deeds
<1>6. ASSUME NEW c \in Calls, NEW o \in Commands \cup {"stats"}, Send(c, o) PROVE TypeOK'
  <2>1. cookie[Tab(c)] \in 0..issued
    BY <1>a, TabType
  <2>2. /\ pc' = [pc EXCEPT ![c] = "web"] /\ op' = [op EXCEPT ![c] = o]
        /\ token' = [token EXCEPT ![c] = cookie[Tab(c)]]
        /\ UNCHANGED <<issued, dead, page, cookie, inProgress, abandoned, reply, did>>
    BY <1>6 DEF Send, Goto
  <2>3. pc' \in [Calls -> Locs] /\ op' \in [Calls -> Commands \cup {"stats", "status"}]
    BY <1>a, <2>2 DEF Locs
  <2>4. token' \in [Calls -> 0..issued]
    BY <1>a, <2>1, <2>2
  <2> QED
    BY <1>a, <2>2, <2>3, <2>4 DEF TypeOK, Locs, Replies, Deeds
<1>7. ASSUME NEW c \in Calls, AskStatus(c) PROVE TypeOK'
  <2>1. /\ pc' = [pc EXCEPT ![c] = "gate"] /\ op' = [op EXCEPT ![c] = "status"]
        /\ reply' = [reply EXCEPT ![c] = ""]
        /\ UNCHANGED <<issued, dead, page, cookie, inProgress, abandoned, token, did>>
    BY <1>7 DEF AskStatus, Goto
  <2> QED
    BY <1>a, <2>1 DEF TypeOK, Locs, Replies, Deeds
<1>8. ASSUME NEW c \in Calls, Dismiss(c) PROVE TypeOK'
  BY <1>8, <1>a, FreeType DEF Dismiss
<1>9. ASSUME NEW c \in Calls, Begin(c) PROVE TypeOK'
  BY <1>9, <1>a DEF Begin, Goto, TypeOK
<1>10. ASSUME NEW c \in Calls,
              \/ WebCheck(c) \/ GateCheck(c) \/ Unreachable(c) \/ Refuse(c) \/ Read(c)
              \/ Finish(c) \/ Crash(c) \/ GateReply(c) \/ WebReply(c) \/ ClientFails(c)
              \/ ShowClick(c)
       PROVE  TypeOK'
  <2>1. abandoned' \in Nat
    <3>1. abandoned' = abandoned \/ abandoned' = 0 \/ Abandon({c})
      BY <1>10, MoveStep
    <3>2. Abandon({c}) => abandoned' \in Nat
      BY <1>n
    <3> QED
      BY <3>1, <3>2, <1>a
  <2>2. inProgress' \in BOOLEAN
    BY <1>10, <1>a, MoveStep
  <2> QED
    BY <1>10, <2>1, <2>2, MoveStep, MoveType
<1>11. ASSUME NEW c \in Calls, ShowPoll(c) PROVE TypeOK'
  BY <1>11, <1>3, <1>a, FreeType DEF ShowPoll
<1>12. CASE UNCHANGED vars
  BY <1>12 DEF vars, TypeOK
<1> QED
  BY <1>1, <1>2, <1>3, <1>4, <1>5, <1>6, <1>7, <1>8, <1>9, <1>10, <1>11, <1>12
     DEF Next, Serve, Leave

-----------------------------------------------------------------------------
(* One command at a time *)

\* A step that begins no command, ends none and loses no client of one.
LEMMA OneKept ==
  ASSUME OneCommand, Working' = Working, UNCHANGED serviceVars
  PROVE  OneCommand'
BY DEF OneCommand, serviceVars

\* Clients go.  The command one of them waited for keeps the flag.
LEMMA OneAbandoned ==
  ASSUME TypeOK, OneCommand, NEW S, Abandon(S),
         Working' = Working \ S, inProgress' = inProgress
  PROVE  OneCommand'
<1>1. CASE S \cap Working = {}
  <2>1. abandoned' = abandoned /\ Working' = Working
    BY <1>1, Abandoning
  <2> QED
    BY <2>1 DEF OneCommand
<1>2. CASE S \cap Working # {}
  <2>1. abandoned' = 1 /\ Working' = {} /\ inProgress
    BY <1>2, Abandoning DEF OneCommand
  <2> QED
    BY <2>1 DEF OneCommand
<1> QED
  BY <1>1, <1>2

LEMMA OneStep == IInv /\ [Next]_vars => OneCommand'
<1> SUFFICES ASSUME IInv, [Next]_vars PROVE OneCommand'
  OBVIOUS
<1>a. /\ TypeOK /\ OneCommand /\ inProgress \in BOOLEAN /\ abandoned \in Nat
      /\ pc \in [Calls -> Locs]
  BY DEF IInv, TypeOK, Locs
<1> USE DEF Answered, sessionVars, serviceVars, callVars
<1>1. ASSUME NEW c \in Calls, NEW loc, loc # "work", Goto(c, loc)
      PROVE  Working' = Working \ {c}
  BY <1>1, <1>a DEF Goto, Working
<1>2. ASSUME NEW S, Free(S) PROVE Working' = Working \ S
  BY <1>2 DEF Free, Working
<1>3. ASSUME NEW a, Navigate(a) PROVE OneCommand'
  BY <1>2, <1>3, <1>a, OneAbandoned DEF Navigate
<1>4. ASSUME NEW a \in Admins, Login(a) \/ OpenAdmin(a) PROVE OneCommand'
  BY <1>4, <1>a, OneKept DEF Login, OpenAdmin, Working
<1>5. CASE Expire
  BY <1>5, <1>a, OneKept DEF Expire, Working
<1>6. CASE EndOrphan
  <2>1. Working = {} /\ abandoned = 1
    BY <1>6, <1>a DEF EndOrphan, OneCommand
  <2>2. Working' = {} /\ abandoned' = 0 /\ ~inProgress'
    BY <1>6, <2>1 DEF EndOrphan, Working
  <2> QED
    BY <2>2 DEF OneCommand
<1>7. ASSUME NEW c \in Calls, Begin(c) PROVE OneCommand'
  <2>1. Working = {} /\ abandoned = 0
    BY <1>7, <1>a DEF Begin, OneCommand
  <2>2. Working' = {c} /\ inProgress' /\ abandoned' = 0
    BY <1>7, <1>a, <2>1 DEF Begin, Goto, Working
  <2> QED
    BY <2>2 DEF OneCommand
<1>8. ASSUME NEW c \in Calls, Finish(c) \/ Crash(c) PROVE OneCommand'
  <2>1. c \in Working
    BY <1>8 DEF Finish, Crash, Working
  <2>2. Working = {c} /\ abandoned = 0
    BY <2>1, <1>a DEF OneCommand
  <2>3. Goto(c, "replied") /\ abandoned' = 0 /\ ~inProgress'
    BY <1>8, <2>2 DEF Finish, Crash
  <2>4. Working' = {}
    BY <1>1, <2>2, <2>3
  <2> QED
    BY <2>3, <2>4 DEF OneCommand
<1>9. ASSUME NEW c \in Calls, ClientFails(c) PROVE OneCommand'
  <2>1. Working' = Working \ {c}
    BY <1>1, <1>9 DEF ClientFails
  <2> QED
    BY <1>9, <2>1, <1>a, OneAbandoned DEF ClientFails
<1>10. ASSUME NEW c \in Calls,
              \/ \E o : Send(c, o)
              \/ WebCheck(c) \/ GateCheck(c) \/ Unreachable(c) \/ Refuse(c) \/ Read(c)
              \/ GateReply(c) \/ WebReply(c) \/ AskStatus(c) \/ ShowClick(c)
       PROVE  OneCommand'
  <2>1. UNCHANGED serviceVars /\ pc[c] # "work"
    BY <1>10 DEF Send, WebCheck, GateCheck, Unreachable, Refuse, Read, GateReply,
                 WebReply, AskStatus, ShowClick
  <2>2. \E loc : loc # "work" /\ Goto(c, loc)
    BY <1>10 DEF Send, WebCheck, GateCheck, Unreachable, Refuse, Read, GateReply,
                 WebReply, AskStatus, ShowClick
  <2>3. Working' = Working
    BY <2>1, <2>2, <1>1 DEF Working
  <2> QED
    BY <2>1, <2>3, <1>a, OneKept
<1>11. ASSUME NEW c \in Calls, Free({c}), pc[c] # "work", UNCHANGED serviceVars
       PROVE  OneCommand'
  <2>1. Working' = Working
    BY <1>2, <1>11 DEF Working
  <2> QED
    BY <1>11, <2>1, <1>a, OneKept
<1>12. ASSUME NEW c \in Calls, Dismiss(c) \/ ShowPoll(c) PROVE OneCommand'
  BY <1>3, <1>11, <1>12 DEF Dismiss, ShowPoll
<1>13. CASE UNCHANGED vars
  BY <1>13, <1>a, OneKept DEF vars, Working
<1> QED
  BY <1>3, <1>4, <1>5, <1>6, <1>7, <1>8, <1>9, <1>10, <1>12, <1>13
     DEF Next, Serve, Leave

-----------------------------------------------------------------------------
(* The answers *)

\* A token that has expired does not come back.
LEMMA Expiring ==
  ASSUME TypeOK, TypeOK', dead' >= dead, NEW d \in Calls, token'[d] = token[d]
  PROVE  Valid(token[d])' => Valid(token[d])
<1>1. /\ issued \in Nat /\ dead \in 0..issued /\ token[d] \in 0..issued
      /\ issued' \in Nat /\ dead' \in 0..issued'
  BY DEF TypeOK
<1> QED
  BY <1>1 DEF Valid

\* What an answer says is translated truly.
LEMMA Truth ==
  /\ \A o : ServerCode(o, "done") = "OK"
  /\ \A o \in Commands :
       /\ ServerCode(o, "refused") \in {"AlreadyExists", "Internal"}
       /\ ServerCode(o, "failed") = "Internal"
  /\ \A o, code : code \in Codes =>
       /\ GateStatus(o, StubError(o, code)) = "200" => code = "OK"
       /\ GateStatus(o, StubError(o, code)) = "202" => code = "AlreadyExists"
  /\ \A o, s : s \in Statuses =>
       /\ WebStatus(o, ClientError(o, s)) = "200" => s = "200"
       /\ WebStatus(o, ClientError(o, s)) = "202" => s = "202"
<1>1. \A o : ServerCode(o, "done") = "OK"
  BY DEF ServerCode
<1>2. \A o \in Commands :
        /\ ServerCode(o, "refused") \in {"AlreadyExists", "Internal"}
        /\ ServerCode(o, "failed") = "Internal"
  BY DEF ServerCode, Commands
<1>3. ASSUME NEW o, NEW code \in Codes
      PROVE  /\ GateStatus(o, StubError(o, code)) = "200" => code = "OK"
             /\ GateStatus(o, StubError(o, code)) = "202" => code = "AlreadyExists"
  <2>1. \A err : GateStatus(o, err) = "200" => err = "nil"
    BY DEF GateStatus
  <2>2. \A err : GateStatus(o, err) = "202" => err = "exists"
    BY DEF GateStatus
  <2>3. /\ StubError(o, code) = "nil" => code = "OK"
        /\ StubError(o, code) = "exists" => code = "AlreadyExists"
    BY DEF StubError
  <2> QED
    BY <2>1, <2>2, <2>3
<1>4. ASSUME NEW o, NEW s \in Statuses
      PROVE  /\ WebStatus(o, ClientError(o, s)) = "200" => s = "200"
             /\ WebStatus(o, ClientError(o, s)) = "202" => s = "202"
  <2>1. \A err : WebStatus(o, err) = "200" => err = "nil"
    BY DEF WebStatus
  <2>2. \A err : WebStatus(o, err) = "202" => err = "exists"
    BY DEF WebStatus
  <2>3. /\ ClientError(o, s) = "nil" => s = "200"
        /\ ClientError(o, s) = "exists" => s = "202"
    BY DEF ClientError
  <2> QED
    BY <2>1, <2>2, <2>3
<1> QED
  BY <1>1, <1>2, <1>3, <1>4

\* Where c has moved and how it was answered.
LEMMA MoveGood ==
  ASSUME TypeOK, AllGood, NEW c \in Calls,
         \/ WebCheck(c) \/ GateCheck(c) \/ Unreachable(c) \/ Refuse(c) \/ Read(c)
         \/ Finish(c) \/ Crash(c) \/ GateReply(c) \/ WebReply(c) \/ ClientFails(c)
         \/ ShowClick(c)
  PROVE  Good(c)'
<1>a. /\ DOMAIN pc = Calls /\ DOMAIN reply = Calls /\ DOMAIN did = Calls
      /\ did[c] \in Deeds /\ op[c] \in Commands \cup {"stats", "status"}
  BY DEF TypeOK, Deeds
<1>g. Good(c)
  BY DEF AllGood
<1>m. ASSUME NEW loc, NEW answer, Goto(c, loc), Answered(c, answer)
      PROVE  /\ pc'[c] = loc /\ reply'[c] = answer
             /\ op'[c] = op[c] /\ token'[c] = token[c] /\ dead' = dead
  BY <1>m, <1>a DEF Goto, Answered, sessionVars
<1>1. CASE WebCheck(c)
  <2>1. did'[c] = "nothing" /\ pc[c] = "web" /\ op'[c] = op[c] /\ token'[c] = token[c]
        /\ dead' = dead
    BY <1>1, <1>g, <1>m DEF WebCheck, Good
  <2>2. CASE pc'[c] = "gate"
    BY <2>1, <2>2, <1>g DEF Good, Commands
  <2>3. CASE pc'[c] = "shown" /\ reply'[c] = "login page" /\ ~Valid(token[c])
    BY <2>1, <2>3, <1>g DEF Good, Commands, Valid
  <2> QED
    BY <1>1, <1>m, <2>2, <2>3 DEF WebCheck
<1>2. CASE GateCheck(c)
  <2>1. did'[c] = "nothing" /\ pc[c] = "gate" /\ op'[c] = op[c]
    BY <1>2, <1>g, <1>m DEF GateCheck, Good
  <2>2. \/ pc'[c] = "call"
        \/ pc'[c] = "answered" /\ reply'[c] = "401"
    BY <1>2, <1>m DEF GateCheck
  <2> QED
    BY <2>1, <2>2, <1>g DEF Good, Commands, Statuses
<1>3. CASE Unreachable(c)
  <2>1. /\ did'[c] = "nothing" /\ pc[c] = "call" /\ op'[c] = op[c]
        /\ pc'[c] = "replied" /\ reply'[c] = "Unavailable"
    BY <1>3, <1>g, <1>m DEF Unreachable, Good
  <2> QED
    BY <2>1, <1>g DEF Good, Commands, Codes
<1>4. CASE Refuse(c)
  <2>1. /\ did'[c] = "refused" /\ op[c] \in Commands /\ op'[c] = op[c]
        /\ pc'[c] = "replied" /\ reply'[c] = ServerCode(op[c], "refused")
    BY <1>4, <1>a, <1>m DEF Refuse
  <2>2. reply'[c] \in {"AlreadyExists", "Internal"}
    BY <2>1, Truth
  <2> QED
    BY <2>1, <2>2 DEF Good, Codes
<1>5. CASE Read(c)
  <2>1. /\ did'[c] = "nothing" /\ op[c] \notin Commands /\ op'[c] = op[c]
        /\ pc[c] = "call" /\ pc'[c] = "replied"
        /\ \E outcome : reply'[c] = ServerCode(op[c], outcome)
    BY <1>5, <1>g, <1>m DEF Read, Good
  <2>2. reply'[c] \in Codes
    BY <2>1, Translations
  <2> QED
    BY <2>1, <2>2, <1>g DEF Good
<1>6. CASE Finish(c)
  <2>1. PICK outcome \in {"done", "failed"} :
          /\ did' = [did EXCEPT ![c] = outcome]
          /\ Answered(c, ServerCode(op[c], outcome))
    BY <1>6 DEF Finish
  <2>2. /\ did'[c] = outcome /\ op'[c] = op[c] /\ pc[c] = "work"
        /\ pc'[c] = "replied" /\ reply'[c] = ServerCode(op[c], outcome)
    BY <1>6, <2>1, <1>a, <1>m DEF Finish
  <2>w. op[c] \in Commands
    BY <2>2, <1>g DEF Good
  <2>3. /\ reply'[c] = "OK" => did'[c] = "done"
        /\ reply'[c] # "AlreadyExists"
    BY <2>2, <2>w, Truth
  <2>4. reply'[c] \in Codes
    BY <2>2, Translations
  <2> QED
    BY <2>2, <2>3, <2>4, <2>w, <1>g DEF Good
<1>7. CASE Crash(c)
  <2>1. /\ op'[c] = op[c] /\ pc[c] = "work"
        /\ pc'[c] = "replied" /\ reply'[c] = "Unavailable"
    BY <1>7, <1>m DEF Crash
  <2> QED
    BY <2>1, <1>g DEF Good, Codes
<1>8. CASE GateReply(c)
  <2>1. /\ did'[c] = did[c] /\ op'[c] = op[c] /\ pc[c] = "replied"
        /\ pc'[c] = "answered"
        /\ reply'[c] = GateStatus(op[c], StubError(op[c], reply[c]))
    BY <1>8, <1>m DEF GateReply
  <2>2. reply[c] \in Codes
    BY <2>1, <1>g DEF Good
  <2>3. /\ reply'[c] = "200" => reply[c] = "OK"
        /\ reply'[c] = "202" => reply[c] = "AlreadyExists"
    BY <2>1, <2>2, Truth
  <2>4. reply'[c] \in Statuses
    BY <2>1, Translations
  <2> QED
    BY <2>1, <2>3, <2>4, <1>g DEF Good
<1>9. CASE WebReply(c)
  <2>1. /\ did'[c] = did[c] /\ op'[c] = op[c] /\ pc[c] = "answered"
        /\ pc'[c] = "shown"
        /\ reply'[c] = WebStatus(op[c], ClientError(op[c], reply[c]))
    BY <1>9, <1>m DEF WebReply
  <2>2. reply[c] \in Statuses
    BY <2>1, <1>g DEF Good
  <2>3. /\ reply'[c] = "200" => reply[c] = "200"
        /\ reply'[c] = "202" => reply[c] = "202"
    BY <2>1, <2>2, Truth
  <2>4. reply'[c] \in Statuses
    BY <2>1, Translations
  <2>5. reply'[c] # "login page"
    BY <2>4 DEF Statuses
  <2> QED
    BY <2>1, <2>3, <2>5, <1>g DEF Good
<1>10. CASE ClientFails(c)
  <2>1. /\ did'[c] = did[c] /\ op'[c] = op[c] /\ pc[c] # "free"
        /\ pc'[c] = "shown" /\ reply'[c] = WebStatus(op[c], "other")
    BY <1>10, <1>m DEF ClientFails
  <2>2. reply'[c] = "500"
    BY <2>1 DEF WebStatus
  <2> QED
    BY <2>1, <2>2, <1>g DEF Good
<1>11. CASE ShowClick(c)
  <2>1. /\ did'[c] = did[c] /\ op'[c] = op[c] /\ pc[c] = "shown" /\ c[2] = "click"
        /\ pc'[c] = "told" /\ reply'[c] = Alert(op[c], reply[c])
        /\ token'[c] = token[c] /\ dead' = dead
    BY <1>11, <1>m DEF ShowClick
  <2>2. reply'[c] \in {"started", "dropped"} => reply[c] \in {"200", "202", "login page"}
    BY <2>1 DEF Alert
  <2>3. op[c] \in Commands
    BY <2>1, <1>g DEF Good
  <2>4. reply'[c] \in {"started", "dropped"} =>
          did[c] \in {"done", "refused"} \/ (did[c] = "nothing" /\ ~Valid(token[c]))
    BY <2>1, <2>2, <2>3, <1>g DEF Good
  <2>5. Valid(token[c])' => Valid(token[c])
    BY <2>1 DEF Valid
  <2> QED
    BY <2>1, <2>3, <2>4, <2>5, <1>g DEF Good
<1> QED
  BY <1>1, <1>2, <1>3, <1>4, <1>5, <1>6, <1>7, <1>8, <1>9, <1>10, <1>11

\* The other calls keep what is known of them, also when a token expires.
LEMMA GoodKept ==
  ASSUME TypeOK, TypeOK', AllGood, dead' >= dead,
         NEW c \in Calls, Only(c), Good(c)'
  PROVE  AllGood'
<1> SUFFICES ASSUME NEW d \in Calls PROVE Good(d)'
  BY DEF AllGood
<1>1. CASE d = c
  BY <1>1
<1>2. CASE d # c
  <2>1. /\ pc'[d] = pc[d] /\ op'[d] = op[d] /\ token'[d] = token[d]
        /\ reply'[d] = reply[d] /\ did'[d] = did[d]
    BY <1>2 DEF Only
  <2>2. Valid(token[d])' => Valid(token[d])
    BY <2>1, Expiring
  <2> QED
    BY <2>1, <2>2 DEF AllGood, Good, Commands, Codes, Statuses
<1> QED
  BY <1>1, <1>2

\* Calls that end leave nothing behind.
LEMMA FreeGood ==
  ASSUME TypeOK, AllGood, dead' = dead, NEW S, Free(S)
  PROVE  AllGood'
<1> SUFFICES ASSUME NEW d \in Calls PROVE Good(d)'
  BY DEF AllGood
<1>1. CASE d \in S
  <2>1. pc'[d] = "free" /\ op'[d] = "status" /\ did'[d] = "nothing"
    BY <1>1 DEF Free
  <2> QED
    BY <2>1 DEF Good, Commands
<1>2. CASE d \notin S
  <2>1. /\ pc'[d] = pc[d] /\ op'[d] = op[d] /\ token'[d] = token[d]
        /\ reply'[d] = reply[d] /\ did'[d] = did[d]
    BY <1>2 DEF Free
  <2> QED
    BY <2>1 DEF AllGood, Good, Valid, Commands, Codes, Statuses
<1> QED
  BY <1>1, <1>2

LEMMA GoodStep == IInv /\ [Next]_vars => AllGood'
<1> SUFFICES ASSUME IInv, [Next]_vars PROVE AllGood'
  OBVIOUS
<1>t. TypeOK /\ TypeOK' /\ AllGood /\ OneCommand
  BY TypeStep DEF IInv
<1>a. /\ pc \in [Calls -> Locs] /\ op \in [Calls -> Commands \cup {"stats", "status"}]
      /\ reply \in [Calls -> Replies] /\ did \in [Calls -> Deeds]
      /\ dead \in 0..issued /\ issued \in Nat
      /\ DOMAIN token = Calls
  BY <1>t DEF TypeOK, Locs, Replies, Deeds
<1>b. dead >= dead /\ dead + 1 >= dead
  BY <1>a
<1> USE DEF Answered, sessionVars, serviceVars, callVars
<1>1. ASSUME UNCHANGED callVars, dead' >= dead PROVE AllGood'
  <2> SUFFICES ASSUME NEW d \in Calls PROVE Good(d)'
    BY DEF AllGood
  <2>1. Valid(token[d])' => Valid(token[d])
    BY <1>1, <1>t, Expiring
  <2> QED
    BY <1>1, <1>t, <2>1 DEF AllGood, Good, Commands, Codes, Statuses
<1>2. ASSUME NEW a, Navigate(a) PROVE AllGood'
  BY <1>2, <1>t, FreeGood DEF Navigate
<1>3. ASSUME NEW a \in Admins, Login(a) \/ OpenAdmin(a) PROVE AllGood'
  BY <1>1, <1>3, <1>b DEF Login, OpenAdmin
<1>4. CASE Expire \/ EndOrphan
  BY <1>1, <1>4, <1>b DEF Expire, EndOrphan
<1>5. ASSUME NEW c \in Calls, Dismiss(c) PROVE AllGood'
  BY <1>5, <1>t, FreeGood DEF Dismiss
<1>6. ASSUME NEW c \in Calls, ShowPoll(c) PROVE AllGood'
  BY <1>2, <1>6, <1>t, FreeGood DEF ShowPoll
<1>7. ASSUME NEW c \in Calls, Good(c)', Only(c), dead' = dead PROVE AllGood'
  BY <1>7, <1>t, <1>b, GoodKept
<1>8. ASSUME NEW c \in Calls, NEW o \in Commands \cup {"stats"}, Send(c, o) PROVE AllGood'
  <2>1. Only(c) /\ dead' = dead
    BY <1>8, <1>a DEF Send, Goto, Only
  <2>2. /\ pc'[c] = "web" /\ op'[c] = o /\ did'[c] = did[c] /\ did[c] = "nothing"
        /\ c[2] = "click" => o \in Commands
    BY <1>8, <1>a, <1>t DEF Send, Goto, AllGood, Good
  <2>3. Good(c)'
    BY <2>2 DEF Good, Commands
  <2> QED
    BY <1>7, <2>1, <2>3
<1>9. ASSUME NEW c \in Calls, AskStatus(c) PROVE AllGood'
  <2>1. Only(c) /\ dead' = dead
    BY <1>9, <1>a DEF AskStatus, Goto, Only
  <2>2. /\ pc'[c] = "gate" /\ op'[c] = "status" /\ did'[c] = "nothing"
        /\ c[2] # "click"
    BY <1>9, <1>a, <1>t DEF AskStatus, Goto, AllGood, Good, Commands
  <2>3. Good(c)'
    BY <2>2 DEF Good, Commands
  <2> QED
    BY <1>7, <2>1, <2>3
<1>10. ASSUME NEW c \in Calls, Begin(c) PROVE AllGood'
  <2>1. Only(c) /\ dead' = dead
    BY <1>10, <1>a DEF Begin, Goto, Only
  <2>2. pc'[c] = "work" /\ op'[c] = op[c] /\ op[c] \in Commands /\ did'[c] = "nothing"
    BY <1>10, <1>a, <1>t DEF Begin, Goto, AllGood, Good
  <2>3. Good(c)'
    BY <2>2 DEF Good
  <2> QED
    BY <1>7, <2>1, <2>3
<1>11. ASSUME NEW c \in Calls,
              \/ WebCheck(c) \/ GateCheck(c) \/ Unreachable(c) \/ Refuse(c) \/ Read(c)
              \/ Finish(c) \/ Crash(c) \/ GateReply(c) \/ WebReply(c) \/ ClientFails(c)
              \/ ShowClick(c)
       PROVE  AllGood'
  <2>1. PICK loc \in Locs, answer \in Replies : Goto(c, loc) /\ Answered(c, answer)
    BY <1>11, MoveStep
  <2>2. /\ did' = did \/ \E d \in Deeds : did' = [did EXCEPT ![c] = d]
        /\ inProgress' \in BOOLEAN /\ abandoned' \in Nat
    BY <1>11, <1>t, MoveStep, Abandoning DEF TypeOK
  <2>3. Only(c) /\ dead' = dead
    BY <2>1, <2>2, <1>t, MoveType
  <2>4. Good(c)'
    BY <1>11, <1>a, <1>t, MoveGood
  <2> QED
    BY <1>7, <2>3, <2>4
<1>12. CASE UNCHANGED vars
  BY <1>1, <1>12, <1>b DEF vars
<1> QED
  BY <1>2, <1>3, <1>4, <1>5, <1>6, <1>8, <1>9, <1>10, <1>11, <1>12
     DEF Next, Serve, Leave

-----------------------------------------------------------------------------
(* The theorems *)

THEOREM Invariance == Spec => []IInv
<1>1. Init => IInv
  <2> SUFFICES ASSUME Init PROVE IInv
    OBVIOUS
  <2>1. TypeOK
    <3>0. issued = 0 /\ dead = 0
      BY DEF Init
    <3>1. issued \in Nat /\ dead \in 0..issued /\ 0 \in 0..issued
      BY <3>0
    <3> QED
      BY <3>1 DEF Init, TypeOK
  <2>2. OneCommand /\ AllGood
    BY DEF Init, OneCommand, Working, AllGood, Good, Commands
  <2> QED
    BY <2>1, <2>2 DEF IInv
<1>2. IInv /\ [Next]_vars => IInv'
  BY TypeStep, OneStep, GoodStep DEF IInv
<1> QED
  BY <1>1, <1>2, PTL DEF Spec

\* The variables of the page, the session and the calls keep their types; no
\* token is in use before it is issued.
THEOREM TypeCorrect == Spec => []TypeOK
BY Invariance, PTL DEF IInv

\* Whatever clients give up, pages are left and services crash, the service
\* works on one command at a time, those included that nobody waits for, and the
\* flag is set exactly while it does.
THEOREM OneAtATime == Spec => []OneCommand
BY Invariance, PTL DEF IInv

\* 200 means that the command was carried out, 202 that another was under way.
THEOREM AnswersAreTrue == Spec => []AnswersTrue
<1>1. AllGood => AnswersTrue
  BY DEF AllGood, Good, AnswersTrue
<1> QED
  BY <1>1, Invariance, PTL DEF IInv

\* A page calls nothing a success that failed or was never tried, unless the
\* session had expired.
THEOREM FailuresAreReported == Spec => []FailureReported
<1>1. AllGood => FailureReported
  BY DEF AllGood, Good, FailureReported
<1> QED
  BY <1>1, Invariance, PTL DEF IInv
=============================================================================
