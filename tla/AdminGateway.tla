---------------------------- MODULE AdminGateway ----------------------------
(***************************************************************************)
(* The way of an admin's command: admin page, frontend, API gateway and    *)
(* update service.  A tab of the browser has two calls under way at most,  *)
(* the click of its user and the page's poll of the statistics.  A call is *)
(* an HTTP request to the frontend, an HTTP request from there to the      *)
(* gateway and an RPC from there to the update service, and its answer is  *)
(* translated at each of them on its way back.  On the way the session's   *)
(* token may expire, a client give up or a service crash.                  *)
(*                                                                         *)
(* The update service is its flag and the outcome of what holds it;        *)
(* UpdateService has the details.                                          *)
(***************************************************************************)
EXTENDS Naturals, FiniteSets

CONSTANTS
  Admins,      \* tabs of the browsers of admins
  Polling,     \* those of them whose polls are modelled
  MaxTokens    \* bound: so many logins

ASSUME AdminAssumption ==
  /\ Polling \subseteq Admins
  /\ MaxTokens \in Nat

\* A tab's click and its poll.
Calls == (Admins \X {"click"}) \cup (Polling \X {"poll"})
Tab(c) == c[1]
CallsOf(a) == {c \in Calls : Tab(c) = a}

VARIABLES
  issued,      \* how many tokens were issued
  dead,        \* how many of them have expired: the oldest ones
  page,        \* page[a]: tab a shows the admin page, or another one
  cookie,      \* cookie[a]: the token in the cookie, 0 if there is none
  inProgress,  \* the update service's flag
  abandoned,   \* ghost: how many commands go on there that nobody waits for
  pc,          \* pc[c]: how far c has got
  op,          \* op[c]: what c asks of the gateway
  token,       \* token[c]: the token c was sent with
  reply,       \* reply[c]: c's answer, as translated so far
  did          \* ghost, did[c]: what the service did with c's command

sessionVars == <<issued, dead, page, cookie>>
serviceVars == <<inProgress, abandoned>>
callVars == <<pc, op, token, reply, did>>
vars == <<sessionVars, serviceVars, callVars>>

Init ==
  /\ issued = 0 /\ dead = 0
  /\ page = [a \in Admins |-> "away"]
  /\ cookie = [a \in Admins |-> 0]
  /\ inProgress = FALSE /\ abandoned = 0
  /\ pc = [c \in Calls |-> "free"]
  /\ op = [c \in Calls |-> "status"]
  /\ token = [c \in Calls |-> 0]
  /\ reply = [c \in Calls |-> ""]
  /\ did = [c \in Calls |-> "nothing"]

Commands == {"update", "drop"}

\* ValidateToken
Valid(t) == t > dead

\* The calls whose command the service is working on.
Working == {c \in Calls : pc[c] = "work"}

\* Nobody waits for the calls of S any more; what they have begun goes on.
Abandon(S) == abandoned' = abandoned + Cardinality(S \cap Working)

-----------------------------------------------------------------------------
(* The answers *)

\* Bug for AnswersTrue: every error of Update means "already running".
ServerCodeAnyError(o, outcome) ==
  CASE outcome = "done" -> "OK"
    [] outcome # "done" /\ o = "update" -> "AlreadyExists"
    [] OTHER -> "Internal"

\* server.go: the RPC server's codes for what the service returns.
ServerCode(o, outcome) ==
  CASE outcome = "done" -> "OK"
    [] outcome = "refused" /\ o = "update" -> "AlreadyExists"
    [] OTHER -> "Internal"


\* update.go: the gateway's errors for the codes it gets.
StubError(o, code) ==
  CASE code = "OK" -> "nil"
    [] code = "Unavailable" -> "unavailable"
    [] code = "AlreadyExists" /\ o = "update" -> "exists"
    [] OTHER -> "other"

\* api.go: the gateway's status for an error.
GateStatus(o, err) ==
  CASE err = "nil" -> "200"
    [] err = "unavailable" -> "503"
    [] err = "exists" /\ o \in Commands -> "202"
    [] OTHER -> "500"

\* The frontend's client, doMutate and doGet.
ClientError(o, status) ==
  CASE status = "200" -> "nil"
    [] status = "503" -> "unavailable"
    [] status = "202" /\ o \in Commands -> "exists"
    [] OTHER -> "other"

\* web.go: the frontend's status.  Drop has no case for "exists".
WebStatus(o, err) ==
  CASE err = "nil" -> "200"
    [] err = "unavailable" -> "503"
    [] err = "exists" /\ o = "update" -> "202"
    [] OTHER -> "500"

\* Bug for FailureReported: response.ok is not looked at.
AlertAnyway(o, status) == IF o = "update" THEN "started" ELSE "dropped"

\* admin.js: the alert.  response.ok is true for every 2xx status, and for the
\* login page, where fetch arrives when it follows a redirect.
Alert(o, status) ==
  IF status \in {"200", "202", "login page"}
  THEN IF o = "update" THEN "started" ELSE "dropped"
  ELSE IF status = "202" THEN "in progress" ELSE "failed"

-----------------------------------------------------------------------------
(* The session *)

\* Bug for TypeOK: two sessions get the same token, one before it is issued.
LoginKeepsCount(a) ==
  /\ page[a] = "away"
  /\ issued < MaxTokens
  /\ cookie' = [cookie EXCEPT ![a] = issued + 1]
  /\ UNCHANGED <<issued, dead, page, serviceVars, callVars>>

\* A good login: CreateToken, and the cookie.
Login(a) ==
  /\ page[a] = "away"
  /\ issued < MaxTokens
  /\ issued' = issued + 1
  /\ cookie' = [cookie EXCEPT ![a] = issued + 1]
  /\ UNCHANGED <<dead, page, serviceVars, callVars>>

\* GET /admin; without a valid token it is redirected to the login page.
OpenAdmin(a) ==
  /\ page[a] = "away"
  /\ Valid(cookie[a])
  /\ page' = [page EXCEPT ![a] = "admin"]
  /\ UNCHANGED <<issued, dead, cookie, serviceVars, callVars>>

\* The oldest token expires, and the cookie that holds it.
Expire ==
  /\ dead < issued
  /\ dead' = dead + 1
  /\ UNCHANGED <<issued, page, cookie, serviceVars, callVars>>

\* The calls of S are over.
Free(S) ==
  /\ pc' = [c \in Calls |-> IF c \in S THEN "free" ELSE pc[c]]
  /\ op' = [c \in Calls |-> IF c \in S THEN "status" ELSE op[c]]
  /\ token' = [c \in Calls |-> IF c \in S THEN 0 ELSE token[c]]
  /\ reply' = [c \in Calls |-> IF c \in S THEN "" ELSE reply[c]]
  /\ did' = [c \in Calls |-> IF c \in S THEN "nothing" ELSE did[c]]

\* The tab shows another page and its calls are aborted.  A command that the
\* service has begun goes on there, without anybody who waits for it.
Navigate(a) ==
  /\ page' = [page EXCEPT ![a] = "away"]
  /\ Free(CallsOf(a))
  /\ Abandon(CallsOf(a))
  /\ UNCHANGED <<issued, dead, cookie, inProgress>>

\* The user leaves the page, or closes the tab.  Logging out does no more: the
\* page cannot delete a cookie that is HttpOnly.
Leave(a) ==
  /\ page[a] = "admin"
  /\ Navigate(a)

-----------------------------------------------------------------------------
(* A call on its way to the service *)

Answered(c, answer) ==
  /\ reply' = [reply EXCEPT ![c] = answer]
  /\ UNCHANGED <<sessionVars, op, token>>

Goto(c, loc) == pc' = [pc EXCEPT ![c] = loc]

\* While an alert is open the page runs no code.
Blocked(a) == \E c \in CallsOf(a) : pc[c] = "told"

\* updateDB, dropDB or loadStats fetches.
Send(c, o) ==
  /\ page[Tab(c)] = "admin"
  /\ ~Blocked(Tab(c))
  /\ pc[c] = "free"
  /\ o \in IF c[2] = "click" THEN Commands ELSE {"stats"}
  /\ Goto(c, "web")
  /\ op' = [op EXCEPT ![c] = o]
  /\ token' = [token EXCEPT ![c] = cookie[Tab(c)]]
  /\ UNCHANGED <<sessionVars, serviceVars, reply, did>>

\* The frontend's CheckToken.  fetch follows the redirect to the login page.
WebCheck(c) ==
  /\ pc[c] = "web"
  /\ \/ /\ Valid(token[c])
        /\ Goto(c, "gate")
        /\ Answered(c, "")
     \/ /\ ~Valid(token[c])
        /\ Goto(c, "shown")
        /\ Answered(c, "login page")
  /\ UNCHANGED <<serviceVars, did>>

\* The gateway's CheckToken, in front of the commands.
GateCheck(c) ==
  /\ pc[c] = "gate"
  /\ \/ /\ op[c] \in Commands => Valid(token[c])
        /\ Goto(c, "call")
        /\ Answered(c, "")
     \/ /\ op[c] \in Commands /\ ~Valid(token[c])
        /\ Goto(c, "answered")
        /\ Answered(c, "401")
  /\ UNCHANGED <<serviceVars, did>>

\* The update service cannot be reached.
Unreachable(c) ==
  /\ pc[c] = "call"
  /\ Goto(c, "replied")
  /\ Answered(c, "Unavailable")
  /\ UNCHANGED <<serviceVars, did>>

\* Update or Drop sets inProgress.
Begin(c) ==
  /\ pc[c] = "call"
  /\ op[c] \in Commands
  /\ ~inProgress
  /\ inProgress' = TRUE
  /\ Goto(c, "work")
  /\ UNCHANGED <<sessionVars, abandoned, op, token, reply, did>>

\* Update or Drop finds inProgress set.
Refuse(c) ==
  /\ pc[c] = "call"
  /\ op[c] \in Commands
  /\ inProgress
  /\ did' = [did EXCEPT ![c] = "refused"]
  /\ Goto(c, "replied")
  /\ Answered(c, ServerCode(op[c], "refused"))
  /\ UNCHANGED serviceVars

\* Update or Drop returns and clears inProgress.
Finish(c) ==
  /\ pc[c] = "work"
  /\ inProgress' = FALSE
  /\ \E outcome \in {"done", "failed"} :
       /\ did' = [did EXCEPT ![c] = outcome]
       /\ Answered(c, ServerCode(op[c], outcome))
  /\ Goto(c, "replied")
  /\ UNCHANGED abandoned

\* Stats and Status, which take no flag; Stats may fail.
Read(c) ==
  /\ pc[c] = "call"
  /\ op[c] \notin Commands
  /\ \E outcome \in {"done"} \cup IF op[c] = "stats" THEN {"failed"} ELSE {} :
       Answered(c, ServerCode(op[c], outcome))
  /\ Goto(c, "replied")
  /\ UNCHANGED <<serviceVars, did>>

Serve(c) == Unreachable(c) \/ Begin(c) \/ Refuse(c) \/ Read(c)

\* What nobody waits for any more returns too, or crashes.
EndOrphan ==
  /\ abandoned > 0
  /\ inProgress' = FALSE
  /\ abandoned' = abandoned - 1
  /\ UNCHANGED <<sessionVars, callVars>>

\* The update service crashes with a command under way, which may have been
\* committed already.
Crash(c) ==
  /\ pc[c] = "work"
  /\ inProgress' = FALSE
  /\ abandoned' = 0
  /\ \E outcome \in {"done", "failed"} : did' = [did EXCEPT ![c] = outcome]
  /\ Goto(c, "replied")
  /\ Answered(c, "Unavailable")

-----------------------------------------------------------------------------
(* The answer on its way back *)

\* The gateway's client and handler.
GateReply(c) ==
  /\ pc[c] = "replied"
  /\ Goto(c, "answered")
  /\ Answered(c, GateStatus(op[c], StubError(op[c], reply[c])))
  /\ UNCHANGED <<serviceVars, did>>

\* The frontend's client and handler.
WebReply(c) ==
  /\ pc[c] = "answered"
  /\ ~(op[c] = "stats" /\ reply[c] = "200")
  /\ Goto(c, "shown")
  /\ Answered(c, WebStatus(op[c], ClientError(op[c], reply[c])))
  /\ UNCHANGED <<serviceVars, did>>

\* The handler of the statistics has one more question.
AskStatus(c) ==
  /\ pc[c] = "answered"
  /\ op[c] = "stats" /\ reply[c] = "200"
  /\ Goto(c, "gate")
  /\ op' = [op EXCEPT ![c] = "status"]
  /\ reply' = [reply EXCEPT ![c] = ""]
  /\ UNCHANGED <<sessionVars, serviceVars, token, did>>

\* Bug for OneCommand: the flag is cleared when the client goes, not when the
\* command returns.
ClientFailsClears(c) ==
  /\ pc[c] \in {"gate", "call", "work", "replied", "answered"}
  /\ Goto(c, "shown")
  /\ Answered(c, WebStatus(op[c], "other"))
  /\ inProgress' = FALSE
  /\ Abandon({c})
  /\ UNCHANGED did

\* Bug for ClickAnswered: no time-out once the gateway has called the service.
ClientFailsEarly(c) ==
  /\ pc[c] \in {"gate", "call"}
  /\ Goto(c, "shown")
  /\ Answered(c, WebStatus(op[c], "other"))
  /\ UNCHANGED <<serviceVars, did>>

\* The frontend's client fails: no connection to the gateway, or no answer in
\* time.  The gateway drops the call.
ClientFails(c) ==
  /\ pc[c] \in {"gate", "call", "work", "replied", "answered"}
  /\ Goto(c, "shown")
  /\ Answered(c, WebStatus(op[c], "other"))
  /\ Abandon({c})
  /\ UNCHANGED <<inProgress, did>>

\* The page alerts what became of the click.
ShowClick(c) ==
  /\ pc[c] = "shown"
  /\ c[2] = "click"
  /\ ~Blocked(Tab(c))
  /\ Goto(c, "told")
  /\ Answered(c, Alert(op[c], reply[c]))
  /\ UNCHANGED <<serviceVars, did>>

\* The user closes the alert.
Dismiss(c) ==
  /\ pc[c] = "told"
  /\ Free({c})
  /\ UNCHANGED <<sessionVars, serviceVars>>

\* Bug for ExpiredPageLeaves: only an error sends loadStats to the login page,
\* not a page instead of JSON.
ShowPollOk(c) ==
  /\ pc[c] = "shown"
  /\ c[2] = "poll"
  /\ ~Blocked(Tab(c))
  /\ \/ /\ reply[c] \in {"200", "login page"}
        /\ Free({c})
        /\ UNCHANGED <<sessionVars, serviceVars>>
     \/ /\ reply[c] \notin {"200", "login page"}
        /\ Navigate(Tab(c))

\* loadStats shows the statistics; anything else sends it to the login page.
ShowPoll(c) ==
  /\ pc[c] = "shown"
  /\ c[2] = "poll"
  /\ ~Blocked(Tab(c))
  /\ \/ /\ reply[c] = "200"
        /\ Free({c})
        /\ UNCHANGED <<sessionVars, serviceVars>>
     \/ /\ reply[c] # "200"
        /\ Navigate(Tab(c))

-----------------------------------------------------------------------------

Next ==
  \/ \E a \in Admins : Login(a) \/ OpenAdmin(a) \/ Leave(a)
  \/ Expire \/ EndOrphan
  \/ \E c \in Calls :
       \/ \E o \in Commands \cup {"stats"} : Send(c, o)
       \/ WebCheck(c) \/ GateCheck(c) \/ Serve(c) \/ Finish(c) \/ Crash(c)
       \/ GateReply(c) \/ WebReply(c) \/ AskStatus(c) \/ ClientFails(c)
       \/ ShowClick(c) \/ Dismiss(c) \/ ShowPoll(c)

Spec == Init /\ [][Next]_vars

\* Processes run, the page's interval fires, its code runs as soon as no alert
\* is open, the frontend's client has a time-out and the user closes alerts.
\* An Update need not end.
Fairness ==
  \A c \in Calls :
    /\ WF_vars(WebCheck(c)) /\ WF_vars(GateCheck(c)) /\ WF_vars(Serve(c))
    /\ WF_vars(GateReply(c)) /\ WF_vars(WebReply(c) \/ AskStatus(c))
    /\ WF_vars(ClientFails(c))
    /\ WF_vars(ShowClick(c)) /\ WF_vars(Dismiss(c)) /\ SF_vars(ShowPoll(c))
    /\ SF_vars(Send(c, "stats"))

FairSpec == Spec /\ Fairness

-----------------------------------------------------------------------------
(* Properties *)

Codes == {"OK", "AlreadyExists", "Internal", "Unavailable"}
Statuses == {"200", "202", "401", "500", "503"}
Alerts == {"started", "dropped", "in progress", "failed"}

TypeOK ==
  /\ issued \in Nat /\ dead \in 0..issued
  /\ page \in [Admins -> {"admin", "away"}]
  /\ cookie \in [Admins -> 0..issued]
  /\ inProgress \in BOOLEAN /\ abandoned \in Nat
  /\ pc \in [Calls -> {"free", "web", "gate", "call", "work", "replied",
                       "answered", "shown", "told"}]
  /\ op \in [Calls -> Commands \cup {"stats", "status"}]
  /\ token \in [Calls -> 0..issued]
  /\ reply \in [Calls -> Codes \cup Statuses \cup Alerts \cup {"", "login page"}]
  /\ did \in [Calls -> {"nothing", "refused", "done", "failed"}]

\* Of the commands that somebody waits for and those that were abandoned the
\* service works on one at a time: a retry does not overlap the command it
\* repeats.  The flag is set while it does, and no longer.
OneCommand ==
  /\ inProgress <=> Working # {} \/ abandoned # 0
  /\ \A c, d \in Working : c = d
  /\ abandoned # 0 => abandoned = 1 /\ Working = {}

\* TestUpdate: of updates that overlap one is answered 200 and the other 202.
\* At the gateway and at the frontend 200 means that the command was carried
\* out, and 202 that another one was under way.
AnswersTrue ==
  \A c \in Calls : pc[c] \in {"answered", "shown"} /\ op[c] \in Commands =>
    /\ reply[c] = "200" => did[c] = "done"
    /\ reply[c] = "202" => did[c] = "refused"

\* A page never calls a command a success that failed at the service or never
\* reached it, unless the session had expired when it asked.
FailureReported ==
  \A c \in Calls : pc[c] = "told" /\ reply[c] \in {"started", "dropped"} =>
    \/ did[c] \in {"done", "refused"}
    \/ did[c] = "nothing" /\ ~Valid(token[c])

\* "Automatic redirect when the token expires" (README), for the page: however
\* busy it is and whatever the other services do, a tab whose token has expired
\* leaves the admin page.
ExpiredPageLeaves ==
  \A a \in Admins :
    page[a] = "admin" /\ ~Valid(cookie[a]) ~> page[a] = "away"

\* A click is answered, even if the update it asked for never ends.
ClickAnswered ==
  \A c \in Calls : pc[c] # "free" ~> pc[c] = "free" \/ pc[c] = "told"

\* "Update already in progress": the alert for an update that was refused.
RefusalTold ==
  \A c \in Calls :
    pc[c] = "told" /\ op[c] = "update" /\ did[c] = "refused" => reply[c] = "in progress"

\* "Automatic redirect when the token expires", for a click: it is not reported
\* as a success.
ExpiryTold ==
  \A c \in Calls :
    pc[c] = "told" /\ did[c] = "nothing" => reply[c] \notin {"started", "dropped"}
=============================================================================
