------------------------------ MODULE Services ------------------------------
(***************************************************************************)
(* The processes of the system: how each of them starts (configuration,    *)
(* database, migration, listener, first rebuild), serves, and stops on a   *)
(* signal; what happens to the requests that pass through several of them  *)
(* when one dies, drains or has not started yet; and the gRPC channels     *)
(* between them, which connect when they are first used.                   *)
(*                                                                         *)
(* A supervisor starts a process again whenever it ends.  The database,    *)
(* and what a migration has written there, outlives the processes.         *)
(***************************************************************************)
EXTENDS Naturals, Sequences, SequencesExt

CONSTANTS
  Services,    \* the processes that are deployed
  Requests     \* names of requests that may be under way together

Rpc == {"words", "update", "search"}
Web == {"api", "frontend"}

ASSUME ServicesAssumption == Services \subseteq Rpc \cup Web

VARIABLES
  at,          \* at[s]: the step of its program that s is at
  stop,        \* stop[s]: the goroutine of s that waits for a signal
  schema,      \* the database: version, dirty flag, tables, rows of comics_stats
  req,         \* req[r]: where request r is
  orphans,     \* <<r, s>>: a handler of s works for r although nobody waits
  backoff      \* <<s, t>>: s's channel to t has failed and is not connected

vars == <<at, stop, schema, req, orphans, backoff>>

-----------------------------------------------------------------------------
(* The programs: what `run` of each service does before it serves.  The     *)
(* clients of the other services, of xkcd.com and of NATS are made on the   *)
(* way; they connect later and need nobody yet.                             *)

WordsRun    == <<"listen", "serve">>
UpdateRun   == <<"database", "migrate", "listen", "serve">>
SearchRun   == <<"database", "listen", "rebuild", "serve">>
ApiRun      == <<"serve">>
FrontendRun == <<"serve">>

Run == [words |-> WordsRun, update |-> UpdateRun, search |-> SearchRun,
        api |-> ApiRun, frontend |-> FrontendRun]

\* The step of s that follows step p.
After(s, p) == LET k == CHOOSE i \in DOMAIN Run[s] : Run[s][i] = p
               IN  Run[s][k + 1]

Starting == {"database", "migrate", "apply", "record", "listen", "rebuild", "serve"}

\* s answers: its server runs and has not begun to stop.
Serving(s) == at[s] = "serving" /\ stop[s] \in {"no", "signalled"}

\* The services a handler of s asks before it answers a request of kind k.
Asks(k, s) ==
  Services \cap
  CASE s = "frontend"                 -> {"api"}
    [] s = "api" /\ k = "ping"        -> Rpc
    [] s = "api" /\ k # "ping"        -> {k}
    [] s \in {"search", "update"} /\ k # "ping" -> {"words"}
    [] OTHER                          -> {}

Kinds == {"ping", "search", "update"}
NoRequest == [kind |-> "ping", frames |-> <<>>, to |-> "", reply |-> ""]
Idle(r) == req[r] = NoRequest
\* r's innermost handler.
Top(r) == Last(req[r].frames)
\* The innermost handler works; it neither waits for an answer nor has one.
Working(r) == req[r].frames # <<>> /\ req[r].to = "" /\ req[r].reply = ""
\* The handlers of s, those that nobody waits for included.
InFlight(s) == {r \in Requests : \E i \in DOMAIN req[r].frames : req[r].frames[i].at = s}
Handlers(s) == InFlight(s) \cup {r \in Requests : <<r, s>> \in orphans}

Init ==
  /\ at = [s \in Services |-> "down"]
  /\ stop = [s \in Services |-> "no"]
  /\ schema = [version |-> 0, dirty |-> FALSE, tables |-> FALSE, rows |-> 0]
  /\ req = [r \in Requests |-> NoRequest]
  /\ orphans = {}
  /\ backoff = {}

-----------------------------------------------------------------------------
(* Requests *)

reqVars == <<req, orphans, backoff>>

\* The call of the handler on top of frame i breaks, or the client's if i = 0:
\* it gets an error, and what had been called goes on with nobody waiting.
CutAt(r, i) == [req[r] EXCEPT !.frames = SubSeq(@, 1, i), !.to = "", !.reply = "error"]
Abandoned(r, i) == {<<r, req[r].frames[j].at>> : j \in (i + 1)..Len(req[r].frames)}

\* A client calls the frontend, or the gateway itself.
Send(r, k, s) ==
  /\ Idle(r)
  /\ \A o \in orphans : o[1] # r
  /\ req' = [req EXCEPT ![r].kind = k, ![r].to = s]
  /\ UNCHANGED <<at, stop, schema, orphans, backoff>>

\* The caller has a channel to s that is known to be broken.
Broken(r, s) == req[r].frames # <<>> /\ <<Top(r).at, s>> \in backoff

Accept(r) ==
  LET s == req[r].to IN
  /\ s # ""
  /\ Serving(s)
  /\ ~Broken(r, s)
  /\ req' = [req EXCEPT ![r].to = "",
                        ![r].frames = Append(@, [at |-> s, ask |-> Asks(req[r].kind, s)])]
  /\ UNCHANGED <<at, stop, schema, orphans, backoff>>

\* Bug for RequestsEnd: calls are made with WaitForReady.
RefuseWaits(r) ==
  LET s == req[r].to IN
  /\ s \in Web
  /\ ~Serving(s)
  /\ req' = [req EXCEPT ![r].to = "", ![r].reply = "error"]
  /\ UNCHANGED <<at, stop, schema, orphans, backoff>>

\* Connection refused, GOAWAY, or Unavailable while the channel backs off.  A
\* process that listens and does not serve yet lets the attempt time out.
Refuse(r) ==
  LET s == req[r].to IN
  /\ s # ""
  /\ ~Serving(s) \/ Broken(r, s)
  /\ req' = [req EXCEPT ![r].to = "", ![r].reply = "error"]
  /\ backoff' = IF req[r].frames # <<>> /\ s \in Rpc
                THEN backoff \cup {<<Top(r).at, s>>} ELSE backoff
  /\ UNCHANGED <<at, stop, schema, orphans>>

\* The innermost handler calls the next service it needs; the gateway's ping
\* takes them in any order (it ranges over a map).
Ask(r) ==
  /\ Working(r)
  /\ \E s \in Top(r).ask :
       req' = [req EXCEPT ![r].to = s,
                          ![r].frames[Len(req[r].frames)].ask = @ \ {s}]
  /\ UNCHANGED <<at, stop, schema, orphans, backoff>>

\* The handler goes on when a call of its fails: the gateway's ping takes note
\* of it, and a worker of Update leaves out the comic.
Tolerant(r) == (req[r].kind = "ping" /\ Top(r).at = "api") \/ Top(r).at = "update"

\* The innermost handler gets the answer of its call; one that is not tolerant
\* answers an error with an error.
Hear(r) ==
  /\ req[r].frames # <<>>
  /\ req[r].reply # ""
  /\ IF req[r].reply = "ok" \/ Tolerant(r)
     THEN req' = [req EXCEPT ![r].reply = ""]
     ELSE req' = [req EXCEPT ![r].frames = Front(@)]
  /\ UNCHANGED <<at, stop, schema, orphans, backoff>>

\* The innermost handler returns.  Before it has asked what it needs it can but
\* fail (a bad argument, the database); an Update may have nothing to ask.
Answer(r) ==
  /\ Working(r)
  /\ \E reply \in {"ok", "error"} :
       /\ reply = "error" => req[r].kind # "ping"
       /\ reply = "ok" => Top(r).ask = {} \/ Top(r).at = "update"
       /\ req' = [req EXCEPT ![r].frames = Front(@), ![r].reply = reply]
  /\ UNCHANGED <<at, stop, schema, orphans, backoff>>

\* The client has its answer.
Close(r) ==
  /\ req[r].frames = <<>>
  /\ req[r].reply # ""
  /\ req' = [req EXCEPT ![r] = NoRequest]
  /\ UNCHANGED <<at, stop, schema, orphans, backoff>>

\* The client goes away, or the frontend's client has waited too long.
GiveUp(r) ==
  /\ \E i \in 0..Len(req[r].frames) :
       /\ i < Len(req[r].frames) \/ req[r].to # ""
       /\ i > 0 => req[r].frames[i].at = "frontend"
       /\ req' = [req EXCEPT ![r] = CutAt(r, i)]
       /\ orphans' = orphans \cup Abandoned(r, i)
  /\ UNCHANGED <<at, stop, schema, backoff>>

EndOrphan(r, s) ==
  /\ <<r, s>> \in orphans
  /\ orphans' = orphans \ {<<r, s>>}
  /\ UNCHANGED <<at, stop, schema, req, backoff>>

\* Bug for Recovers: a channel connects when its process starts, and never again.
ReconnectAtStart(s, t) ==
  /\ <<s, t>> \in backoff
  /\ at[s] = "serve"
  /\ Serving(t)
  /\ backoff' = backoff \ {<<s, t>>}
  /\ UNCHANGED <<at, stop, schema, req, orphans>>

\* The channel tries again, 1 to 10 s later, and finds a server.
Reconnect(s, t) ==
  /\ <<s, t>> \in backoff
  /\ Serving(t)
  /\ backoff' = backoff \ {<<s, t>>}
  /\ UNCHANGED <<at, stop, schema, req, orphans>>

-----------------------------------------------------------------------------
(* The end of a process *)

\* s is gone, with its handlers, its channels and its goroutines.
Exit(s) ==
  /\ at' = [at EXCEPT ![s] = "down"]
  /\ stop' = [stop EXCEPT ![s] = "no"]
  /\ LET Depth(r) == CHOOSE i \in DOMAIN req[r].frames : req[r].frames[i].at = s
     IN  /\ req' = [r \in Requests |-> IF r \in InFlight(s) THEN CutAt(r, Depth(r) - 1)
                                                            ELSE req[r]]
         /\ orphans' = {o \in orphans \cup UNION {Abandoned(r, Depth(r) - 1) : r \in InFlight(s)} :
                          o[2] # s}
  /\ backoff' = {p \in backoff : p[1] # s}
  /\ UNCHANGED schema

\* Killed, out of memory, or a signal before NotifyContext was called.
Crash(s) ==
  /\ at[s] # "down"
  /\ Exit(s)

\* Bug for StartsUp: ErrNoChange is taken for a failure, so the process of a
\* database that is migrated already ends whenever it is started.
BlockedWhenMigrated(s) ==
  \/ at[s] = "migrate" /\ (schema.dirty \/ schema.version = 1)
  \/ at[s] = "rebuild" /\ ~schema.tables
  \/ at[s] = "serve" /\ stop[s] \notin {"no", "signalled"}

\* A step of `run` that cannot succeed as things are: the database is dirty, its
\* tables are missing, or the server was stopped before it served.
Blocked(s) ==
  \/ at[s] = "migrate" /\ schema.dirty
  \/ at[s] = "rebuild" /\ ~schema.tables
  \/ at[s] = "serve" /\ stop[s] \notin {"no", "signalled"}

\* `run` returns the error, main logs it and exits.
StartError(s) ==
  /\ Blocked(s)
  /\ Exit(s)

\* Any other error of a step: no database, a port that is taken, a query or a
\* script that fails.
StartFault(s) ==
  /\ at[s] \in Starting
  /\ ~Blocked(s)
  /\ Exit(s)

\* SIGINT or SIGTERM once NotifyContext has been called.
Interrupt(s) ==
  /\ at[s] \in {"rebuild", "serve", "serving"}
  /\ stop[s] = "no"
  /\ stop' = [stop EXCEPT ![s] = "signalled"]
  /\ UNCHANGED <<at, schema, reqVars>>

\* GracefulStop, or Shutdown: no new connections and requests.  search starts
\* this goroutine after its first rebuild only.
Drain(s) ==
  /\ at[s] \in {"serve", "serving"}
  /\ stop[s] = "signalled"
  /\ stop' = [stop EXCEPT ![s] = "draining"]
  /\ UNCHANGED <<at, schema, reqVars>>

\* GracefulStop, or Shutdown, returns: every handler has.
Drained(s) ==
  /\ stop[s] = "draining"
  /\ Handlers(s) = {}
  /\ stop' = [stop EXCEPT ![s] = "drained"]
  /\ UNCHANGED <<at, schema, reqVars>>

\* It did not within 30 s.
ForceStop(s) ==
  /\ stop[s] = "draining"
  /\ stop' = [stop EXCEPT ![s] = "forced"]
  /\ UNCHANGED <<at, schema, reqVars>>

\* Bug for Graceful: an RPC server is left as soon as it begins to stop.
StoppedAtOnce(s) == stop[s] \in {"draining", "drained", "forced"}

\* The call that serves returns.  Serve waits until GracefulStop or Stop has
\* returned; ListenAndServe returns as soon as Shutdown is called.
Stopped(s) ==
  IF s \in Rpc THEN stop[s] \in {"drained", "forced"}
               ELSE stop[s] \in {"draining", "drained", "forced"}

\* `run` returns, closes what it has opened, and main ends the process.
Return(s) ==
  /\ at[s] = "serving"
  /\ Stopped(s)
  /\ Exit(s)

-----------------------------------------------------------------------------
(* The start of a process *)

Step(s, p) == at' = [at EXCEPT ![s] = p]

\* main: MustLoad reads the configuration, `run` begins.
Launch(s) ==
  /\ at[s] = "down"
  /\ Step(s, Run[s][1])
  /\ UNCHANGED <<stop, schema, reqVars>>

\* sqlx.Connect pings the database.
Connect(s) ==
  /\ at[s] = "database"
  /\ Step(s, After(s, "database"))
  /\ UNCHANGED <<stop, schema, reqVars>>

\* Bug for SchemaSound: main logs the error of Migrate and goes on.
MigrateIgnored(s) ==
  /\ at[s] = "migrate"
  /\ \/ /\ schema.version = 1
        /\ Step(s, After(s, "migrate"))
        /\ UNCHANGED schema
     \/ /\ schema.version = 0
        /\ Step(s, "apply")
        /\ schema' = [schema EXCEPT !.version = 1, !.dirty = TRUE]
  /\ UNCHANGED <<stop, reqVars>>

\* Bug for TypeOK: a dirty version is migrated again.
MigrateDirty(s) ==
  /\ at[s] = "migrate"
  /\ \/ /\ schema.version = 1 /\ ~schema.dirty
        /\ Step(s, After(s, "migrate"))
        /\ UNCHANGED schema
     \/ /\ schema.version = 0 \/ schema.dirty
        /\ Step(s, "apply")
        /\ schema' = [schema EXCEPT !.version = 1, !.dirty = TRUE]
  /\ UNCHANGED <<stop, reqVars>>

\* m.Up: nothing to do (ErrNoChange), or the version is recorded as dirty.  A
\* database that is dirty already is refused (see StartError).
Migrate(s) ==
  /\ at[s] = "migrate"
  /\ ~Blocked(s)
  /\ \/ /\ schema.version = 1
        /\ Step(s, After(s, "migrate"))
        /\ UNCHANGED schema
     \/ /\ schema.version = 0
        /\ Step(s, "apply")
        /\ schema' = [schema EXCEPT !.version = 1, !.dirty = TRUE]
  /\ UNCHANGED <<stop, reqVars>>

\* The script creates the tables unless they exist, and inserts the row.
Apply(s) ==
  /\ at[s] = "apply"
  /\ Step(s, "record")
  /\ schema' = [schema EXCEPT !.tables = TRUE, !.rows = @ + 1]
  /\ UNCHANGED <<stop, reqVars>>

\* The version is recorded as clean.
Record(s) ==
  /\ at[s] = "record"
  /\ Step(s, After(s, "migrate"))
  /\ schema' = [schema EXCEPT !.dirty = FALSE]
  /\ UNCHANGED <<stop, reqVars>>

Listen(s) ==
  /\ at[s] = "listen"
  /\ Step(s, After(s, "listen"))
  /\ UNCHANGED <<stop, schema, reqVars>>

\* The scheduler's Start reads the table of comics, which must be there.
Rebuild(s) ==
  /\ at[s] = "rebuild"
  /\ ~Blocked(s)
  /\ Step(s, After(s, "rebuild"))
  /\ UNCHANGED <<stop, schema, reqVars>>

\* Serve, or ListenAndServe.  A server that was stopped before returns at once.
Serve(s) ==
  /\ at[s] = "serve"
  /\ ~Blocked(s)
  /\ Step(s, "serving")
  /\ UNCHANGED <<stop, schema, reqVars>>

Start(s) ==
  \/ Launch(s) \/ Connect(s) \/ Migrate(s) \/ Apply(s) \/ Record(s) \/ Listen(s)
  \/ Rebuild(s) \/ Serve(s)

Shutdown(s) == Drain(s) \/ Drained(s) \/ ForceStop(s) \/ Return(s)

Progress(r) == Accept(r) \/ Refuse(r) \/ Ask(r) \/ Hear(r) \/ Answer(r) \/ Close(r)

Next ==
  \/ \E s \in Services :
       Start(s) \/ StartError(s) \/ StartFault(s) \/ Interrupt(s) \/ Shutdown(s) \/ Crash(s)
  \/ \E r \in Requests :
       \/ \E k \in Kinds, s \in Web \cap Services : Send(r, k, s)
       \/ Progress(r) \/ GiveUp(r)
       \/ \E s \in Services : EndOrphan(r, s)
  \/ \E s, t \in Services : Reconnect(s, t)

Spec == Init /\ [][Next]_vars

\* Processes run and are started again, the goroutine of the signal among them,
\* and `run` returns the error of a step that fails; a call ends, for a channel
\* has a connect time-out and handlers return; channels try to reconnect.  No
\* client has to call, and nobody has to crash.
Fairness ==
  /\ \A s \in Services : WF_vars(Start(s)) /\ WF_vars(StartError(s)) /\ WF_vars(Shutdown(s))
  /\ \A r \in Requests : WF_vars(Progress(r))
  /\ \A s \in Services : WF_vars(\E t \in Services : Reconnect(s, t))

FairSpec == Spec /\ Fairness

-----------------------------------------------------------------------------
(* Properties *)

Steps == Starting \cup {"down", "serving"}
Calls == [at : Services, ask : SUBSET Services]

TypeOK ==
  /\ at \in [Services -> Steps]
  /\ stop \in [Services -> {"no", "signalled", "draining", "drained", "forced"}]
  /\ schema \in [version : {0, 1}, dirty : BOOLEAN, tables : BOOLEAN, rows : {0, 1}]
  /\ req \in [Requests -> [kind : Kinds, frames : Seq(Calls), to : Services \cup {""},
                           reply : {"", "ok", "error"}]]
  /\ orphans \in SUBSET (Requests \X Services)
  /\ backoff \in SUBSET (Services \X Services)

\* However often the update service was killed, or failed, in its migration,
\* the row of the statistics was inserted once; and neither update nor search
\* serves a request before the tables are there.
SchemaSound ==
  /\ schema.rows = IF schema.tables THEN 1 ELSE 0
  /\ \A s \in Services \cap {"update", "search"} : at[s] = "serving" => schema.tables

\* A signal cuts no call of an RPC service: its process ends when its handlers
\* have returned, those included that nobody waits for, or after 30 s.
Graceful ==
  [][\A s \in Services \cap Rpc : Return(s) /\ stop[s] # "forced" => Handlers(s) = {}]_vars

\* The same of the HTTP servers, which log "stopped gracefully" and give their
\* handlers 30 s.
WebGraceful ==
  [][\A s \in Services \cap Web : Return(s) /\ stop[s] # "forced" => Handlers(s) = {}]_vars

\* The process of s ends and it is not `run` that ended it, with the error of a
\* step that cannot succeed (StartError) or after its server was stopped (Return).
Killed(s) ==
  /\ at[s] # "down" /\ at'[s] = "down"
  /\ ~Blocked(s)
  /\ ~(at[s] = "serving" /\ Stopped(s))

\* Nobody kills or interrupts a process any more, and what a start needs of the
\* world outside is there (a StartFault counts as a kill).  A process may still
\* end by itself, again and again: no service is assumed to come up.
Quiet == <>[][\A s \in Services : ~Killed(s) /\ ~Interrupt(s)]_vars

\* A migration that was cut short keeps update from starting until somebody
\* repairs the database, and search too if it was cut before the script.
Stuck(s) == schema.dirty /\ (s = "update" \/ (s = "search" /\ ~schema.tables))

\* Whatever starts first, and whatever failed and was killed before, each
\* service serves in the end, search after as many failed starts as update
\* needs to create the tables; but for a migration that was cut short, which
\* ends every start of update, and of search if the tables are missing.
StartsUp == Quiet => \A s \in Services : <>[](Serving(s) \/ Stuck(s))

\* A channel that has failed connects again when its service is back, without a
\* restart of the service that uses it, and whatever other service is stuck.
Recovers == Quiet => <>[](\A p \in backoff : Stuck(p[2]))

\* Every request ends, with services down or stuck, and however deep it is.
RequestsEnd == \A r \in Requests : ~Idle(r) ~> Idle(r)
=============================================================================
