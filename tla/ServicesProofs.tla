--------------------------- MODULE ServicesProofs ---------------------------
(***************************************************************************)
(* Proofs about Services, for any deployment of the five services and any  *)
(* number of requests: every variable keeps its type, the schema is sound  *)
(* whatever start-ups were cut short, and a signal cuts no call of an RPC  *)
(* service.                                                                *)
(*                                                                         *)
(* IInv adds to the types which step belongs to which program, what each   *)
(* step of the migration leaves in the database, and that a server whose   *)
(* GracefulStop has returned has no handler.                               *)
(***************************************************************************)
EXTENDS Services, TLAPS

Request == [kind : Kinds, frames : Seq(Calls), to : Services \cup {""},
            reply : {"", "ok", "error"}]

\* The steps each program has.
ProgramInv ==
  \A s \in Services :
    /\ at[s] = "database" => s \in {"update", "search"}
    /\ at[s] \in {"migrate", "apply", "record"} => s = "update"
    /\ at[s] = "listen" => s \in Rpc
    /\ at[s] = "rebuild" => s = "search"

\* What the steps of the migration have written.
SchemaInv ==
  /\ schema.rows = IF schema.tables THEN 1 ELSE 0
  /\ schema.version = 0 => ~schema.dirty /\ ~schema.tables
  /\ schema.version = 1 /\ ~schema.dirty => schema.tables
  /\ \A s \in Services :
       /\ at[s] = "apply" => schema.version = 1 /\ schema.dirty /\ ~schema.tables
       /\ at[s] = "record" => schema.version = 1 /\ schema.dirty /\ schema.tables
       /\ s = "update" /\ at[s] \in {"listen", "serve", "serving"} => schema.tables
       /\ s = "search" /\ at[s] \in {"serve", "serving"} => schema.tables

\* GracefulStop has returned, so every handler has.
DrainedInv == \A s \in Services : stop[s] = "drained" => Handlers(s) = {}

IInv == TypeOK /\ ProgramInv /\ SchemaInv /\ DrainedInv

-----------------------------------------------------------------------------
(* The programs *)

\* The steps that follow one another, read off the programs.
LEMMA Successors ==
  /\ Run["update"][1] = "database" /\ Run["search"][1] = "database"
  /\ Run["words"][1] = "listen" /\ Run["api"][1] = "serve" /\ Run["frontend"][1] = "serve"
  /\ After("update", "database") = "migrate" /\ After("search", "database") = "listen"
  /\ After("update", "migrate") = "listen"
  /\ After("words", "listen") = "serve" /\ After("update", "listen") = "serve"
  /\ After("search", "listen") = "rebuild" /\ After("search", "rebuild") = "serve"
<1> USE DEF Run, WordsRun, UpdateRun, SearchRun, ApiRun, FrontendRun
<1>1. /\ Run["update"][1] = "database" /\ Run["search"][1] = "database"
      /\ Run["words"][1] = "listen" /\ Run["api"][1] = "serve" /\ Run["frontend"][1] = "serve"
  OBVIOUS
<1>2. After("update", "database") = "migrate"
  <2> DEFINE k == CHOOSE i \in DOMAIN Run["update"] : Run["update"][i] = "database"
  <2>1. \E i \in DOMAIN Run["update"] : Run["update"][i] = "database"
    <3>1. 1 \in DOMAIN Run["update"] /\ Run["update"][1] = "database"  OBVIOUS
    <3> QED  BY ONLY <3>1
  <2>2. k \in DOMAIN Run["update"] /\ Run["update"][k] = "database"  BY ONLY <2>1
  <2>3. k = 1  BY <2>2
  <2> QED  BY <2>3 DEF After
<1>3. After("search", "database") = "listen"
  <2> DEFINE k == CHOOSE i \in DOMAIN Run["search"] : Run["search"][i] = "database"
  <2>1. \E i \in DOMAIN Run["search"] : Run["search"][i] = "database"
    <3>1. 1 \in DOMAIN Run["search"] /\ Run["search"][1] = "database"  OBVIOUS
    <3> QED  BY ONLY <3>1
  <2>2. k \in DOMAIN Run["search"] /\ Run["search"][k] = "database"  BY ONLY <2>1
  <2>3. k = 1  BY <2>2
  <2> QED  BY <2>3 DEF After
<1>4. After("update", "migrate") = "listen"
  <2> DEFINE k == CHOOSE i \in DOMAIN Run["update"] : Run["update"][i] = "migrate"
  <2>1. \E i \in DOMAIN Run["update"] : Run["update"][i] = "migrate"
    <3>1. 2 \in DOMAIN Run["update"] /\ Run["update"][2] = "migrate"  OBVIOUS
    <3> QED  BY ONLY <3>1
  <2>2. k \in DOMAIN Run["update"] /\ Run["update"][k] = "migrate"  BY ONLY <2>1
  <2>3. k = 2  BY <2>2
  <2> QED  BY <2>3 DEF After
<1>5. After("words", "listen") = "serve"
  <2> DEFINE k == CHOOSE i \in DOMAIN Run["words"] : Run["words"][i] = "listen"
  <2>1. \E i \in DOMAIN Run["words"] : Run["words"][i] = "listen"
    <3>1. 1 \in DOMAIN Run["words"] /\ Run["words"][1] = "listen"  OBVIOUS
    <3> QED  BY ONLY <3>1
  <2>2. k \in DOMAIN Run["words"] /\ Run["words"][k] = "listen"  BY ONLY <2>1
  <2>3. k = 1  BY <2>2
  <2> QED  BY <2>3 DEF After
<1>6. After("update", "listen") = "serve"
  <2> DEFINE k == CHOOSE i \in DOMAIN Run["update"] : Run["update"][i] = "listen"
  <2>1. \E i \in DOMAIN Run["update"] : Run["update"][i] = "listen"
    <3>1. 3 \in DOMAIN Run["update"] /\ Run["update"][3] = "listen"  OBVIOUS
    <3> QED  BY ONLY <3>1
  <2>2. k \in DOMAIN Run["update"] /\ Run["update"][k] = "listen"  BY ONLY <2>1
  <2>3. k = 3  BY <2>2
  <2> QED  BY <2>3 DEF After
<1>7. After("search", "listen") = "rebuild"
  <2> DEFINE k == CHOOSE i \in DOMAIN Run["search"] : Run["search"][i] = "listen"
  <2>1. \E i \in DOMAIN Run["search"] : Run["search"][i] = "listen"
    <3>1. 2 \in DOMAIN Run["search"] /\ Run["search"][2] = "listen"  OBVIOUS
    <3> QED  BY ONLY <3>1
  <2>2. k \in DOMAIN Run["search"] /\ Run["search"][k] = "listen"  BY ONLY <2>1
  <2>3. k = 2  BY <2>2
  <2> QED  BY <2>3 DEF After
<1>8. After("search", "rebuild") = "serve"
  <2> DEFINE k == CHOOSE i \in DOMAIN Run["search"] : Run["search"][i] = "rebuild"
  <2>1. \E i \in DOMAIN Run["search"] : Run["search"][i] = "rebuild"
    <3>1. 3 \in DOMAIN Run["search"] /\ Run["search"][3] = "rebuild"  OBVIOUS
    <3> QED  BY ONLY <3>1
  <2>2. k \in DOMAIN Run["search"] /\ Run["search"][k] = "rebuild"  BY ONLY <2>1
  <2>3. k = 3  BY <2>2
  <2> QED  BY <2>3 DEF After
<1> QED  BY ONLY <1>1, <1>2, <1>3, <1>4, <1>5, <1>6, <1>7, <1>8

-----------------------------------------------------------------------------
(* Frames *)

\* A frame of f is one of service s.
Covers(f, s) == \E i \in DOMAIN f : f[i].at = s

\* What is left when the innermost handlers are cut off.
LEMMA CutFrames ==
  ASSUME NEW f \in Seq(Calls), NEW i \in 0..Len(f), NEW s
  PROVE  /\ SubSeq(f, 1, i) \in Seq(Calls)
         /\ Covers(SubSeq(f, 1, i), s) => Covers(f, s)
<1>1. Len(f) \in Nat /\ DOMAIN f = 1..Len(f)
  OBVIOUS
<1>2. SubSeq(f, 1, i) \in Seq(Calls) /\ DOMAIN SubSeq(f, 1, i) = 1..i
  BY <1>1
<1>3. \A j \in 1..i : SubSeq(f, 1, i)[j] = f[j] /\ j \in 1..Len(f)
  BY <1>1
<1> QED
  BY <1>1, <1>2, <1>3 DEF Covers

\* What is left when the innermost handler has returned.
LEMMA FrontFrames ==
  ASSUME NEW f \in Seq(Calls), f # <<>>, NEW s
  PROVE  /\ Front(f) \in Seq(Calls)
         /\ Covers(Front(f), s) => Covers(f, s)
<1>1. Len(f) \in Nat /\ Len(f) # 0 /\ Len(f) - 1 \in 0..Len(f)
  OBVIOUS
<1> QED
  BY <1>1, CutFrames DEF Front

\* What is there when a further handler begins.
LEMMA AppendFrames ==
  ASSUME NEW f \in Seq(Calls), NEW c \in Calls, NEW s
  PROVE  /\ Append(f, c) \in Seq(Calls)
         /\ Covers(Append(f, c), s) => Covers(f, s) \/ c.at = s
<1>1. Len(f) \in Nat /\ DOMAIN f = 1..Len(f)
  OBVIOUS
<1>2. Append(f, c) \in Seq(Calls) /\ DOMAIN Append(f, c) = 1..(Len(f) + 1)
  BY <1>1
<1>3. \A j \in 1..(Len(f) + 1) :
        (j \in 1..Len(f) /\ Append(f, c)[j] = f[j]) \/ Append(f, c)[j] = c
  BY <1>1
<1> QED
  BY <1>1, <1>2, <1>3 DEF Covers

\* The innermost handler crosses a service off those it is to ask.
LEMMA AskFrames ==
  ASSUME NEW f \in Seq(Calls), f # <<>>, NEW x, NEW s
  PROVE  LET g == [f EXCEPT ![Len(f)].ask = @ \ {x}]
         IN  g \in Seq(Calls) /\ (Covers(g, s) => Covers(f, s))
<1> DEFINE g == [f EXCEPT ![Len(f)].ask = @ \ {x}]
           c == [f[Len(f)] EXCEPT !.ask = @ \ {x}]
<1>1. Len(f) \in Nat /\ DOMAIN f = 1..Len(f) /\ Len(f) \in DOMAIN f
  OBVIOUS
<1>2. f[Len(f)] \in Calls
  BY <1>1
<1>3. c \in Calls /\ c.at = f[Len(f)].at
  BY <1>2 DEF Calls
<1>4. g = [f EXCEPT ![Len(f)] = c]
  OBVIOUS
<1>5. g \in Seq(Calls) /\ DOMAIN g = DOMAIN f
  BY <1>1, <1>3, <1>4
<1>6. \A j \in DOMAIN f : g[j].at = f[j].at
  BY <1>1, <1>3, <1>4
<1> QED
  BY <1>5, <1>6 DEF Covers

\* The innermost handler is one of a deployed service.
LEMMA TopFrame ==
  ASSUME NEW f \in Seq(Calls), f # <<>>
  PROVE  Last(f) \in Calls
BY DEF Last

-----------------------------------------------------------------------------
(* Requests *)

\* A request that has a handler at a service is in flight there.
LEMMA InFlightCovers ==
  ASSUME NEW s
  PROVE  InFlight(s) = {r \in Requests : Covers(req[r].frames, s)}
BY DEF InFlight, Covers

\* A call that breaks leaves a request, and sets free handlers it had.
LEMMA Cut ==
  ASSUME TypeOK, NEW r \in Requests, NEW i \in 0..Len(req[r].frames)
  PROVE  /\ CutAt(r, i) \in Request
         /\ \A s : Covers(CutAt(r, i).frames, s) => Covers(req[r].frames, s)
         /\ Abandoned(r, i) \in SUBSET (Requests \X Services)
         /\ \A o \in Abandoned(r, i) : o[1] = r /\ Covers(req[r].frames, o[2])
<1>1. req[r] \in Request /\ req[r].frames \in Seq(Calls)
  BY DEF TypeOK, Request
<1>2. CutAt(r, i).frames = SubSeq(req[r].frames, 1, i)
  BY <1>1 DEF CutAt, Request
<1>3. SubSeq(req[r].frames, 1, i) \in Seq(Calls)
  BY <1>1, CutFrames
<1>4. CutAt(r, i) \in Request
  BY <1>1, <1>3 DEF CutAt, Request
<1>5. ASSUME NEW s, Covers(CutAt(r, i).frames, s)
      PROVE  Covers(req[r].frames, s)
  BY <1>1, <1>2, <1>5, CutFrames
<1>6. \A j \in (i + 1)..Len(req[r].frames) : j \in DOMAIN req[r].frames
  BY <1>1
<1>7. \A j \in DOMAIN req[r].frames : req[r].frames[j].at \in Services
  <2>1. \A f \in Seq(Calls) : \A j \in DOMAIN f : f[j] \in Calls
    OBVIOUS
  <2> QED
    BY <1>1, <2>1 DEF Calls
<1>8. Abandoned(r, i) \in SUBSET (Requests \X Services)
  BY <1>6, <1>7 DEF Abandoned
<1>9. \A o \in Abandoned(r, i) : o[1] = r /\ Covers(req[r].frames, o[2])
  BY <1>6 DEF Abandoned, Covers
<1> QED
  BY <1>4, <1>5, <1>8, <1>9

\* A step of a request that gives no handler to a server that does not serve.
LEMMA RequestStep ==
  ASSUME IInv, UNCHANGED <<at, stop, schema>>,
         req' \in [Requests -> Request],
         orphans' \in SUBSET (Requests \X Services),
         backoff' \in SUBSET (Services \X Services),
         \A s \in Services, r \in Requests :
           ~Serving(s) /\ (Covers(req'[r].frames, s) \/ <<r, s>> \in orphans')
             => Covers(req[r].frames, s) \/ <<r, s>> \in orphans
  PROVE  IInv'
<1>1. TypeOK'
  BY DEF IInv, TypeOK, Request
<1>2. ProgramInv' /\ SchemaInv'
  BY DEF IInv, ProgramInv, SchemaInv
<1>3. DrainedInv'
  <2> SUFFICES ASSUME NEW s \in Services, stop'[s] = "drained",
                      NEW r \in Requests, r \in Handlers(s)'
               PROVE  FALSE
    BY DEF DrainedInv, Handlers, InFlight
  <2>1. stop[s] = "drained" /\ ~Serving(s) /\ Handlers(s) = {}
    BY DEF IInv, DrainedInv, Serving
  <2>2. Covers(req'[r].frames, s) \/ <<r, s>> \in orphans'
    BY DEF Handlers, InFlight, Covers
  <2>3. Covers(req[r].frames, s) \/ <<r, s>> \in orphans
    BY <2>1, <2>2
  <2>4. r \in Handlers(s)
    BY <2>3 DEF Handlers, InFlight, Covers
  <2> QED
    BY <2>1, <2>4
<1> QED
  BY <1>1, <1>2, <1>3 DEF IInv

\* The same of one that changes one request and keeps the orphans.
LEMMA OneRequest ==
  ASSUME IInv, UNCHANGED <<at, stop, schema, orphans>>,
         NEW r \in Requests, NEW q \in Request,
         req' = [req EXCEPT ![r] = q],
         backoff' \in SUBSET (Services \X Services),
         \A s \in Services :
           ~Serving(s) /\ Covers(q.frames, s) => Covers(req[r].frames, s)
  PROVE  IInv'
<1>1. req \in [Requests -> Request] /\ orphans \in SUBSET (Requests \X Services)
  BY DEF IInv, TypeOK, Request
<1>2. req' \in [Requests -> Request]
  BY <1>1
<1>3. \A p \in Requests : req'[p] = IF p = r THEN q ELSE req[p]
  BY <1>1
<1> QED
  BY <1>1, <1>2, <1>3, RequestStep

\* A client calls: no handler begins or ends.
LEMMA SendInv ==
  ASSUME IInv, NEW r \in Requests, NEW k \in Kinds, NEW s \in Services, Send(r, k, s)
  PROVE  IInv'
<1> DEFINE q == [req[r] EXCEPT !.kind = k, !.to = s]
<1>1. req \in [Requests -> Request] /\ req[r] \in Request
  BY DEF IInv, TypeOK, Request
<1>2. q \in Request /\ q.frames = req[r].frames
  BY <1>1 DEF Request
<1>3. req' = [req EXCEPT ![r] = q]
  BY <1>1 DEF Send
<1> QED
  BY <1>2, <1>3, OneRequest DEF Send, IInv, TypeOK

\* A call is accepted: a handler begins, at a server that serves.
LEMMA AcceptInv ==
  ASSUME IInv, NEW r \in Requests, Accept(r)
  PROVE  IInv'
<1> DEFINE s == req[r].to
           c == [at |-> s, ask |-> Asks(req[r].kind, s)]
           q == [req[r] EXCEPT !.to = "", !.frames = Append(@, c)]
<1>1. req \in [Requests -> Request] /\ req[r] \in Request
  BY DEF IInv, TypeOK, Request
<1>2. s \in Services /\ Serving(s)
  BY <1>1 DEF Accept, Request
<1>3. c \in Calls /\ c.at = s
  BY <1>2 DEF Calls, Asks
<1>4. q \in Request /\ q.frames = Append(req[r].frames, c)
  BY <1>1, <1>3, AppendFrames DEF Request
<1>5. req' = [req EXCEPT ![r] = q]
  BY <1>1 DEF Accept
<1>6. \A t \in Services : ~Serving(t) /\ Covers(q.frames, t) => Covers(req[r].frames, t)
  BY <1>1, <1>2, <1>3, <1>4, AppendFrames DEF Request
<1> QED
  BY <1>4, <1>5, <1>6, OneRequest DEF Accept, IInv, TypeOK

\* A call is refused: the channel fails, no handler begins or ends.
LEMMA RefuseInv ==
  ASSUME IInv, NEW r \in Requests, Refuse(r)
  PROVE  IInv'
<1> DEFINE q == [req[r] EXCEPT !.to = "", !.reply = "error"]
<1>1. req \in [Requests -> Request] /\ req[r] \in Request
  BY DEF IInv, TypeOK, Request
<1>2. q \in Request /\ q.frames = req[r].frames
  BY <1>1 DEF Request
<1>3. req' = [req EXCEPT ![r] = q]
  BY <1>1 DEF Refuse
<1>4. backoff' \in SUBSET (Services \X Services)
  <2>1. backoff \in SUBSET (Services \X Services)
    BY DEF IInv, TypeOK
  <2>2. CASE req[r].frames # <<>> /\ req[r].to \in Rpc
    <3>1. req[r].to \in Services
      BY <1>1 DEF Refuse, Request
    <3>2. Top(r) \in Calls
      BY <1>1, <2>2, TopFrame DEF Top, Request
    <3>3. Top(r).at \in Services
      BY <3>2 DEF Calls
    <3>4. backoff' = backoff \cup {<<Top(r).at, req[r].to>>}
      BY <2>2 DEF Refuse
    <3>5. <<Top(r).at, req[r].to>> \in Services \X Services
      BY <3>1, <3>3
    <3> QED
      BY <2>1, <3>4, <3>5
  <2>3. CASE ~(req[r].frames # <<>> /\ req[r].to \in Rpc)
    BY <2>1, <2>3 DEF Refuse
  <2> QED
    BY <2>2, <2>3
<1> QED
  BY <1>2, <1>3, <1>4, OneRequest DEF Refuse

\* A handler asks the next service: its list gets shorter.
LEMMA AskInv ==
  ASSUME IInv, NEW r \in Requests, Ask(r)
  PROVE  IInv'
<1>1. req \in [Requests -> Request] /\ req[r] \in Request
  BY DEF IInv, TypeOK, Request
<1>2. req[r].frames \in Seq(Calls) /\ req[r].frames # <<>>
  BY <1>1 DEF Ask, Working, Request
<1>3. PICK s \in Top(r).ask :
        req' = [req EXCEPT ![r].to = s,
                           ![r].frames[Len(req[r].frames)].ask = @ \ {s}]
  BY DEF Ask
<1>4. Top(r) \in Calls
  BY <1>2, TopFrame DEF Top
<1>5. s \in Services
  BY <1>3, <1>4 DEF Calls
<1> DEFINE g == [req[r].frames EXCEPT ![Len(req[r].frames)].ask = @ \ {s}]
           q == [req[r] EXCEPT !.to = s, !.frames = g]
<1>6. g \in Seq(Calls) /\ \A t \in Services : Covers(g, t) => Covers(req[r].frames, t)
  BY <1>2, AskFrames
<1>7. req' = [req EXCEPT ![r] = q]
  BY <1>1, <1>3 DEF Request
<1>8. q \in Request /\ q.frames = g
  BY <1>1, <1>5, <1>6 DEF Request
<1>9. UNCHANGED <<at, stop, schema, orphans, backoff>>
  BY DEF Ask
<1>10. backoff' \in SUBSET (Services \X Services)
  BY <1>9 DEF IInv, TypeOK
<1>11. \A t \in Services : Covers(q.frames, t) => Covers(req[r].frames, t)
  BY <1>6, <1>8
<1> HIDE DEF q, g
<1> QED
  BY <1>7, <1>8, <1>9, <1>10, <1>11, OneRequest

\* A handler hears an answer, and goes on or ends.
LEMMA HearInv ==
  ASSUME IInv, NEW r \in Requests, Hear(r)
  PROVE  IInv'
<1>1. req \in [Requests -> Request] /\ req[r] \in Request
  BY DEF IInv, TypeOK, Request
<1>2. req[r].frames \in Seq(Calls) /\ req[r].frames # <<>>
  BY <1>1 DEF Hear, Request
<1>3. CASE req[r].reply = "ok" \/ Tolerant(r)
  <2> DEFINE q == [req[r] EXCEPT !.reply = ""]
  <2>1. q \in Request /\ q.frames = req[r].frames
    BY <1>1 DEF Request
  <2>2. req' = [req EXCEPT ![r] = q]
    BY <1>1, <1>3 DEF Hear
  <2> QED
    BY <2>1, <2>2, OneRequest DEF Hear, IInv, TypeOK
<1>4. CASE ~(req[r].reply = "ok" \/ Tolerant(r))
  <2> DEFINE q == [req[r] EXCEPT !.frames = Front(@)]
  <2>1. q \in Request /\ q.frames = Front(req[r].frames)
    BY <1>1, <1>2, FrontFrames DEF Request
  <2>2. req' = [req EXCEPT ![r] = q]
    BY <1>1, <1>4 DEF Hear
  <2>3. \A t \in Services : Covers(q.frames, t) => Covers(req[r].frames, t)
    BY <1>2, <2>1, FrontFrames
  <2> QED
    BY <2>1, <2>2, <2>3, OneRequest DEF Hear, IInv, TypeOK
<1> QED
  BY <1>3, <1>4

\* The innermost handler returns.
LEMMA AnswerInv ==
  ASSUME IInv, NEW r \in Requests, Answer(r)
  PROVE  IInv'
<1>1. req \in [Requests -> Request] /\ req[r] \in Request
  BY DEF IInv, TypeOK, Request
<1>2. req[r].frames \in Seq(Calls) /\ req[r].frames # <<>>
  BY <1>1 DEF Answer, Working, Request
<1>3. PICK reply \in {"ok", "error"} :
        req' = [req EXCEPT ![r].frames = Front(@), ![r].reply = reply]
  BY DEF Answer
<1> DEFINE q == [req[r] EXCEPT !.frames = Front(@), !.reply = reply]
<1>4. q \in Request /\ q.frames = Front(req[r].frames)
  BY <1>1, <1>2, FrontFrames DEF Request
<1>5. req' = [req EXCEPT ![r] = q]
  BY <1>1, <1>3
<1>6. \A t \in Services : Covers(q.frames, t) => Covers(req[r].frames, t)
  BY <1>2, <1>4, FrontFrames
<1> QED
  BY <1>4, <1>5, <1>6, OneRequest DEF Answer, IInv, TypeOK

\* A client has its answer, and the request is over.
LEMMA CloseInv ==
  ASSUME IInv, NEW r \in Requests, Close(r)
  PROVE  IInv'
<1>1. NoRequest \in Request /\ NoRequest.frames = <<>>
  BY DEF NoRequest, Request, Kinds
<1>2. \A t \in Services : ~Covers(NoRequest.frames, t)
  BY <1>1 DEF Covers
<1> QED
  BY <1>1, <1>2, OneRequest DEF Close, IInv, TypeOK

\* A caller goes away: the handlers below it are orphans now.
LEMMA GiveUpInv ==
  ASSUME IInv, NEW r \in Requests, GiveUp(r)
  PROVE  IInv'
<1>1. TypeOK /\ req \in [Requests -> Request] /\ orphans \in SUBSET (Requests \X Services)
  BY DEF IInv, TypeOK, Request
<1>2. PICK i \in 0..Len(req[r].frames) :
        /\ req' = [req EXCEPT ![r] = CutAt(r, i)]
        /\ orphans' = orphans \cup Abandoned(r, i)
  BY DEF GiveUp
<1>3. /\ CutAt(r, i) \in Request
      /\ \A s : Covers(CutAt(r, i).frames, s) => Covers(req[r].frames, s)
      /\ Abandoned(r, i) \in SUBSET (Requests \X Services)
      /\ \A o \in Abandoned(r, i) : o[1] = r /\ Covers(req[r].frames, o[2])
  BY <1>1, Cut
<1>4. req' \in [Requests -> Request] /\ orphans' \in SUBSET (Requests \X Services)
  BY <1>1, <1>2, <1>3
<1>5. \A p \in Requests : req'[p] = IF p = r THEN CutAt(r, i) ELSE req[p]
  BY <1>1, <1>2
<1>6. ASSUME NEW s \in Services, NEW p \in Requests,
             Covers(req'[p].frames, s) \/ <<p, s>> \in orphans'
      PROVE  Covers(req[p].frames, s) \/ <<p, s>> \in orphans
  <2>1. CASE Covers(req'[p].frames, s)
    BY <1>3, <1>5, <2>1
  <2>2. CASE <<p, s>> \in orphans'
    BY <1>2, <1>3, <2>2
  <2> QED
    BY <1>6, <2>1, <2>2
<1>7. UNCHANGED <<at, stop, schema>> /\ backoff' \in SUBSET (Services \X Services)
  BY DEF GiveUp, IInv, TypeOK
<1> QED
  BY <1>4, <1>6, <1>7, RequestStep

\* A handler nobody waits for returns.
LEMMA EndOrphanInv ==
  ASSUME IInv, NEW r \in Requests, NEW s \in Services, EndOrphan(r, s)
  PROVE  IInv'
BY RequestStep DEF EndOrphan, IInv, TypeOK, Request

\* A channel connects again.
LEMMA ReconnectInv ==
  ASSUME IInv, NEW s \in Services, NEW t \in Services, Reconnect(s, t)
  PROVE  IInv'
BY RequestStep DEF Reconnect, IInv, TypeOK, Request

-----------------------------------------------------------------------------
(* Processes *)

\* A process ends: its program, its signal, its handlers and its channels go.
LEMMA ExitInv ==
  ASSUME IInv, NEW s \in Services, Exit(s)
  PROVE  IInv'
<1> DEFINE Depth(r) == CHOOSE i \in DOMAIN req[r].frames : req[r].frames[i].at = s
           free == UNION {Abandoned(r, Depth(r) - 1) : r \in InFlight(s)}
<1>1. /\ TypeOK /\ req \in [Requests -> Request]
      /\ orphans \in SUBSET (Requests \X Services) /\ backoff \in SUBSET (Services \X Services)
  BY DEF IInv, TypeOK, Request
<1>2. /\ at' = [at EXCEPT ![s] = "down"]
      /\ stop' = [stop EXCEPT ![s] = "no"]
      /\ req' = [r \in Requests |-> IF r \in InFlight(s) THEN CutAt(r, Depth(r) - 1) ELSE req[r]]
      /\ orphans' = {o \in orphans \cup free : o[2] # s}
      /\ backoff' = {p \in backoff : p[1] # s}
      /\ UNCHANGED schema
  BY DEF Exit
<1>3. ASSUME NEW r \in InFlight(s)
      PROVE  r \in Requests /\ Depth(r) - 1 \in 0..Len(req[r].frames)
  <2>1. r \in Requests /\ \E i \in DOMAIN req[r].frames : req[r].frames[i].at = s
    BY <1>3 DEF InFlight
  <2>2. Depth(r) \in DOMAIN req[r].frames
    BY <2>1
  <2>3. req[r].frames \in Seq(Calls)
    BY <1>1, <2>1 DEF Request
  <2>4. Depth(r) \in 1..Len(req[r].frames) /\ Len(req[r].frames) \in Nat
    BY <2>2, <2>3
  <2> HIDE DEF Depth
  <2> QED
    BY <2>1, <2>4
<1> HIDE DEF Depth
<1>4. \A r \in InFlight(s) :
        /\ CutAt(r, Depth(r) - 1) \in Request
        /\ \A t : Covers(CutAt(r, Depth(r) - 1).frames, t) => Covers(req[r].frames, t)
        /\ Abandoned(r, Depth(r) - 1) \in SUBSET (Requests \X Services)
        /\ \A o \in Abandoned(r, Depth(r) - 1) : o[1] = r /\ Covers(req[r].frames, o[2])
  BY <1>1, <1>3, Cut
<1>5. req' \in [Requests -> Request]
  BY <1>1, <1>2, <1>4
<1>6. free \in SUBSET (Requests \X Services)
      /\ \A o \in free : Covers(req[o[1]].frames, o[2])
  BY <1>4
<1> HIDE DEF free
<1>7. orphans' \in SUBSET (Requests \X Services) /\ backoff' \in SUBSET (Services \X Services)
  BY <1>1, <1>2, <1>6
<1>8. at' \in [Services -> Steps] /\ stop' \in [Services -> {"no", "signalled", "draining",
                                                              "drained", "forced"}]
  BY <1>2 DEF IInv, TypeOK, Steps
<1>9. TypeOK'
  BY <1>2, <1>5, <1>7, <1>8 DEF IInv, TypeOK, Request
<1>10. \A t \in Services : at'[t] = IF t = s THEN "down" ELSE at[t]
  BY <1>2 DEF IInv, TypeOK
<1>11. ProgramInv'
  BY <1>10 DEF IInv, ProgramInv
<1>12. SchemaInv'
  BY <1>2, <1>10 DEF IInv, SchemaInv
<1>13. DrainedInv'
  <2> SUFFICES ASSUME NEW t \in Services, stop'[t] = "drained",
                      NEW r \in Requests, r \in Handlers(t)'
               PROVE  FALSE
    BY DEF DrainedInv, Handlers, InFlight
  <2>1. stop[t] = "drained" /\ Handlers(t) = {}
    BY <1>2 DEF IInv, TypeOK, DrainedInv
  <2>2. Covers(req'[r].frames, t) \/ <<r, t>> \in orphans'
    BY DEF Handlers, InFlight, Covers
  <2>3. Covers(req'[r].frames, t) => Covers(req[r].frames, t)
    BY <1>2, <1>4
  <2>4. <<r, t>> \in orphans' => <<r, t>> \in orphans \/ Covers(req[r].frames, t)
    BY <1>2, <1>6
  <2>5. r \in Handlers(t)
    BY <2>2, <2>3, <2>4 DEF Handlers, InFlight, Covers
  <2> QED
    BY <2>1, <2>5
<1> QED
  BY <1>9, <1>11, <1>12, <1>13 DEF IInv

\* A step of the goroutine that waits for a signal.
LEMMA StopInv ==
  ASSUME IInv, NEW s \in Services,
         Interrupt(s) \/ Drain(s) \/ Drained(s) \/ ForceStop(s)
  PROVE  IInv'
<1>1. UNCHANGED <<at, schema, req, orphans, backoff>>
  BY DEF Interrupt, Drain, Drained, ForceStop, reqVars
<1>2. PICK v \in {"signalled", "draining", "drained", "forced"} :
        stop' = [stop EXCEPT ![s] = v] /\ (v = "drained" => Handlers(s) = {})
  BY DEF Interrupt, Drain, Drained, ForceStop
<1>3. TypeOK'
  BY <1>1, <1>2 DEF IInv, TypeOK
<1>4. ProgramInv' /\ SchemaInv'
  BY <1>1 DEF IInv, ProgramInv, SchemaInv
<1>5. \A t \in Services : stop'[t] = IF t = s THEN v ELSE stop[t]
  BY <1>2 DEF IInv, TypeOK
<1>6. \A t \in Services : Handlers(t)' = Handlers(t)
  BY <1>1 DEF Handlers, InFlight
<1>7. DrainedInv'
  BY <1>2, <1>5, <1>6 DEF IInv, DrainedInv
<1> QED
  BY <1>3, <1>4, <1>7 DEF IInv

\* A step of a start moves one program on and leaves the requests alone.
LEMMA ProgramStep ==
  ASSUME IInv, UNCHANGED <<stop, req, orphans, backoff>>,
         NEW s \in Services, NEW p \in Steps, at' = [at EXCEPT ![s] = p],
         schema' \in [version : {0, 1}, dirty : BOOLEAN, tables : BOOLEAN, rows : {0, 1}],
         p = "database" => s \in {"update", "search"},
         p \in {"migrate", "apply", "record"} => s = "update",
         p = "listen" => s \in Rpc,
         p = "rebuild" => s = "search",
         SchemaInv'
  PROVE  IInv'
<1>1. at \in [Services -> Steps]
  BY DEF IInv, TypeOK
<1>2. TypeOK'
  BY <1>1 DEF IInv, TypeOK
<1>3. \A t \in Services : at'[t] = IF t = s THEN p ELSE at[t]
  BY <1>1
<1>4. ProgramInv'
  BY <1>3 DEF IInv, ProgramInv
<1>5. DrainedInv'
  BY DEF IInv, DrainedInv, Handlers, InFlight
<1> QED
  BY <1>2, <1>4, <1>5 DEF IInv

\* The same of a step that leaves the database alone as well.
LEMMA PlainStep ==
  ASSUME IInv, UNCHANGED <<stop, schema, req, orphans, backoff>>,
         NEW s \in Services, NEW p \in Steps \ {"apply", "record"}, at' = [at EXCEPT ![s] = p],
         p = "database" => s \in {"update", "search"},
         p = "migrate" => s = "update",
         p = "listen" => s \in Rpc,
         p = "rebuild" => s = "search",
         s = "update" /\ p \in {"listen", "serve", "serving"} => schema.tables,
         s = "search" /\ p \in {"serve", "serving"} => schema.tables
  PROVE  IInv'
<1>1. at \in [Services -> Steps]
  BY DEF IInv, TypeOK
<1>2. \A t \in Services : at'[t] = IF t = s THEN p ELSE at[t]
  BY <1>1
<1>3. SchemaInv'
  BY <1>2 DEF IInv, SchemaInv
<1>4. schema' \in [version : {0, 1}, dirty : BOOLEAN, tables : BOOLEAN, rows : {0, 1}]
  BY DEF IInv, TypeOK
<1> QED
  BY <1>3, <1>4, ProgramStep

\* The service that is at a step is one whose program has it.
LEMMA Deployed == \A s \in Services : s \in {"words", "update", "search", "api", "frontend"}
BY ServicesAssumption DEF Rpc, Web

\* No step of a start disturbs the invariant; the migration has the row and the
\* tables inserted together, and once.
LEMMA StartInv ==
  ASSUME IInv, NEW s \in Services, Start(s)
  PROVE  IInv'
<1> USE DEF reqVars, Step
<1>1. s \in {"words", "update", "search", "api", "frontend"}
  BY Deployed
<1>2. ProgramInv /\ SchemaInv /\ TypeOK
  BY DEF IInv
<1>3. CASE Launch(s)
  <2>1. Run[s][1] \in {"database", "listen", "serve"}
        /\ (Run[s][1] = "database" => s \in {"update", "search"})
        /\ (Run[s][1] = "listen" => s \in {"words"})
        /\ (Run[s][1] = "serve" => s \in {"api", "frontend"})
    BY <1>1, Successors
  <2> QED
    BY <1>3, <2>1, PlainStep DEF Launch, Steps, Starting, Rpc
<1>4. CASE Connect(s)
  <2>1. \/ s = "update" /\ After(s, "database") = "migrate"
        \/ s = "search" /\ After(s, "database") = "listen"
    BY <1>2, <1>4, Successors DEF Connect, ProgramInv
  <2> QED
    BY <1>4, <2>1, PlainStep DEF Connect, Steps, Starting, Rpc
<1>5. CASE Migrate(s)
  <2>1. s = "update" /\ After(s, "migrate") = "listen"
    BY <1>2, <1>5, Successors DEF Migrate, Blocked, ProgramInv
  <2>2. CASE schema.version = 1 /\ Step(s, After(s, "migrate")) /\ UNCHANGED schema
    <3>1. schema.tables
      BY <1>2, <1>5, <2>2 DEF Migrate, Blocked, SchemaInv
    <3> QED
      BY <1>5, <2>1, <2>2, <3>1, PlainStep DEF Migrate, Blocked, Steps, Starting, Rpc
  <2>3. CASE /\ schema.version = 0 /\ Step(s, "apply")
             /\ schema' = [schema EXCEPT !.version = 1, !.dirty = TRUE]
    <3>1. /\ schema' \in [version : {0, 1}, dirty : BOOLEAN, tables : BOOLEAN, rows : {0, 1}]
          /\ schema'.version = 1 /\ schema'.dirty
          /\ schema'.tables = schema.tables /\ schema'.rows = schema.rows
      BY <1>2, <2>3 DEF TypeOK
    <3>2. ~schema.tables
      BY <1>2, <2>3 DEF SchemaInv
    <3>3. \A t \in Services : at'[t] = IF t = s THEN "apply" ELSE at[t]
      BY <1>2, <2>3 DEF TypeOK
    <3>4. \A t \in Services : at'[t] # "record"
      BY <1>2, <2>3, <3>2, <3>3 DEF SchemaInv
    <3>5. SchemaInv'
      BY <1>2, <2>1, <3>1, <3>2, <3>3, <3>4 DEF SchemaInv
    <3> QED
      BY <1>5, <2>1, <2>3, <3>1, <3>5, ProgramStep DEF Migrate, Blocked, Steps, Starting
  <2> QED
    BY <1>5, <2>2, <2>3 DEF Migrate, Blocked
<1>6. CASE Apply(s)
  <2>1. s = "update" /\ schema.version = 1 /\ schema.dirty /\ ~schema.tables /\ schema.rows = 0
    BY <1>2, <1>6 DEF Apply, ProgramInv, SchemaInv
  <2>2. /\ schema' \in [version : {0, 1}, dirty : BOOLEAN, tables : BOOLEAN, rows : {0, 1}]
        /\ schema'.version = 1 /\ schema'.dirty /\ schema'.tables /\ schema'.rows = 1
    <3>1. schema' = [schema EXCEPT !.tables = TRUE, !.rows = schema.rows + 1]
      BY <1>6 DEF Apply
    <3>2. schema \in [version : {0, 1}, dirty : BOOLEAN, tables : BOOLEAN, rows : {0, 1}]
      BY <1>2 DEF TypeOK
    <3>3. schema' = [schema EXCEPT !.tables = TRUE, !.rows = 1]
      BY <2>1, <3>1
    <3> QED
      BY <2>1, <3>2, <3>3
  <2>3. \A t \in Services : at'[t] = IF t = s THEN "record" ELSE at[t]
    BY <1>2, <1>6 DEF Apply, TypeOK
  <2>4. \A t \in Services : at'[t] # "apply"
    BY <1>2, <2>1, <2>3 DEF ProgramInv
  <2>5. SchemaInv'
    BY <2>2, <2>4 DEF SchemaInv
  <2> QED
    BY <1>6, <2>1, <2>2, <2>5, ProgramStep DEF Apply, Steps, Starting
<1>7. CASE Record(s)
  <2>1. s = "update" /\ schema.version = 1 /\ schema.tables /\ After(s, "migrate") = "listen"
    BY <1>2, <1>7, Successors DEF Record, ProgramInv, SchemaInv
  <2>2. /\ schema' \in [version : {0, 1}, dirty : BOOLEAN, tables : BOOLEAN, rows : {0, 1}]
        /\ schema'.version = 1 /\ ~schema'.dirty /\ schema'.tables
        /\ schema'.rows = schema.rows
    BY <1>2, <1>7, <2>1 DEF Record, TypeOK
  <2>3. \A t \in Services : at'[t] = IF t = s THEN "listen" ELSE at[t]
    BY <1>2, <1>7, <2>1 DEF Record, TypeOK
  <2>4. \A t \in Services : at'[t] \notin {"apply", "record"}
    BY <1>2, <2>1, <2>3 DEF ProgramInv
  <2>5. SchemaInv'
    BY <1>2, <2>1, <2>2, <2>4 DEF SchemaInv
  <2> QED
    BY <1>7, <2>1, <2>2, <2>5, ProgramStep DEF Record, Steps, Starting, Rpc
<1>8. CASE Listen(s)
  <2>1. \/ s = "words" /\ After(s, "listen") = "serve"
        \/ s = "update" /\ After(s, "listen") = "serve" /\ schema.tables
        \/ s = "search" /\ After(s, "listen") = "rebuild"
    BY <1>2, <1>8, Successors DEF Listen, ProgramInv, SchemaInv, Rpc
  <2> QED
    BY <1>8, <2>1, PlainStep DEF Listen, Steps, Starting
<1>9. CASE Rebuild(s)
  <2>1. s = "search" /\ After(s, "rebuild") = "serve" /\ schema.tables
    BY <1>2, <1>9, Successors DEF Rebuild, Blocked, ProgramInv
  <2> QED
    BY <1>9, <2>1, PlainStep DEF Rebuild, Blocked, Steps, Starting
<1>10. CASE Serve(s)
  <2>1. s \in {"update", "search"} => schema.tables
    BY <1>2, <1>10 DEF Serve, Blocked, SchemaInv
  <2> QED
    BY <1>10, <2>1, PlainStep DEF Serve, Blocked, Steps, Starting
<1> QED
  BY <1>3, <1>4, <1>5, <1>6, <1>7, <1>8, <1>9, <1>10 DEF Start

-----------------------------------------------------------------------------
(* The invariant *)

\* The initial state satisfies the inductive invariant.
LEMMA InitInv == Init => IInv
<1> SUFFICES ASSUME Init
             PROVE  IInv
  OBVIOUS
<1>1. NoRequest \in Request /\ NoRequest.frames = <<>>
  BY DEF NoRequest, Request, Kinds
<1>2. TypeOK
  BY <1>1 DEF Init, TypeOK, Steps, Request
<1>3. ProgramInv /\ SchemaInv /\ DrainedInv
  BY DEF Init, ProgramInv, SchemaInv, DrainedInv
<1> QED
  BY <1>2, <1>3 DEF IInv

\* Every step keeps the inductive invariant.
LEMMA NextInv == IInv /\ [Next]_vars => IInv'
<1> SUFFICES ASSUME IInv, [Next]_vars
             PROVE  IInv'
  OBVIOUS
<1>1. ASSUME NEW s \in Services,
             \/ Start(s) \/ StartError(s) \/ StartFault(s) \/ Interrupt(s)
             \/ Shutdown(s) \/ Crash(s)
      PROVE  IInv'
  BY <1>1, StartInv, ExitInv, StopInv DEF StartError, StartFault, Crash, Shutdown, Return
<1>2. ASSUME NEW r \in Requests, NEW k \in Kinds, NEW s \in Web \cap Services, Send(r, k, s)
      PROVE  IInv'
  BY <1>2, SendInv
<1>3. ASSUME NEW r \in Requests, Progress(r) \/ GiveUp(r)
      PROVE  IInv'
  BY <1>3, AcceptInv, RefuseInv, AskInv, HearInv, AnswerInv, CloseInv, GiveUpInv DEF Progress
<1>4. ASSUME NEW r \in Requests, NEW s \in Services, EndOrphan(r, s)
      PROVE  IInv'
  BY <1>4, EndOrphanInv
<1>5. ASSUME NEW s \in Services, NEW t \in Services, Reconnect(s, t)
      PROVE  IInv'
  BY <1>5, ReconnectInv
<1>6. CASE UNCHANGED vars
  BY <1>6, RequestStep DEF vars, IInv, TypeOK, Request
<1>7. CASE Next
  <2>1. \/ \E s \in Services :
             \/ Start(s) \/ StartError(s) \/ StartFault(s) \/ Interrupt(s)
             \/ Shutdown(s) \/ Crash(s)
        \/ \E r \in Requests :
             \/ \E k \in Kinds, s \in Web \cap Services : Send(r, k, s)
             \/ Progress(r) \/ GiveUp(r)
             \/ \E s \in Services : EndOrphan(r, s)
        \/ \E s, t \in Services : Reconnect(s, t)
    BY <1>7 DEF Next
  <2> QED
    BY ONLY <2>1, <1>1, <1>2, <1>3, <1>4, <1>5
<1> QED
  BY <1>6, <1>7

\* In every reachable state the programs, the migration, the signals and the
\* requests fit together.
THEOREM Invariant == Spec => []IInv
<1> QED
  BY InitInv, NextInv, PTL DEF Spec

\* Every variable keeps its type: no migration inserts the row of the
\* statistics twice, no request is at a service that is not deployed.
THEOREM TypeCorrect == Spec => []TypeOK
<1>1. IInv => TypeOK
  BY DEF IInv
<1> QED
  BY <1>1, Invariant, PTL

\* DB.Migrate and the order of the steps in `run`: the statistics have one row
\* exactly when there are tables, and neither update nor search serves before.
THEOREM SchemaIsSound == Spec => []SchemaSound
<1>1. IInv => SchemaSound
  BY DEF IInv, SchemaInv, SchemaSound
<1> QED
  BY <1>1, Invariant, PTL

\* GracefulStop in the goroutine of the signal: an RPC service that ends by a
\* signal within 30 s has no handler left.
THEOREM SignalCutsNoCall == Spec => Graceful
<1> DEFINE Calm == \A s \in Services \cap Rpc :
                     Return(s) /\ stop[s] # "forced" => Handlers(s) = {}
<1>1. IInv /\ [Next]_vars => [Calm]_vars
  BY DEF IInv, DrainedInv, Return, Stopped
<1> QED
  BY <1>1, Invariant, PTL DEF Spec, Graceful
=============================================================================
