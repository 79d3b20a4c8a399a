----------------------------- MODULE RateLimiter -----------------------------
(***************************************************************************)
(* The rate limiter in front of GET /api/isearch: a token bucket that goes *)
(* into debt.  A request takes its token at once and sleeps until the debt *)
(* is paid off; the next request queues up behind that debt.  A request    *)
(* whose context ends while it sleeps leaves its token in the bucket's     *)
(* debt.                                                                   *)
(*                                                                         *)
(* Time is a number of ticks, a token is worth Period of them, and credit  *)
(* is rl.tokens in ticks: what the code computes in floating point is      *)
(* exact here.                                                             *)
(***************************************************************************)
EXTENDS Integers, Sequences, FiniteSets

CONSTANTS
  Requests,    \* goroutines that serve requests
  Period,      \* ticks in which the bucket earns one token
  Positive,    \* the configured rate is positive
  Budgets,     \* ticks a context may have left when its request arrives
  MaxTime,     \* bound: the clock stops here
  MaxGrants    \* bound: no request arrives after so many have got a slot

ASSUME RateAssumption ==
  /\ Period \in Nat \ {0}
  /\ "none" \notin Requests
  /\ Positive \in BOOLEAN
  /\ Budgets \subseteq Nat
  /\ MaxTime \in Nat
  /\ MaxGrants \in Nat

VARIABLES
  now,        \* the clock
  mu,         \* the request that holds rl.mu, or "none"
  credit,     \* rl.tokens, in ticks: negative when the bucket is in debt
  last,       \* rl.last
  pc,         \* pc[r]: where r is in Limit
  deadline,   \* deadline[r]: when r's context ends by itself, or Never
  ended,      \* ended[r]: r's context is done
  at,         \* at[r]: the time r read under the lock; asleep, when its timer fires
  slots,      \* ghost: the slots given so far, in the order of the requests
  entered     \* ghost: how many requests have reached the handler

bucketVars == <<mu, credit, last>>
requestVars == <<pc, deadline, ended, at>>
ghostVars == <<slots, entered>>
vars == <<now, bucketVars, requestVars, ghostVars>>

Burst == 1
Cap == Burst * Period

\* The zero time, rl.last of a new limiter, is longer ago than a full bucket.
Boot == Cap

\* time.Duration(math.MaxInt64), and the deadline of a context without one.
Forever == MaxTime + 1
Never == 2 * Forever + MaxTime

Init ==
  /\ now = Boot
  /\ mu = "none"
  /\ credit = 0
  /\ last = 0
  /\ pc = [r \in Requests |-> "idle"]
  /\ deadline = [r \in Requests |-> Never]
  /\ ended = [r \in Requests |-> FALSE]
  /\ at = [r \in Requests |-> 0]
  /\ slots = <<>>
  /\ entered = 0

Goto(r, loc) ==
  /\ pc' = [pc EXCEPT ![r] = loc]
  /\ UNCHANGED <<deadline, ended>>

\* r returns from Limit, and its context goes with it.
Leave(r) ==
  /\ pc' = [pc EXCEPT ![r] = "idle"]
  /\ deadline' = [deadline EXCEPT ![r] = Never]
  /\ ended' = [ended EXCEPT ![r] = FALSE]
  /\ at' = [at EXCEPT ![r] = 0]

-----------------------------------------------------------------------------

Tick ==
  /\ now < MaxTime
  /\ now' = now + 1
  /\ UNCHANGED <<bucketVars, requestVars, ghostVars>>

\* A request arrives, its context with or without a deadline.
Arrive(r) ==
  /\ pc[r] = "idle"
  /\ Len(slots) < MaxGrants
  /\ pc' = [pc EXCEPT ![r] = "check"]
  /\ \E d \in {Never} \cup {now + b : b \in Budgets} :
       deadline' = [deadline EXCEPT ![r] = d]
  /\ UNCHANGED <<now, bucketVars, ended, at, ghostVars>>

\* The client goes away, or the deadline has come.
End(r) ==
  /\ pc[r] # "idle"
  /\ ~ended[r]
  /\ ended' = [ended EXCEPT ![r] = TRUE]
  /\ UNCHANGED <<now, bucketVars, pc, deadline, at, ghostVars>>

\* The first select: a context that is done already is refused.
Check(r) ==
  /\ pc[r] = "check"
  /\ \/ /\ ended[r]
        /\ Leave(r)
     \/ /\ ~ended[r]
        /\ Goto(r, "lock")
        /\ UNCHANGED at
  /\ UNCHANGED <<now, bucketVars, ghostVars>>

\* rl.mu.Lock() and now := time.Now()
Lock(r) ==
  /\ pc[r] = "lock"
  /\ mu = "none"
  /\ mu' = r
  /\ at' = [at EXCEPT ![r] = now]
  /\ Goto(r, "locked")
  /\ UNCHANGED <<now, credit, last, ghostVars>>

\* Bug for TypeOK: the bucket fills without limit.
RefilledUncapped(t) ==
  credit + IF Positive THEN t - last ELSE 0

\* tokensAt(t), the bucket at time t.
Refilled(t) ==
  LET full == credit + IF Positive THEN t - last ELSE 0 IN
  IF full > Cap THEN Cap ELSE full

\* durationFromTokens: how long a bucket with credit c needs to get even.
Delay(c) ==
  IF c >= 0 THEN 0 ELSE IF Positive THEN -c ELSE Forever

\* What the bucket holds once r has taken its token, and how long r waits.
After(r) == Refilled(at[r]) - Period
Wait(r) == Delay(After(r))

\* Bug for Leaves: the early return keeps the lock.
TooLateLocked(r) ==
  /\ pc[r] = "locked"
  /\ at[r] + Wait(r) > deadline[r]
  /\ credit' = Refilled(at[r])
  /\ last' = at[r]
  /\ Leave(r)
  /\ UNCHANGED <<now, mu, ghostVars>>

\* Bug for ImplementsSlots: the refused request is charged all the same.
TooLateCharged(r) ==
  /\ pc[r] = "locked"
  /\ at[r] + Wait(r) > deadline[r]
  /\ credit' = After(r)
  /\ last' = at[r]
  /\ mu' = "none"
  /\ Leave(r)
  /\ UNCHANGED <<now, ghostVars>>

\* The wait would outlast the context: refused, without a token.
TooLate(r) ==
  /\ pc[r] = "locked"
  /\ at[r] + Wait(r) > deadline[r]
  /\ credit' = Refilled(at[r])
  /\ last' = at[r]
  /\ mu' = "none"
  /\ Leave(r)
  /\ UNCHANGED <<now, ghostVars>>

\* Bug for AdmittedWithinRate: no timer.
SlotAtOnce(r) ==
  /\ slots' = Append(slots, at[r] + Wait(r))
  /\ at' = [at EXCEPT ![r] = now]
  /\ Goto(r, "enter")
  /\ UNCHANGED <<now, entered>>

\* r gets its slot and sleeps until then, if it is not there yet.
Slot(r) ==
  /\ slots' = Append(slots, at[r] + Wait(r))
  /\ at' = [at EXCEPT ![r] = now + Wait(r)]
  /\ Goto(r, IF Wait(r) = 0 THEN "enter" ELSE "sleep")
  /\ UNCHANGED <<now, entered>>

\* Bug for RateBound: the bucket never goes below empty.
TakeWithoutDebt(r) ==
  /\ pc[r] = "locked"
  /\ at[r] + Wait(r) <= deadline[r]
  /\ credit' = IF After(r) < 0 THEN 0 ELSE After(r)
  /\ last' = at[r]
  /\ mu' = "none"
  /\ Slot(r)

\* The token is taken, the lock released, the timer started.
TakeToken(r) ==
  /\ pc[r] = "locked"
  /\ at[r] + Wait(r) <= deadline[r]
  /\ credit' = After(r)
  /\ last' = at[r]
  /\ mu' = "none"
  /\ Slot(r)

\* The timer fires.
Wake(r) ==
  /\ pc[r] = "sleep"
  /\ now >= at[r]
  /\ Goto(r, "enter")
  /\ UNCHANGED <<now, bucketVars, at, ghostVars>>

\* The context ends first, or select picks it though both are ready.  The
\* token is not given back.
Abandon(r) ==
  /\ pc[r] = "sleep"
  /\ ended[r]
  /\ Leave(r)
  /\ UNCHANGED <<now, bucketVars, ghostVars>>

\* next.ServeHTTP
Enter(r) ==
  /\ pc[r] = "enter"
  /\ entered' = entered + 1
  /\ Leave(r)
  /\ UNCHANGED <<now, bucketVars, slots>>

-----------------------------------------------------------------------------

Step(r) ==
  \/ Check(r) \/ Lock(r) \/ TooLate(r) \/ TakeToken(r)
  \/ Wake(r) \/ Abandon(r) \/ Enter(r)

Next == Tick \/ \E r \in Requests : Arrive(r) \/ End(r) \/ Step(r)

Spec == Init /\ [][Next]_vars

\* The clock runs, goroutines are scheduled, and Go's mutex lets nobody
\* starve.  No request has to arrive and no context to end.
Fairness ==
  /\ WF_vars(Tick)
  /\ \A r \in Requests : WF_vars(Step(r)) /\ SF_vars(Lock(r))

FairSpec == Spec /\ Fairness

-----------------------------------------------------------------------------
(* Properties *)

Allocator == INSTANCE SlotAllocator

TypeOK ==
  /\ now \in Nat
  /\ mu \in Requests \cup {"none"}
  /\ credit \in Int /\ credit <= Cap
  /\ last \in Nat /\ last <= now
  /\ pc \in [Requests -> {"idle", "check", "lock", "locked", "sleep", "enter"}]
  /\ deadline \in [Requests -> Nat]
  /\ ended \in [Requests -> BOOLEAN]
  /\ at \in [Requests -> Nat]
  /\ slots \in Seq(Nat)
  /\ entered \in Nat

\* The configured rate: between the slots of any two requests lies a Period
\* for each step from one to the other, whoever waited, gave up or was refused
\* in between, and however long the bucket was idle.
RateBound == Positive => Allocator!RateBound

\* The handler has seen no more requests than the time since the start allows;
\* with a rate of zero or less it sees none (TestRateLimitZeroOrNegativeRate).
AdmittedWithinRate ==
  entered <= IF Positive THEN Burst + (now - Boot) \div Period ELSE 0

\* Every request leaves the limiter, unless its slot lies beyond the horizon
\* of the clock: no path keeps the lock, no timer is forgotten.
Leaves ==
  \A r \in Requests :
    pc[r] # "idle" ~> pc[r] = "idle" \/ (pc[r] = "sleep" /\ at[r] > MaxTime)

\* With a positive rate the bucket gives the slots the allocator gives: a
\* refused request leaves no trace, an abandoned one keeps its slot.
ImplementsSlots == Allocator!SlotsSpec
=============================================================================
