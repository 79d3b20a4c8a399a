-------------------------- MODULE RateLimiterProofs --------------------------
(***************************************************************************)
(* What the token bucket promises, for any number of requests, any Period  *)
(* and any contexts.  The argument: the last slot given can be read off    *)
(* the bucket.  As long as the bucket is not full it is last - credit, and *)
(* a full bucket was refilled a Period or more after it (Level).  Level    *)
(* only holds if nobody looks at the bucket with a clock reading older     *)
(* than rl.last, which is why the clock must be read under the lock        *)
(* (Reader).                                                               *)
(***************************************************************************)
EXTENDS RateLimiter, FiniteSetTheorems, TLAPS

Top == slots[Len(slots)]

\* The one request in the critical section is the holder of the lock, and the
\* time it read is not older than rl.last.
Reader ==
  \A r \in Requests :
    pc[r] = "locked" => mu = r /\ last <= at[r] /\ Boot <= at[r] /\ at[r] <= now

Level ==
  Positive =>
    \/ slots = <<>> /\ credit = 0 /\ last = 0
    \/ slots = <<>> /\ credit = Cap
    \/ slots # <<>> /\ last - credit = Top
    \/ slots # <<>> /\ credit = Cap /\ last - Cap >= Top

IInv ==
  /\ TypeOK
  /\ Boot <= now
  /\ Reader
  /\ Level

-----------------------------------------------------------------------------
(* The arithmetic of the bucket *)

LEMMA Constants ==
  /\ Period \in Nat /\ Period > 0
  /\ Cap = Period /\ Cap \in Nat /\ Boot = Cap
  /\ Forever \in Nat /\ Never \in Nat
BY RateAssumption DEF Cap, Boot, Burst, Forever, Never

\* A refill earns what the clock says, up to a full bucket.
LEMMA RefilledValue ==
  ASSUME credit \in Int, last \in Nat, NEW t \in Nat, last <= t
  PROVE  /\ Refilled(t) \in Int
         /\ Refilled(t) <= Cap
         /\ Positive => Refilled(t) = IF credit + (t - last) > Cap THEN Cap ELSE credit + (t - last)
BY Constants, RateAssumption DEF Refilled

\* After a request took its token the bucket is never above empty, and with a
\* positive rate the wait is the debt.
LEMMA WaitValue ==
  ASSUME credit \in Int, last \in Nat, NEW r \in Requests, at[r] \in Nat, last <= at[r]
  PROVE  /\ After(r) \in Int
         /\ After(r) = Refilled(at[r]) - Period
         /\ After(r) <= 0
         /\ Wait(r) \in Nat
         /\ Positive => Wait(r) = -After(r)
<1>1. /\ Refilled(at[r]) \in Int
      /\ Refilled(at[r]) <= Cap
  BY RefilledValue
<1>2. /\ After(r) = Refilled(at[r]) - Period
      /\ After(r) \in Int
      /\ After(r) <= 0
  BY <1>1, Constants DEF After
<1>3. Delay(After(r)) \in Nat
  BY <1>2, Constants DEF Delay
<1>4. Positive => Delay(After(r)) = -After(r)
  BY <1>2 DEF Delay
<1> QED
  BY <1>2, <1>3, <1>4 DEF Wait

\* The slot a request gets is the earliest the allocator has for the time it read.
LEMMA SlotIsEarliest ==
  ASSUME IInv, Positive, NEW r \in Requests, pc[r] = "locked"
  PROVE  at[r] + Wait(r) = Allocator!Earliest(at[r])
<1>1. /\ credit \in Int /\ last \in Nat /\ at[r] \in Nat /\ slots \in Seq(Nat)
      /\ last <= at[r] /\ Boot <= at[r]
  BY DEF IInv, TypeOK, Reader
<1>2. /\ Wait(r) = Period - Refilled(at[r])
      /\ Refilled(at[r]) = IF credit + (at[r] - last) > Cap THEN Cap ELSE credit + (at[r] - last)
      /\ Refilled(at[r]) \in Int
  BY <1>1, WaitValue, RefilledValue, Constants
<1>3. Level
  BY DEF IInv
<1>4. CASE slots = <<>>
  BY <1>1, <1>2, <1>3, <1>4, Constants DEF Level, Allocator!Earliest, Allocator!Later
<1>5. CASE slots # <<>>
  <2>1. Top \in Nat
    BY <1>1, <1>5 DEF Top
  <2>2. \/ last - credit = Top
        \/ credit = Cap /\ last - Cap >= Top
    BY <1>3, <1>5 DEF Level
  <2>3. Allocator!Earliest(at[r]) = IF at[r] >= Top + Period THEN at[r] ELSE Top + Period
    BY <1>5 DEF Allocator!Earliest, Allocator!Later, Top
  <2>4. CASE last - credit = Top
    <3>1. credit + (at[r] - last) = at[r] - Top
      BY <1>1, <2>1, <2>4
    <3> QED
      BY <1>1, <1>2, <2>1, <2>3, <3>1, Constants
  <2>5. CASE credit = Cap /\ last - Cap >= Top
    <3>1. Refilled(at[r]) = Cap /\ at[r] >= Top + Period
      BY <1>1, <1>2, <2>1, <2>5, Constants
    <3> QED
      BY <1>1, <1>2, <2>1, <2>3, <3>1, Constants
  <2> QED
    BY <2>2, <2>4, <2>5
<1> QED
  BY <1>4, <1>5

-----------------------------------------------------------------------------
(* The inductive invariant *)

LEMMA InitIInv == Init => IInv
<1> SUFFICES ASSUME Init PROVE IInv
  OBVIOUS
<1>1. TypeOK
  BY Constants, RateAssumption DEF Init, TypeOK
<1>2. Boot <= now /\ Reader /\ Level
  BY Constants DEF Init, Reader, Level
<1> QED
  BY <1>1, <1>2 DEF IInv

\* A step that leaves the bucket and the critical section alone.
LEMMA Elsewhere ==
  ASSUME IInv,
         TypeOK',
         NEW r \in Requests,
         UNCHANGED <<mu, credit, last, slots>>,
         now' >= now,
         pc'[r] # "locked",
         \A q \in Requests : q # r => pc'[q] = pc[q] /\ at'[q] = at[q]
  PROVE  IInv'
<1>1. now \in Nat /\ now' \in Nat /\ at \in [Requests -> Nat]
  BY DEF IInv, TypeOK
<1>2. (Boot <= now)'
  BY <1>1, Constants DEF IInv, Boot, Cap, Burst
<1>3. Reader'
  BY <1>1, Constants DEF IInv, Reader, Boot, Cap, Burst
<1>4. Level'
  BY DEF IInv, Level, Top, Cap, Burst
<1> QED
  BY <1>2, <1>3, <1>4 DEF IInv

\* Whoever writes the bucket writes rl.last as well, and leaves the section.
LEMMA TypeStep == TypeOK /\ IInv /\ [Next]_vars => TypeOK'
<1> SUFFICES ASSUME TypeOK, IInv, [Next]_vars PROVE TypeOK'
  OBVIOUS
<1> USE Constants
<1>1. CASE Tick
  BY <1>1 DEF Tick, TypeOK, bucketVars, requestVars, ghostVars, Cap, Burst
<1>2. ASSUME NEW r \in Requests, Arrive(r) PROVE TypeOK'
  <2>1. PICK d \in {Never} \cup {now + b : b \in Budgets} :
          deadline' = [deadline EXCEPT ![r] = d]
    BY <1>2 DEF Arrive
  <2>2. d \in Nat
    BY RateAssumption DEF TypeOK
  <2> QED
    BY <1>2, <2>1, <2>2 DEF Arrive, TypeOK, bucketVars, ghostVars, Cap, Burst
<1>3. ASSUME NEW r \in Requests, End(r) PROVE TypeOK'
  BY <1>3 DEF End, TypeOK, bucketVars, ghostVars, Cap, Burst
<1>4. ASSUME NEW r \in Requests, Check(r) PROVE TypeOK'
  <2>1. CASE ended[r] /\ Leave(r)
    BY <1>4, <2>1 DEF Check, Leave, TypeOK, bucketVars, ghostVars, Cap, Burst
  <2>2. CASE Goto(r, "lock") /\ UNCHANGED at
    BY <1>4, <2>2 DEF Check, Goto, TypeOK, bucketVars, ghostVars, Cap, Burst
  <2> QED
    BY <1>4, <2>1, <2>2 DEF Check
<1>5. ASSUME NEW r \in Requests, Lock(r) PROVE TypeOK'
  BY <1>5 DEF Lock, Goto, TypeOK, ghostVars, Cap, Burst
<1>6. ASSUME NEW r \in Requests, TooLate(r) PROVE TypeOK'
  <2>1. at[r] \in Nat /\ last <= at[r] /\ at[r] <= now
    BY <1>6 DEF TooLate, IInv, Reader, TypeOK
  <2>2. Refilled(at[r]) \in Int /\ Refilled(at[r]) <= Cap
    BY <2>1, RefilledValue DEF TypeOK
  <2> QED
    BY <1>6, <2>1, <2>2 DEF TooLate, Leave, TypeOK, ghostVars, Cap, Burst
<1>7. ASSUME NEW r \in Requests, TakeToken(r) PROVE TypeOK'
  <2>1. at[r] \in Nat /\ last <= at[r] /\ at[r] <= now
    BY <1>7 DEF TakeToken, IInv, Reader, TypeOK
  <2>2. After(r) \in Int /\ After(r) <= Cap /\ Wait(r) \in Nat
    BY <2>1, WaitValue DEF TypeOK
  <2> QED
    BY <1>7, <2>1, <2>2 DEF TakeToken, Slot, Goto, TypeOK, Cap, Burst
<1>8. ASSUME NEW r \in Requests, Wake(r) PROVE TypeOK'
  BY <1>8 DEF Wake, Goto, TypeOK, bucketVars, ghostVars, Cap, Burst
<1>9. ASSUME NEW r \in Requests, Abandon(r) PROVE TypeOK'
  BY <1>9 DEF Abandon, Leave, TypeOK, bucketVars, ghostVars, Cap, Burst
<1>10. ASSUME NEW r \in Requests, Enter(r) PROVE TypeOK'
  BY <1>10 DEF Enter, Leave, TypeOK, bucketVars, Cap, Burst
<1>11. CASE UNCHANGED vars
  BY <1>11 DEF vars, TypeOK, bucketVars, requestVars, ghostVars, Cap, Burst
<1> QED
  BY <1>1, <1>2, <1>3, <1>4, <1>5, <1>6, <1>7, <1>8, <1>9, <1>10, <1>11 DEF Next, Step

LEMMA NextIInv == IInv /\ [Next]_vars => IInv'
<1> SUFFICES ASSUME IInv, [Next]_vars PROVE IInv'
  OBVIOUS
<1>a. TypeOK
  BY DEF IInv
<1>b. TypeOK'
  BY <1>a, TypeStep
<1>c. /\ now \in Nat /\ credit \in Int /\ last \in Nat /\ slots \in Seq(Nat)
      /\ pc \in [Requests -> {"idle", "check", "lock", "locked", "sleep", "enter"}]
      /\ at \in [Requests -> Nat]
  BY <1>a DEF TypeOK
<1>1. CASE Tick
  <2>1. UNCHANGED <<mu, credit, last, pc, at, slots>> /\ now' = now + 1
    BY <1>1 DEF Tick, bucketVars, requestVars, ghostVars
  <2>2. (Boot <= now)' /\ Reader' /\ Level'
    BY <2>1, <1>c, Constants DEF IInv, Reader, Level, Top, Boot, Cap, Burst
  <2> QED
    BY <1>b, <2>2 DEF IInv
<1>2. ASSUME NEW r \in Requests, Arrive(r) PROVE IInv'
  BY <1>2, <1>b, <1>c, Elsewhere DEF Arrive, bucketVars, ghostVars
<1>3. ASSUME NEW r \in Requests, End(r) PROVE IInv'
  <2>1. UNCHANGED <<now, mu, credit, last, pc, at, slots>>
    BY <1>3 DEF End, bucketVars, ghostVars
  <2> QED
    BY <2>1, <1>b DEF IInv, Reader, Level, Top, Boot, Cap, Burst
<1>4. ASSUME NEW r \in Requests, Check(r) PROVE IInv'
  BY <1>4, <1>b, <1>c, Elsewhere DEF Check, Leave, Goto, bucketVars, ghostVars
<1>5. ASSUME NEW r \in Requests, Lock(r) PROVE IInv'
  <2>1. UNCHANGED <<now, credit, last, slots>>
    BY <1>5 DEF Lock, ghostVars
  <2>2. \A q \in Requests : pc[q] # "locked"
    BY <1>5, RateAssumption DEF Lock, IInv, Reader
  <2>3. /\ mu' = r
        /\ at' = [at EXCEPT ![r] = now]
        /\ pc' = [pc EXCEPT ![r] = "locked"]
    BY <1>5 DEF Lock, Goto
  <2>4. last <= now /\ Boot <= now
    BY DEF IInv, TypeOK
  <2>5. Reader'
    BY <1>c, <2>1, <2>2, <2>3, <2>4 DEF Reader, Boot, Cap, Burst
  <2>6. (Boot <= now)' /\ Level'
    BY <2>1, <2>4 DEF IInv, Level, Top, Boot, Cap, Burst
  <2> QED
    BY <1>b, <2>5, <2>6 DEF IInv
<1>6. ASSUME NEW r \in Requests, pc[r] = "locked", mu' = "none",
             last' = at[r], now' = now, pc'[r] # "locked",
             \A q \in Requests : q # r => pc'[q] = pc[q]
      PROVE  (Boot <= now)' /\ Reader'
  <2>1. \A q \in Requests : pc'[q] # "locked"
    BY <1>6 DEF IInv, Reader
  <2> QED
    BY <1>6, <2>1 DEF IInv, Reader, Boot, Cap, Burst
<1>7. ASSUME NEW r \in Requests, TooLate(r) PROVE IInv'
  <2>1. /\ last <= at[r] /\ at[r] \in Nat /\ Boot <= at[r]
    BY <1>7, <1>c DEF TooLate, IInv, Reader
  <2>2. /\ credit' = Refilled(at[r]) /\ last' = at[r] /\ slots' = slots
    BY <1>7 DEF TooLate, ghostVars
  <2>3. Positive => Refilled(at[r]) = IF credit + (at[r] - last) > Cap
                                      THEN Cap ELSE credit + (at[r] - last)
    BY <1>c, <2>1, RefilledValue
  <2>4. slots # <<>> => Top \in Nat
    BY <1>c DEF Top
  <2>5. Top' = Top /\ Cap' = Cap
    BY <2>2 DEF Top, Cap, Burst
  <2>6. Level'
    <3> SUFFICES ASSUME Positive PROVE Level'
      BY DEF Level
    <3>1. CASE slots = <<>>
      BY <3>1, <1>c, <2>1, <2>2, <2>3, <2>5, Constants DEF IInv, Level
    <3>2. CASE slots # <<>>
      BY <3>2, <1>c, <2>1, <2>2, <2>3, <2>4, <2>5, Constants DEF IInv, Level
    <3> QED
      BY <3>1, <3>2
  <2>7. (Boot <= now)' /\ Reader'
    BY <1>6, <1>7, <1>c DEF TooLate, Leave
  <2> QED
    BY <1>b, <2>6, <2>7 DEF IInv
<1>8. ASSUME NEW r \in Requests, TakeToken(r) PROVE IInv'
  <2>1. /\ last <= at[r] /\ at[r] \in Nat
    BY <1>8, <1>c DEF TakeToken, IInv, Reader
  <2>2. /\ credit' = After(r) /\ last' = at[r]
        /\ slots' = Append(slots, at[r] + Wait(r))
    BY <1>8 DEF TakeToken, Slot
  <2>3. /\ After(r) \in Int /\ Wait(r) \in Nat
        /\ Positive => Wait(r) = -After(r)
    BY <1>c, <2>1, WaitValue
  <2>4. slots' # <<>> /\ Top' = at[r] + Wait(r)
    BY <1>c, <2>1, <2>2, <2>3 DEF Top
  <2>5. Level'
    BY <2>1, <2>2, <2>3, <2>4 DEF Level
  <2>6. (Boot <= now)' /\ Reader'
    BY <1>6, <1>8, <1>c DEF TakeToken, Slot, Goto
  <2> QED
    BY <1>b, <2>5, <2>6 DEF IInv
<1>9. ASSUME NEW r \in Requests, Wake(r) PROVE IInv'
  BY <1>9, <1>b, <1>c, Elsewhere DEF Wake, Goto, bucketVars, ghostVars
<1>10. ASSUME NEW r \in Requests, Abandon(r) PROVE IInv'
  BY <1>10, <1>b, <1>c, Elsewhere DEF Abandon, Leave, bucketVars, ghostVars
<1>11. ASSUME NEW r \in Requests, Enter(r) PROVE IInv'
  BY <1>11, <1>b, <1>c, Elsewhere DEF Enter, Leave, bucketVars
<1>12. CASE UNCHANGED vars
  BY <1>12, <1>b DEF vars, bucketVars, requestVars, ghostVars, IInv, Reader, Level,
     Top, Boot, Cap, Burst
<1> QED
  BY <1>1, <1>2, <1>3, <1>4, <1>5, <1>7, <1>8, <1>9, <1>10, <1>11, <1>12 DEF Next, Step

THEOREM Invariance == Spec => []IInv
BY InitIInv, NextIInv, PTL DEF Spec

\* The types of rate.go's bucket: the credit never exceeds a full bucket and
\* rl.last never runs ahead of the clock.
THEOREM TypeCorrect == Spec => []TypeOK
BY Invariance, PTL DEF IInv

-----------------------------------------------------------------------------
(* The bucket gives the slots the allocator gives *)

LEMMA StepGivesSlots ==
  ASSUME Positive
  PROVE  IInv /\ [Next]_vars => [Allocator!SlotsNext]_(Allocator!slotVars)
<1> SUFFICES ASSUME IInv, [Next]_vars
             PROVE  [Allocator!SlotsNext]_(Allocator!slotVars)
  OBVIOUS
<1> USE DEF Allocator!slotVars, bucketVars, ghostVars
<1>1. CASE Tick
  BY <1>1 DEF Tick, Allocator!SlotsNext, Allocator!Pass
<1>2. ASSUME NEW r \in Requests, TakeToken(r)
      PROVE  Allocator!Give
  <2>1. /\ pc[r] = "locked"
        /\ slots' = Append(slots, at[r] + Wait(r)) /\ now' = now
    BY <1>2 DEF TakeToken, Slot
  <2>2. at[r] \in 0..now
    BY <2>1 DEF IInv, TypeOK, Reader
  <2>3. at[r] + Wait(r) = Allocator!Earliest(at[r])
    BY <2>1, SlotIsEarliest
  <2> QED
    BY <2>1, <2>2, <2>3 DEF Allocator!Give
<1>3. ASSUME NEW r \in Requests,
             \/ Arrive(r) \/ End(r) \/ Check(r) \/ Lock(r)
             \/ TooLate(r) \/ Wake(r) \/ Abandon(r) \/ Enter(r)
      PROVE  UNCHANGED <<now, slots>>
  BY <1>3 DEF Arrive, End, Check, Lock, TooLate, Wake, Abandon, Enter
<1>4. CASE UNCHANGED vars
  BY <1>4 DEF vars
<1> QED
  BY <1>1, <1>2, <1>3, <1>4 DEF Next, Step, Allocator!SlotsNext

\* With a positive rate the token bucket of rate.go implements the allocator:
\* a refused request leaves no trace in it, and one that gives up keeps the
\* slot it was given.
THEOREM SlotRefinement == ASSUME Positive PROVE Spec => ImplementsSlots
<1>1. Init => Allocator!SlotsInit
  BY Constants DEF Init, Allocator!SlotsInit
<1> QED
  BY <1>1, StepGivesSlots, Invariance, PTL DEF Spec, ImplementsSlots, Allocator!SlotsSpec

-----------------------------------------------------------------------------
(* The rate *)

LEMMA OneMore ==
  ASSUME NEW k \in Int, NEW p \in Nat
  PROVE  /\ (k + 1) * p = k * p + p
         /\ k * p \in Int
OBVIOUS

\* A slot given by the allocator keeps its distance from every earlier one.
LEMMA GiveKeepsRate ==
  ASSUME slots \in Seq(Nat), now \in Nat, Allocator!RateBound, Allocator!Give
  PROVE  Allocator!RateBound'
<1>1. PICK t \in 0..now : slots' = Append(slots, Allocator!Earliest(t))
  BY DEF Allocator!Give
<1> DEFINE n == Len(slots)
           e == Allocator!Earliest(t)
<1>2. /\ n \in Nat
      /\ e \in Nat
      /\ slots # <<>> => slots[n] \in Nat /\ e >= slots[n] + Period
  BY Constants DEF Allocator!Earliest, Allocator!Later
<1> HIDE DEF e
<1>3. /\ DOMAIN slots' = 1..(n + 1)
      /\ slots'[n + 1] = e
      /\ \A i \in 1..n : slots'[i] = slots[i] /\ slots[i] \in Nat
  BY <1>1, <1>2 DEF e
<1> SUFFICES ASSUME NEW i \in 1..(n + 1), NEW j \in 1..(n + 1), i < j
             PROVE  slots'[j] - slots'[i] >= (j - i) * Period
  BY <1>3 DEF Allocator!RateBound
<1>a. \A x, y \in 1..n : x < y => slots[y] - slots[x] >= (y - x) * Period
  <2>1. DOMAIN slots = 1..n
    OBVIOUS
  <2>2. \A x, y \in DOMAIN slots : x < y => slots[y] - slots[x] >= (y - x) * Period
    BY DEF Allocator!RateBound
  <2> QED
    BY <2>1, <2>2
<1>b. n >= 1 => slots # <<>>
  OBVIOUS
<1> HIDE DEF n
<1>4. CASE j <= n
  <2>1. i \in 1..n /\ j \in 1..n
    BY <1>2, <1>4
  <2>2. slots[j] - slots[i] >= (j - i) * Period
    BY <1>a, <2>1
  <2> QED
    BY <1>3, <2>1, <2>2
<1>5. CASE j = n + 1
  <2>1. i \in 1..n /\ slots # <<>>
    BY <1>2, <1>5, <1>b
  <2>2. slots[n] - slots[i] >= (n - i) * Period
    <3>1. CASE i = n
      <4>1. (n - i) * Period = 0
        BY <3>1, <1>2, Constants
      <4> QED
        BY <4>1, <3>1, <1>2, <2>1
    <3>2. CASE i < n
      <4>1. n \in 1..n
        BY <1>2, <2>1
      <4> QED
        BY <1>a, <3>2, <2>1, <4>1
    <3> QED
      BY <3>1, <3>2, <1>2, <2>1
  <2>3. (j - i) * Period = (n - i) * Period + Period /\ (n - i) * Period \in Int
    <3>1. n - i \in Int /\ j - i = (n - i) + 1
      BY <1>2, <1>5, <2>1
    <3> QED
      BY <3>1, OneMore, Constants
  <2>4. slots'[i] = slots[i] /\ slots[i] \in Nat /\ slots'[j] = e
    BY <1>3, <1>5, <2>1
  <2>5. PICK x \in Int : x = (n - i) * Period
    BY <2>3
  <2>6. slots[n] - slots[i] >= x /\ (j - i) * Period = x + Period
    BY <2>2, <2>3, <2>5
  <2>7. e - slots[i] >= x + Period
    BY <1>2, <2>1, <2>4, <2>6, Constants
  <2> QED
    BY <2>4, <2>6, <2>7
<1> QED
  BY <1>2, <1>4, <1>5

\* With a positive rate no two slots the limiter gives are closer together
\* than the configured rate allows, however many requests wait and give up.
THEOREM RateBoundHolds == Spec => []RateBound
<1>1. Init => RateBound
  BY DEF Init, RateBound, Allocator!RateBound
<1>2. IInv /\ RateBound /\ [Next]_vars => RateBound'
  <2> SUFFICES ASSUME IInv, RateBound, [Next]_vars, Positive
               PROVE  Allocator!RateBound'
    BY DEF RateBound
  <2>1. slots \in Seq(Nat) /\ now \in Nat /\ Allocator!RateBound
    BY DEF IInv, TypeOK, RateBound
  <2>2. \/ Allocator!Give
        \/ slots' = slots
    BY StepGivesSlots DEF Allocator!SlotsNext, Allocator!Pass, Allocator!slotVars
  <2>3. CASE Allocator!Give
    BY <2>1, <2>3, GiveKeepsRate
  <2>4. CASE slots' = slots
    BY <2>1, <2>4 DEF Allocator!RateBound
  <2> QED
    BY <2>2, <2>3, <2>4
<1> QED
  BY <1>1, <1>2, Invariance, PTL DEF Spec

-----------------------------------------------------------------------------
(* A rate of zero or less *)

\* The bucket earns nothing, every request that gets a token sleeps beyond the
\* end of the clock, and nobody has come past the limiter.
Closed ==
  /\ now <= Boot + MaxTime
  /\ credit <= 0
  /\ entered = 0
  /\ \A r \in Requests :
       pc[r] # "enter" /\ (pc[r] = "sleep" => at[r] > Boot + MaxTime)

LEMMA ClosedStep ==
  ASSUME ~Positive
  PROVE  IInv /\ Closed /\ [Next]_vars => Closed'
<1> SUFFICES ASSUME IInv, Closed, [Next]_vars PROVE Closed'
  OBVIOUS
<1> USE DEF bucketVars, requestVars, ghostVars
<1>a. /\ now \in Nat /\ credit \in Int /\ entered = 0 /\ Boot <= now
      /\ pc \in [Requests -> {"idle", "check", "lock", "locked", "sleep", "enter"}]
      /\ at \in [Requests -> Nat]
  BY DEF IInv, TypeOK, Closed
<1>b. MaxTime \in Nat /\ Boot \in Nat /\ Boot' = Boot /\ Forever = MaxTime + 1
  BY Constants, RateAssumption DEF Boot, Cap, Burst, Forever
<1>c. \A t \in Nat : Refilled(t) = credit
  BY <1>a, Constants DEF Refilled, Closed
<1>1. CASE Tick
  BY <1>1, <1>a, <1>b DEF Tick, Closed
<1>2. ASSUME NEW r \in Requests,
             UNCHANGED <<now, credit, entered>>,
             pc'[r] # "enter", pc'[r] # "sleep",
             \A q \in Requests : q # r => pc'[q] = pc[q] /\ at'[q] = at[q]
      PROVE  Closed'
  BY <1>2, <1>b DEF Closed
<1>3. ASSUME NEW r \in Requests,
             Arrive(r) \/ Check(r) \/ Lock(r) \/ Abandon(r)
      PROVE  Closed'
  BY <1>2, <1>3, <1>a DEF Arrive, Check, Lock, Abandon, Leave, Goto
<1>4. ASSUME NEW r \in Requests, End(r) PROVE Closed'
  BY <1>4, <1>b DEF End, Closed
<1>5. ASSUME NEW r \in Requests, TooLate(r) PROVE Closed'
  <2>1. credit' = credit
    BY <1>5, <1>a, <1>c DEF TooLate
  <2> QED
    BY <1>2, <1>5, <2>1, <1>a DEF TooLate, Leave
<1>6. ASSUME NEW r \in Requests, TakeToken(r) PROVE Closed'
  <2>1. After(r) = credit - Period /\ After(r) \in Int /\ ~(After(r) >= 0)
    BY <1>a, <1>c, Constants DEF After, Closed
  <2>2. Wait(r) = Forever /\ Wait(r) # 0
    BY <1>b, <2>1 DEF Wait, Delay
  <2>3. /\ pc' = [pc EXCEPT ![r] = "sleep"]
        /\ at' = [at EXCEPT ![r] = now + Forever]
        /\ credit' = After(r) /\ UNCHANGED <<now, entered>>
    BY <1>6, <1>a, <2>2 DEF TakeToken, Slot, Goto
  <2>4. now + Forever > Boot + MaxTime
    BY <1>a, <1>b
  <2>5. credit' <= 0
    BY <1>a, <2>1, <2>3, Constants
  <2> QED
    BY <1>a, <1>b, <2>3, <2>4, <2>5 DEF Closed
<1>7. ASSUME NEW r \in Requests, Wake(r) PROVE FALSE
  BY <1>7, <1>a, <1>b DEF Wake, Closed
<1>8. ASSUME NEW r \in Requests, Enter(r) PROVE FALSE
  BY <1>8 DEF Enter, Closed
<1>9. CASE UNCHANGED vars
  BY <1>9, <1>b DEF vars, Closed
<1> QED
  BY <1>1, <1>3, <1>4, <1>5, <1>6, <1>7, <1>8, <1>9 DEF Next, Step

\* With a rate of zero or less nobody ever comes past the limiter, whatever
\* its clock and the contexts of the requests do.
THEOREM ZeroRateAdmitsNobody == ASSUME ~Positive PROVE Spec => []AdmittedWithinRate
<1>1. Init => Closed
  BY Constants, RateAssumption DEF Init, Closed
<1>2. Closed => AdmittedWithinRate
  BY DEF Closed, AdmittedWithinRate
<1> QED
  BY <1>1, <1>2, ClosedStep, Invariance, PTL DEF Spec

-----------------------------------------------------------------------------
(* How many requests the handler has seen *)

\* The requests in Limit, those of them whose timer has fired at time t at the
\* latest, and the slots up to t.
Busy == {r \in Requests : pc[r] # "idle"}
Due(t) == {r \in Requests : pc[r] = "enter" \/ (pc[r] = "sleep" /\ at[r] <= t)}
Past(t) == {i \in DOMAIN slots : slots[i] <= t}

\* Whoever has entered, or could by time t, has had a slot up to t of his own.
Paid ==
  /\ IsFiniteSet(Busy)
  /\ \A i \in DOMAIN slots : Boot <= slots[i]
  /\ \A t \in Nat : now <= t => entered + Cardinality(Due(t)) <= Cardinality(Past(t))

LEMMA Counts ==
  ASSUME IsFiniteSet(Busy), slots \in Seq(Nat), NEW t \in Nat
  PROVE  /\ IsFiniteSet(Due(t)) /\ Cardinality(Due(t)) \in Nat
         /\ IsFiniteSet(Past(t)) /\ Cardinality(Past(t)) \in Nat
<1>1. Due(t) \in SUBSET Busy
  BY DEF Due, Busy
<1>2. IsFiniteSet(Due(t))
  BY <1>1, FS_Subset
<1>3. Past(t) \in SUBSET (1..Len(slots)) /\ Len(slots) \in Nat
  BY DEF Past
<1>4. IsFiniteSet(Past(t))
  <2>1. IsFiniteSet(1..Len(slots))
    BY <1>3, FS_Interval
  <2> QED
    BY <1>3, <2>1, FS_Subset
<1> QED
  BY <1>2, <1>4, FS_CardinalityType

\* Busy grows by one request at a time.
LEMMA BusyStep ==
  ASSUME IsFiniteSet(Busy), NEW r \in Requests,
         \A q \in Requests : q # r => pc'[q] = pc[q]
  PROVE  IsFiniteSet(Busy)'
<1>1. IsFiniteSet(Busy \cup {r})
  BY FS_AddElement
<1>2. Busy' \in SUBSET (Busy \cup {r})
  BY DEF Busy
<1> QED
  BY <1>1, <1>2, FS_Subset

\* A step that gives no slot and lets nobody in brings nobody closer to his
\* turn than he was.
LEMMA PaidElsewhere ==
  ASSUME Paid, TypeOK, IsFiniteSet(Busy)',
         UNCHANGED <<slots, entered>>, now' \in Nat, now <= now',
         \A t \in Nat : now' <= t => Due(t)' \subseteq Due(t)
  PROVE  Paid'
<1>1. slots \in Seq(Nat) /\ entered \in Nat /\ now \in Nat
  BY DEF TypeOK
<1>2. ASSUME NEW t \in Nat, now' <= t
      PROVE  entered' + Cardinality(Due(t)') <= Cardinality(Past(t)')
  <2>1. /\ IsFiniteSet(Due(t)) /\ Cardinality(Due(t)) \in Nat
        /\ Cardinality(Past(t)) \in Nat
    BY <1>1, Counts DEF Paid
  <2>2. IsFiniteSet(Due(t)') /\ Cardinality(Due(t)') <= Cardinality(Due(t))
    BY <1>2, <2>1, FS_Subset
  <2>3. Cardinality(Due(t)') \in Nat
    BY <2>2, FS_CardinalityType
  <2>4. Past(t)' = Past(t)
    BY DEF Past
  <2>5. entered + Cardinality(Due(t)) <= Cardinality(Past(t))
    BY <1>1, <1>2 DEF Paid
  <2> QED
    BY <1>1, <2>1, <2>2, <2>3, <2>4, <2>5
<1>3. \A i \in DOMAIN slots' : Boot' <= slots'[i]
  BY DEF Paid, Boot, Cap, Burst
<1> QED
  BY <1>2, <1>3 DEF Paid

LEMMA PaidTakeToken ==
  ASSUME Paid, IInv, NEW r \in Requests, TakeToken(r)
  PROVE  Paid'
<1>a. /\ now \in Nat /\ credit \in Int /\ last \in Nat /\ slots \in Seq(Nat)
      /\ pc \in [Requests -> {"idle", "check", "lock", "locked", "sleep", "enter"}]
      /\ at \in [Requests -> Nat] /\ entered \in Nat
  BY DEF IInv, TypeOK
<1>b. /\ pc[r] = "locked" /\ last <= at[r] /\ Boot <= at[r] /\ at[r] <= now
  BY DEF TakeToken, IInv, Reader
<1>c. Wait(r) \in Nat /\ at[r] \in Nat /\ Boot \in Nat
  BY <1>a, <1>b, WaitValue, Constants
<1> DEFINE n == Len(slots)
           s == at[r] + Wait(r)
<1>d. /\ slots' = Append(slots, s)
      /\ at' = [at EXCEPT ![r] = now + Wait(r)]
      /\ pc' = [pc EXCEPT ![r] = IF Wait(r) = 0 THEN "enter" ELSE "sleep"]
      /\ UNCHANGED <<now, entered>>
  BY DEF TakeToken, Slot, Goto
<1>e. s \in Nat /\ Boot <= s /\ s <= now + Wait(r)
  BY <1>a, <1>b, <1>c
<1>f. n \in Nat /\ DOMAIN slots = 1..n
  BY <1>a
<1> HIDE DEF s
<1>g. /\ slots' \in Seq(Nat) /\ DOMAIN slots' = 1..(n + 1)
      /\ slots'[n + 1] = s
      /\ \A i \in 1..n : slots'[i] = slots[i]
  BY <1>a, <1>d, <1>e
<1> HIDE DEF n
<1>1. IsFiniteSet(Busy)'
  BY <1>a, <1>d, BusyStep DEF Paid
<1>2. \A i \in DOMAIN slots' : Boot' <= slots'[i]
  BY <1>e, <1>f, <1>g DEF Paid, Boot, Cap, Burst
<1>3. ASSUME NEW t \in Nat, now <= t
      PROVE  entered + Cardinality(Due(t)') <= Cardinality(Past(t)')
  <2>1. /\ IsFiniteSet(Due(t)) /\ Cardinality(Due(t)) \in Nat
        /\ IsFiniteSet(Past(t)) /\ Cardinality(Past(t)) \in Nat
    BY <1>a, Counts DEF Paid
  <2>2. entered + Cardinality(Due(t)) <= Cardinality(Past(t))
    BY <1>a, <1>3 DEF Paid
  <2>3. r \notin Due(t)
    BY <1>b DEF Due
  <2>4. n + 1 \notin Past(t)
    BY <1>f DEF Past
  <2>5. CASE now + Wait(r) <= t
    <3>1. Due(t)' = Due(t) \cup {r}
      BY <1>a, <1>c, <1>d, <2>5, <1>3 DEF Due
    <3>2. Past(t)' = Past(t) \cup {n + 1}
      <4>1. s <= t
        BY <1>a, <1>c, <1>e, <2>5
      <4> QED
        BY <1>f, <1>g, <4>1 DEF Past
    <3>3. Cardinality(Due(t)') = Cardinality(Due(t)) + 1
      BY <2>1, <2>3, <3>1, FS_AddElement
    <3>4. Cardinality(Past(t)') = Cardinality(Past(t)) + 1
      BY <2>1, <2>4, <3>2, FS_AddElement
    <3> QED
      BY <1>a, <2>1, <2>2, <3>3, <3>4
  <2>6. CASE ~(now + Wait(r) <= t)
    <3>1. Wait(r) # 0
      BY <1>a, <1>c, <1>3, <2>6
    <3>2. Due(t)' = Due(t)
      BY <1>a, <1>b, <1>c, <1>d, <2>6, <3>1 DEF Due
    <3>3. Past(t) \in SUBSET Past(t)'
      BY <1>f, <1>g DEF Past
    <3>4. IsFiniteSet(Past(t)')
      <4>1. Past(t)' \in SUBSET (1..(n + 1))
        BY <1>g DEF Past
      <4>2. IsFiniteSet(1..(n + 1))
        BY <1>f, FS_Interval
      <4> QED
        BY <4>1, <4>2, FS_Subset
    <3>5. Cardinality(Past(t)') \in Nat /\ Cardinality(Past(t)) <= Cardinality(Past(t)')
      BY <3>3, <3>4, FS_Subset, FS_CardinalityType
    <3> QED
      BY <1>a, <2>1, <2>2, <3>2, <3>5
  <2> QED
    BY <2>5, <2>6
<1> QED
  BY <1>d, <1>1, <1>2, <1>3 DEF Paid

LEMMA PaidEnter ==
  ASSUME Paid, IInv, NEW r \in Requests, Enter(r)
  PROVE  Paid'
<1>a. /\ now \in Nat /\ slots \in Seq(Nat) /\ entered \in Nat
      /\ pc \in [Requests -> {"idle", "check", "lock", "locked", "sleep", "enter"}]
      /\ at \in [Requests -> Nat]
  BY DEF IInv, TypeOK
<1>b. /\ pc[r] = "enter" /\ pc' = [pc EXCEPT ![r] = "idle"]
      /\ at' = [at EXCEPT ![r] = 0]
      /\ entered' = entered + 1 /\ UNCHANGED <<now, slots>>
  BY DEF Enter, Leave
<1>1. IsFiniteSet(Busy)'
  BY <1>a, <1>b, BusyStep DEF Paid
<1>2. \A i \in DOMAIN slots' : Boot' <= slots'[i]
  BY <1>b DEF Paid, Boot, Cap, Burst
<1>3. ASSUME NEW t \in Nat, now <= t
      PROVE  entered' + Cardinality(Due(t)') <= Cardinality(Past(t)')
  <2>1. /\ IsFiniteSet(Due(t)) /\ Cardinality(Due(t)) \in Nat
        /\ Cardinality(Past(t)) \in Nat
    BY <1>a, Counts DEF Paid
  <2>2. Due(t)' = Due(t) \ {r} /\ r \in Due(t)
    BY <1>a, <1>b DEF Due
  <2>3. Cardinality(Due(t)') = Cardinality(Due(t)) - 1
    BY <2>1, <2>2, FS_RemoveElement
  <2>4. Past(t)' = Past(t)
    BY <1>b DEF Past
  <2>5. entered + Cardinality(Due(t)) <= Cardinality(Past(t))
    BY <1>a, <1>3 DEF Paid
  <2> QED
    BY <1>a, <1>b, <2>1, <2>3, <2>4, <2>5
<1> QED
  BY <1>b, <1>1, <1>2, <1>3 DEF Paid

LEMMA PaidStep == IInv /\ Paid /\ [Next]_vars => Paid'
<1> SUFFICES ASSUME IInv, Paid, [Next]_vars PROVE Paid'
  OBVIOUS
<1> USE DEF bucketVars, requestVars, ghostVars
<1>a. TypeOK /\ now \in Nat
      /\ pc \in [Requests -> {"idle", "check", "lock", "locked", "sleep", "enter"}]
      /\ at \in [Requests -> Nat]
  BY DEF IInv, TypeOK
<1>1. CASE UNCHANGED <<pc, at, slots, entered>> /\ now' \in Nat /\ now <= now'
  <2>1. \A t \in Nat : Due(t)' \subseteq Due(t)
    BY <1>1 DEF Due
  <2>2. IsFiniteSet(Busy)'
    BY <1>1 DEF Busy, Paid
  <2> QED
    BY <1>a, <1>1, <2>1, <2>2, PaidElsewhere
<1>2. ASSUME NEW r \in Requests, UNCHANGED <<now, slots, entered>>,
             \A q \in Requests : q # r => pc'[q] = pc[q] /\ at'[q] = at[q],
             \A t \in Nat : now <= t /\ r \in Due(t)' => r \in Due(t)
      PROVE  Paid'
  <2>1. IsFiniteSet(Busy)'
    BY <1>2, BusyStep DEF Paid
  <2>2. \A t \in Nat : now' <= t => Due(t)' \subseteq Due(t)
    BY <1>2 DEF Due
  <2> QED
    BY <1>a, <1>2, <2>1, <2>2, PaidElsewhere
<1>3. CASE Tick
  BY <1>1, <1>3, <1>a DEF Tick
<1>4. ASSUME NEW r \in Requests, End(r) PROVE Paid'
  BY <1>1, <1>4, <1>a DEF End
<1>5. ASSUME NEW r \in Requests,
             Arrive(r) \/ Check(r) \/ Lock(r) \/ TooLate(r) \/ Abandon(r)
      PROVE  Paid'
  <2>1. /\ UNCHANGED <<now, slots, entered>>
        /\ \A q \in Requests : q # r => pc'[q] = pc[q] /\ at'[q] = at[q]
        /\ pc'[r] \notin {"enter", "sleep"}
    BY <1>5, <1>a DEF Arrive, Check, Lock, TooLate, Abandon, Leave, Goto
  <2>2. \A t \in Nat : r \notin Due(t)'
    BY <2>1 DEF Due
  <2> QED
    BY <1>2, <2>1, <2>2
<1>6. ASSUME NEW r \in Requests, Wake(r) PROVE Paid'
  <2>1. /\ UNCHANGED <<now, slots, entered, at>> /\ pc[r] = "sleep" /\ at[r] <= now
        /\ \A q \in Requests : q # r => pc'[q] = pc[q]
    BY <1>6, <1>a DEF Wake, Goto
  <2>2. \A t \in Nat : now <= t => r \in Due(t)
    BY <1>a, <2>1 DEF Due
  <2> QED
    BY <1>2, <2>1, <2>2
<1>7. CASE UNCHANGED vars
  BY <1>1, <1>7, <1>a DEF vars
<1> QED
  BY <1>3, <1>4, <1>5, <1>6, <1>7, PaidTakeToken, PaidEnter DEF Next, Step

\* What Nat's division is, as the bound needs it.
LEMMA Quotient ==
  ASSUME NEW d \in Nat, NEW p \in Nat, p > 0, NEW k \in Nat, k * p <= d
  PROVE  k <= d \div p /\ d \div p \in Nat
<1>1. /\ d \div p \in Nat /\ p * (d \div p) <= d /\ d < p * (d \div p) + p
  OBVIOUS
<1>2. PICK q \in Nat : q = d \div p
  BY <1>1
<1>3. d < q * p + p
  BY <1>1, <1>2
<1>4. SUFFICES ASSUME k >= q + 1 PROVE FALSE
  BY <1>1, <1>2
<1>5. PICK e \in Nat : k = q + 1 + e
  BY <1>4
<1>6. k * p = q * p + p + e * p /\ e * p >= 0
  BY <1>5
<1> QED
  BY <1>3, <1>6

\* The slots up to now are so few: the first is not before the start, and they
\* are a Period apart.
LEMMA FewSlots ==
  ASSUME IInv, Paid, RateBound, Positive
  PROVE  Cardinality(Past(now)) <= Burst + (now - Boot) \div Period
<1>a. /\ now \in Nat /\ Boot \in Nat /\ Boot <= now /\ slots \in Seq(Nat)
      /\ Period \in Nat /\ Period > 0
  BY Constants DEF IInv, TypeOK
<1> DEFINE K == (now - Boot) \div Period
<1>1. now - Boot \in Nat
  BY <1>a
<1>2. K \in Nat
  BY <1>a, <1>1, Quotient
<1>3. ASSUME NEW i \in Past(now) PROVE i \in 1..(K + 1)
  <2>1. /\ i \in 1..Len(slots) /\ slots[i] <= now
        /\ slots[i] \in Nat /\ Len(slots) \in Nat /\ DOMAIN slots = 1..Len(slots)
    BY <1>a, <1>3 DEF Past
  <2>2. slots[i] - slots[1] >= (i - 1) * Period
    <3>1. CASE i = 1
      BY <3>1, <2>1, <1>a
    <3>2. CASE i # 1
      <4>1. 1 \in DOMAIN slots /\ i \in DOMAIN slots /\ 1 < i
        BY <2>1, <3>2
      <4> QED
        BY <4>1 DEF RateBound, Allocator!RateBound
    <3> QED
      BY <3>1, <3>2
  <2>3. slots[1] \in Nat /\ Boot <= slots[1]
    <3>1. 1 \in DOMAIN slots
      BY <2>1
    <3> QED
      BY <3>1, <1>a DEF Paid
  <2>4. i - 1 \in Nat /\ (i - 1) * Period \in Nat
    BY <1>a, <2>1
  <2>5. (i - 1) * Period <= now - Boot
    BY <1>a, <2>1, <2>2, <2>3, <2>4
  <2>6. i - 1 <= K
    BY <1>a, <1>1, <2>4, <2>5, Quotient
  <2> QED
    BY <1>2, <2>1, <2>6
<1> HIDE DEF K
<1>4. IsFiniteSet(1..(K + 1)) /\ Cardinality(1..(K + 1)) = K + 1
  <2>1. 1 \in Int /\ K + 1 \in Int /\ ~(1 > K + 1)
    BY <1>2
  <2> QED
    BY <1>2, <2>1, FS_Interval
<1>5. Past(now) \in SUBSET (1..(K + 1))
  BY <1>3
<1>6. Cardinality(Past(now)) <= K + 1
  BY <1>4, <1>5, FS_Subset
<1>7. Cardinality(Past(now)) \in Nat
  BY <1>4, <1>5, FS_Subset, FS_CardinalityType
<1> QED
  BY <1>2, <1>6, <1>7 DEF K, Burst

\* The handler never sees more requests than the configured rate allows for the
\* time since the start, whatever clocks, contexts and waiters do: nobody is
\* let through before his slot, and no slot serves two.
THEOREM AdmissionsWithinRate == Spec => []AdmittedWithinRate
<1>1. CASE ~Positive
  BY <1>1, ZeroRateAdmitsNobody
<1>2. CASE Positive
  <2>1. Init => Paid
    <3> SUFFICES ASSUME Init PROVE Paid
      OBVIOUS
    <3>1. Busy = {}
      BY DEF Init, Busy
    <3>2. \A t \in Nat : Due(t) = {} /\ Past(t) = {}
      BY DEF Init, Due, Past
    <3>3. entered = 0 /\ DOMAIN slots = {}
      BY DEF Init
    <3>4. IsFiniteSet({}) /\ Cardinality({}) = 0
      BY FS_EmptySet
    <3>5. ASSUME NEW t \in Nat
          PROVE  entered + Cardinality(Due(t)) <= Cardinality(Past(t))
      <4>1. Cardinality(Due(t)) = 0 /\ Cardinality(Past(t)) = 0
        BY <3>2, <3>4
      <4> QED
        BY <3>3, <4>1
    <3> QED
      BY <3>1, <3>3, <3>4, <3>5 DEF Paid
  <2>2. IInv /\ Paid /\ RateBound => AdmittedWithinRate
    <3> SUFFICES ASSUME IInv, Paid, RateBound PROVE AdmittedWithinRate
      OBVIOUS
    <3>1. /\ now \in Nat /\ slots \in Seq(Nat) /\ entered \in Nat
          /\ now - Boot \in Nat
      BY Constants DEF IInv, TypeOK
    <3>2. /\ Cardinality(Due(now)) \in Nat /\ Cardinality(Past(now)) \in Nat
      BY <3>1, Counts DEF Paid
    <3>3. entered + Cardinality(Due(now)) <= Cardinality(Past(now))
      BY <3>1 DEF Paid
    <3>4. Cardinality(Past(now)) <= Burst + (now - Boot) \div Period
      BY <1>2, FewSlots
    <3>5. Burst + (now - Boot) \div Period \in Int
      BY <3>1, Constants DEF Burst
    <3>6. entered <= Burst + (now - Boot) \div Period
      BY <3>1, <3>2, <3>3, <3>4, <3>5
    <3> QED
      BY <1>2, <3>6 DEF AdmittedWithinRate
  <2> QED
    BY <2>1, <2>2, PaidStep, Invariance, RateBoundHolds, PTL DEF Spec
<1> QED
  BY <1>1, <1>2
=============================================================================
