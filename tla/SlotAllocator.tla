---------------------------- MODULE SlotAllocator ----------------------------
(***************************************************************************)
(* What the rate limiter of the API gateway promises, without tokens: the  *)
(* requests it admits or lets wait get slots, one Period apart or more.  A *)
(* request gets the earliest slot that is left when it is looked at, or    *)
(* none; a slot once given is not given again.                             *)
(***************************************************************************)
EXTENDS Integers, Sequences

CONSTANT Period   \* ticks of the clock between two slots

VARIABLES
  now,    \* the clock
  slots   \* the slots given so far, in the order of the requests

slotVars == <<now, slots>>

Later(s, t) == IF s >= t THEN s ELSE t

\* The earliest slot a request looked at at time t can have.
Earliest(t) == IF slots = <<>> THEN t ELSE Later(t, slots[Len(slots)] + Period)

SlotsInit ==
  /\ now \in Nat
  /\ slots = <<>>

Pass ==
  /\ now' = now + 1
  /\ UNCHANGED slots

Give ==
  /\ \E t \in 0..now : slots' = Append(slots, Earliest(t))
  /\ UNCHANGED now

SlotsNext == Pass \/ Give

SlotsSpec == SlotsInit /\ [][SlotsNext]_slotVars

\* The configured rate: between any two slots lies a Period for each step from
\* one to the other, whoever asked, waited or gave up in between.
RateBound ==
  \A i, j \in DOMAIN slots : i < j => slots[j] - slots[i] >= (j - i) * Period
=============================================================================
