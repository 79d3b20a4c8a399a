---------------------------- MODULE MCRateLimiter ----------------------------
(* Instances of RateLimiter for TLC. *)
EXTENDS RateLimiter

\* A budget that ends before the next slot, and one that outlasts a queue.
MCBudgets == {1, 3}
=============================================================================
