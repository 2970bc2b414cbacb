------------------------------- MODULE RateLimit -------------------------------
(*********************************************************************************)
(* createLimiter of ratelimit.js: a sliding-window limiter, here the record of   *)
(* its parameters, [max, window].  The hits of one key (an address) are the      *)
(* sequence of the times of its recorded calls; a key that the limiter's Map     *)
(* does not hold has the empty sequence.                                         *)
(*********************************************************************************)
EXTENDS Integers, Sequences, FiniteSets

\* Drops the hits at the FRONT of the list that have left the window.
Prune(limiter, list, t) ==
    LET dropped == {i \in 1..Len(list) : \A j \in 1..i : list[j] <= t - limiter.window}
    IN  SubSeq(list, Cardinality(dropped) + 1, Len(list))

\* Mutant: one call too many is let through.
Blocked_OffByOne(limiter, list, t) == Len(Prune(limiter, list, t)) > limiter.max

Blocked(limiter, list, t) == Len(Prune(limiter, list, t)) >= limiter.max

\* How long a blocked caller is told to wait (Retry-After).
RetryAfter(limiter, list, t) ==
    LET wait == Prune(limiter, list, t)[1] + limiter.window - t IN IF wait > 0 THEN wait ELSE 0

\* record(key): unconditional, the caller decides whether the key is blocked.
Record(limiter, list, t) == Append(Prune(limiter, list, t), t)
=================================================================================
