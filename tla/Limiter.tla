--------------------------------- MODULE Limiter ---------------------------------
(*********************************************************************************)
(* One address calling a limiter of ratelimit.js (pairing attempts, or failed    *)
(* authentications), and what its callers are told.  The clock only advances.    *)
(*********************************************************************************)
EXTENDS RateLimit

CONSTANTS Allowed, Window,   \* the limiter's parameters
          MaxTime,       \* bound of the clock
          MaxCalls       \* bound on the calls that are let through

ASSUME LimiterAssumption == /\ Allowed \in Nat \ {0} /\ Window \in Nat \ {0}
                            /\ MaxTime \in Nat /\ MaxCalls \in Nat

VARIABLES now,
          hits,       \* the limiter's list for the address
          admitted,   \* history: the times of all calls it let through
          retryAt     \* when the last blocked caller was told to come back

limiterVars == <<now, hits, admitted, retryAt>>

OneLimiter == [max |-> Allowed, window |-> Window]

LimiterInit == now = 0 /\ hits = <<>> /\ admitted = <<>> /\ retryAt = 0

\* attempt, or isBlocked and record in one handler.
Admit == /\ Len(admitted) < MaxCalls
         /\ ~Blocked(OneLimiter, hits, now)
         /\ hits' = Record(OneLimiter, hits, now)
         /\ admitted' = Append(admitted, now)
         /\ UNCHANGED <<now, retryAt>>

\* isBlocked prunes the list also when the call is refused, or does not count.
Refuse == /\ Blocked(OneLimiter, hits, now)
          /\ hits' = Prune(OneLimiter, hits, now)
          /\ retryAt' = now + RetryAfter(OneLimiter, hits, now)
          /\ UNCHANGED <<now, admitted>>

Look == /\ ~Blocked(OneLimiter, hits, now)
        /\ hits' = Prune(OneLimiter, hits, now)
        /\ UNCHANGED <<now, admitted, retryAt>>

TimePasses == now < MaxTime /\ now' = now + 1 /\ UNCHANGED <<hits, admitted, retryAt>>

LimiterNext == Admit \/ Refuse \/ Look \/ TimePasses

LimiterSpec == LimiterInit /\ [][LimiterNext]_limiterVars

---------------------------------------------------------------------------------
\* Type correctness of the limiter's list and the histories.
LimiterTypeOK == /\ now \in Nat /\ retryAt \in Nat
          /\ hits \in Seq(Nat) /\ admitted \in Seq(Nat)

\* No window, wherever it begins, sees more calls than the limit, although the list
\* is pruned at different times and only at its front.
WindowBound == \A i \in 1..(Len(admitted) - Allowed) : admitted[i + Allowed] - admitted[i] >= Window

\* Who is told to wait until retryAt is refused for just that long: nobody gets in
\* earlier, and from then on only calls that got in since can be in the way.
RetryAfterExact ==
    /\ now < retryAt => Blocked(OneLimiter, hits, now)
    /\ Blocked(OneLimiter, hits, now) => now < retryAt \/ admitted[Len(admitted)] >= retryAt

\* The window holds just as many calls as it may: never one too many, and nobody is
\* refused longer, or told to wait for less or more, than that takes (ratelimit.js:7-29).
WindowIsExact == LimiterTypeOK /\ WindowBound /\ RetryAfterExact
=================================================================================
