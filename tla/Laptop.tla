--------------------------------- MODULE Laptop ---------------------------------
(*********************************************************************************)
(* What every component of the laptop server shares: the phones that may pair    *)
(* with it, the addresses they call from and the clock (Date.now).  A handler    *)
(* of the server is one action: Node runs it to its end before another one.      *)
(*********************************************************************************)
EXTENDS Integers, FiniteSets, Sequences, Maps, RateLimit

CONSTANTS Device,   \* phones (deviceId)
          Ip,       \* remote addresses of callers
          MaxTime   \* bound of the clock (of the model, not of the code)

ASSUME ClockAssumption == MaxTime \in Nat

VARIABLE now        \* the clock, in ticks

\* Time passes between two handlers.
Tick == now < MaxTime /\ now' = now + 1
=================================================================================
