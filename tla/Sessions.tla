-------------------------------- MODULE Sessions --------------------------------
(*********************************************************************************)
(* SessionStore of sessions.js: session tokens in memory, found by token (every  *)
(* call of a phone) and by phone (ending a phone's session).  A session object   *)
(* is known by its token.  The 'end' events are the business of whoever composes *)
(* this module: it closes the streams of the phones whose sessions end.          *)
(*********************************************************************************)
EXTENDS Laptop

CONSTANTS MaxTokens,    \* bound on the tokens drawn (of the model)
          SessionIdle,  \* idleMs
          SessionMax    \* maxMs

ASSUME SessionsAssumption == /\ MaxTokens \in Nat
                             /\ SessionIdle \in Nat \ {0}
                             /\ SessionMax \in Nat \ {0}

VARIABLES byToken,     \* Map: token -> session
          byDevice,    \* Map: phone -> the token of its session
          lastToken    \* tokens 1..lastToken have been drawn; a token never repeats

sessionVars == <<byToken, byDevice, lastToken>>

Token == 1..MaxTokens

Session == [device : Device, createdAt : Nat, lastUsed : Nat]

SessionsInit == byToken = EmptyMap /\ byDevice = EmptyMap /\ lastToken = 0

SessionsTypeOK == /\ lastToken \in Nat
                  /\ IsMap(byToken, 1..lastToken, Session)
                  /\ IsMap(byDevice, Device, 1..lastToken)

---------------------------------------------------------------------------------
\* Mutant: a busy session lives for ever.
SessionExpired_IdleOnly(t) == now >= byToken[t].lastUsed + SessionIdle

\* _expiry: the earlier of the idle and the absolute deadline.
SessionExpired(t) == \/ now >= byToken[t].lastUsed + SessionIdle
                     \/ now >= byToken[t].createdAt + SessionMax

\* The session byDevice finds for d, if any, as a set.
SessionOf(d) == IF d \in DOMAIN byDevice THEN {byDevice[d]} ELSE {}

\* _end of every session of a set.
EndSessions(tokens) ==
    /\ byToken' = Without(byToken, tokens)
    /\ byDevice' = Without(byDevice, {d \in DOMAIN byDevice : byDevice[d] \in tokens})
    /\ UNCHANGED lastToken

\* Mutant: the phone's previous session is only forgotten, not ended.
CreateSession_KeepsOld(d) ==
    /\ lastToken < MaxTokens
    /\ lastToken' = lastToken + 1
    /\ byToken' = With(byToken, lastToken', [device |-> d, createdAt |-> now, lastUsed |-> now])
    /\ byDevice' = With(byDevice, d, lastToken')

\* create: the phone's previous session ends as 'replaced'.
CreateSession(d) ==
    /\ lastToken < MaxTokens
    /\ lastToken' = lastToken + 1
    /\ byToken' = With(Without(byToken, SessionOf(d)), lastToken',
                       [device |-> d, createdAt |-> now, lastUsed |-> now])
    /\ byDevice' = With(byDevice, d, lastToken')

\* verify finds a live session: it counts as used.
UseSession(t) ==
    /\ byToken' = [byToken EXCEPT ![t].lastUsed = now]
    /\ UNCHANGED <<byDevice, lastToken>>

Live(t) == t \in DOMAIN byToken /\ ~SessionExpired(t)

\* A new process: sessions are in memory only.
ForgetSessions == byToken' = EmptyMap /\ byDevice' = EmptyMap /\ UNCHANGED lastToken
=================================================================================
