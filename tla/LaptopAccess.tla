------------------------------ MODULE LaptopAccess ------------------------------
(*********************************************************************************)
(* Who may talk to the laptop: pairing, paired phones, sessions and the event    *)
(* streams sessions open, wired together as index.js and deviceApi.js wire them. *)
(*                                                                               *)
(* A stream is named by the token it was opened with (the code keeps no such     *)
(* link: closing a phone's streams when its session ends is what should make it  *)
(* hold).  Items, their texts and files are the subject of other modules.        *)
(*********************************************************************************)
EXTENDS Pairing, Sessions

CONSTANTS MaxStreams,         \* MAX_STREAMS_PER_DEVICE
          MaxAuthFailures,    \* limits.maxFailedAuthPerMinutePerIp
          AuthLimiterWindow   \* the limiter's minute

ASSUME AccessAssumption == /\ MaxStreams \in Nat \ {0}
                           /\ MaxAuthFailures \in Nat \ {0}
                           /\ AuthLimiterWindow \in Nat \ {0}

VARIABLES streams,     \* open event streams of each phone, oldest first
          authHits     \* the authentication limiter's hits, per address

VARIABLES known,       \* history: the secrets a status answer has given each phone
          openedWith   \* history: the secret each session was opened with

historyVars == <<known, openedWith>>

vars == <<now, devices, devicesFile, requests, lastRequest, pairHits, byToken, byDevice,
          lastToken, streams, authHits, known, openedWith>>

AuthLimiter == [max |-> MaxAuthFailures, window |-> AuthLimiterWindow]

Init == /\ PairingInit
        /\ SessionsInit
        /\ streams = [d \in Device |-> <<>>]
        /\ authHits = [ip \in Ip |-> <<>>]
        /\ known = [d \in Device |-> {}]
        /\ openedWith = EmptyMap

---------------------------------------------------------------------------------

\* sessions.on('end'): every stream of the session's phone is closed.
CloseStreams(ds) == streams' = [d \in Device |-> IF d \in ds THEN <<>> ELSE streams[d]]

DevicesOf(tokens) == {byToken[t].device : t \in tokens}

\* Mutant: nobody listens to the end of sessions.
End_KeepsStreams(tokens) == EndSessions(tokens) /\ UNCHANGED streams

\* Ending sessions, with the listener above.
End(tokens) == EndSessions(tokens) /\ CloseStreams(DevicesOf(tokens))

---------------------------------------------------------------------------------
(* The requests of a phone (deviceApi.js).                                       *)

NotBlocked(ip) == ~Blocked(AuthLimiter, authHits[ip], now)

RecordFailure(ip) == authHits' = [authHits EXCEPT ![ip] = Record(AuthLimiter, @, now)]

\* requireSession accepts the token.
Accepted(t, ip) == NotBlocked(ip) /\ Live(t)

\* requireSession of any handler refuses the token: SESSION_EXPIRED.  A session found
\* expired ends here.
RefuseToken(t, ip) ==
    /\ NotBlocked(ip)
    /\ ~Live(t)
    /\ RecordFailure(ip)
    /\ End({t} \cap DOMAIN byToken)
    /\ UNCHANGED <<now, deviceVars, pairingVars, historyVars>>

PairRequest(d, nonce, ip) ==
    /\ Request(d, nonce, ip)
    /\ UNCHANGED <<now, deviceVars, sessionVars, streams, authHits, historyVars>>

PairReveal(r, np) ==
    /\ Reveal(r, np) \/ DropExpired(r)
    /\ UNCHANGED <<now, deviceVars, sessionVars, streams, authHits, historyVars>>

\* The phone gets its secret (or not: an answer that is lost changes nothing here).
PairStatus(r, d, np) ==
    /\ \/ Releases(r, d, np) /\ known' = [known EXCEPT ![d] = @ \cup {r}] /\ UNCHANGED pairingVars
       \/ StatusDrops(r, d, np) /\ UNCHANGED known
    /\ UNCHANGED <<now, deviceVars, sessionVars, streams, authHits, openedWith>>

\* Mutant: any secret the laptop once gave out is accepted.
Connect_AnySecret(d, secret, ip) ==
    /\ NotBlocked(ip)
    /\ Has(d)
    /\ CreateSession(d)
    /\ CloseStreams(DevicesOf(SessionOf(d)))
    /\ openedWith' = With(openedWith, lastToken', secret)
    /\ UNCHANGED <<now, deviceVars, pairingVars, authHits, known>>

\* connect, with the right secret: one session per phone, the old one is 'replaced'.
Connect(d, secret, ip) ==
    /\ NotBlocked(ip)
    /\ Has(d) /\ devices[d] = secret
    /\ CreateSession(d)
    /\ CloseStreams(DevicesOf(SessionOf(d)))
    /\ openedWith' = With(openedWith, lastToken', secret)
    /\ UNCHANGED <<now, deviceVars, pairingVars, authHits, known>>

\* connect with a secret that is not the phone's any more: UNAUTHORIZED, or
\* DEVICE_NOT_PAIRED.
RefuseSecret(d, secret, ip) ==
    /\ NotBlocked(ip)
    /\ ~(Has(d) /\ devices[d] = secret)
    /\ RecordFailure(ip)
    /\ UNCHANGED <<now, deviceVars, pairingVars, sessionVars, streams, historyVars>>

Disconnect(t, ip) ==
    /\ Accepted(t, ip)
    /\ End({t})
    /\ UNCHANGED <<now, deviceVars, pairingVars, authHits, historyVars>>

\* forgetSelf: a devices.json that cannot be written leaves the session open (but used).
ForgetSelf(t, ip) ==
    /\ Accepted(t, ip)
    /\ \E saved \in BOOLEAN :
          /\ RemoveDevice(byToken[t].device, saved)
          /\ IF saved THEN End(SessionOf(byToken[t].device))
                      ELSE UseSession(t) /\ UNCHANGED streams
    /\ UNCHANGED <<now, pairingVars, authHits, historyVars>>

\* openEvents: the oldest streams make room for the new one.
OpenEvents(t, ip) ==
    /\ Accepted(t, ip)
    /\ UseSession(t)
    /\ LET d == byToken[t].device
           kept == IF Len(streams[d]) < MaxStreams THEN streams[d]
                   ELSE SubSeq(streams[d], Len(streams[d]) - MaxStreams + 2, Len(streams[d]))
       IN  streams' = [streams EXCEPT ![d] = Append(kept, t)]
    /\ UNCHANGED <<now, deviceVars, pairingVars, authHits, historyVars>>

\* Every other call of a session (lists, sends, downloads, deletions) uses it.
CallWithSession(t, ip) ==
    /\ Accepted(t, ip)
    /\ UseSession(t)
    /\ UNCHANGED <<now, deviceVars, pairingVars, streams, authHits, historyVars>>

\* The connection under a stream closes (the phone left, or the network did).
StreamLost(d, i) ==
    /\ i \in 1..Len(streams[d])
    /\ streams' = [streams EXCEPT ![d] = SubSeq(@, 1, i - 1) \o SubSeq(@, i + 1, Len(@))]
    /\ UNCHANGED <<now, deviceVars, pairingVars, sessionVars, authHits, historyVars>>

---------------------------------------------------------------------------------
(* The user of the laptop (adminApi.js), timers and the process.                 *)

\* Mutant: pairing again leaves the phone's old session alone.
ApprovePairing_KeepsSession(r) ==
    /\ \E saved \in BOOLEAN : Approve(r, saved)
    /\ UNCHANGED <<now, sessionVars, streams, authHits, historyVars>>

\* approve; when it replaces a secret, the phone's old session ends ('device-replaced').
ApprovePairing(r) ==
    /\ \E saved \in BOOLEAN :
          /\ Approve(r, saved)
          /\ LET d == requests[r].device
             IN  IF saved /\ Has(d) THEN End(SessionOf(d))
                                    ELSE UNCHANGED <<sessionVars, streams>>
    /\ UNCHANGED <<now, authHits, historyVars>>

DenyPairing(r) ==
    /\ Deny(r) \/ DropExpired(r)
    /\ UNCHANGED <<now, deviceVars, sessionVars, streams, authHits, historyVars>>

\* revoke: also for a phone that is not paired any more; when the store throws, the
\* session is not reached.
Revoke(d) ==
    /\ \E saved \in BOOLEAN :
          /\ RemoveDevice(d, saved)
          /\ IF saved THEN End(SessionOf(d)) ELSE UNCHANGED <<sessionVars, streams>>
    /\ UNCHANGED <<now, pairingVars, authHits, historyVars>>

\* GET /admin/state: lists the pending requests and, asking which paired phones are
\* connected, ends the sessions it finds expired.
ReadState ==
    /\ Sweep
    /\ End({byDevice[d] : d \in {e \in DOMAIN devices \cap DOMAIN byDevice :
                                    SessionExpired(byDevice[e])}})
    /\ UNCHANGED <<now, deviceVars, authHits, historyVars>>

SweepTimer == /\ Sweep
              /\ UNCHANGED <<now, deviceVars, sessionVars, streams, authHits, historyVars>>

\* The process ends, by a crash or a stop, and another one starts.
Restart ==
    /\ LoadDevices /\ ForgetRequests /\ ForgetSessions
    /\ streams' = [d \in Device |-> <<>>]
    /\ authHits' = [ip \in Ip |-> <<>>]
    /\ UNCHANGED <<now, historyVars>>

TimePasses ==
    /\ Tick
    /\ UNCHANGED <<deviceVars, pairingVars, sessionVars, streams, authHits, historyVars>>

---------------------------------------------------------------------------------
PairingCall == \/ \E d \in Device, n \in Nonce, ip \in Ip : PairRequest(d, n, ip)
               \/ \E r \in DOMAIN requests, n \in Nonce :
                     PairReveal(r, n) \/ \E d \in Device : PairStatus(r, d, n)

\* A phone connects with any secret it was ever given, and calls with any token.
SessionCall == \E ip \in Ip :
    \/ \E d \in Device : \E s \in known[d] : Connect(d, s, ip) \/ RefuseSecret(d, s, ip)
    \/ \E t \in Token : \/ RefuseToken(t, ip) \/ Disconnect(t, ip) \/ ForgetSelf(t, ip)
                        \/ OpenEvents(t, ip) \/ CallWithSession(t, ip)

UserAction == \/ \E r \in DOMAIN requests : ApprovePairing(r) \/ DenyPairing(r)
              \/ \E d \in Device : Revoke(d)
              \/ ReadState

Environment == \/ \E d \in Device : \E i \in 1..MaxStreams : StreamLost(d, i)
               \/ SweepTimer \/ Restart \/ TimePasses

Next == PairingCall \/ SessionCall \/ UserAction \/ Environment

Spec == Init /\ [][Next]_vars

\* Time passes and timers fire; no phone has to call and no user has to act.
FairSpec == Spec /\ WF_vars(TimePasses) /\ WF_vars(SweepTimer)

---------------------------------------------------------------------------------
\* Type correctness of the whole access state.
TypeOK ==
    /\ PairingTypeOK /\ SessionsTypeOK
    /\ streams \in [Device -> Seq(1..lastToken)]
    /\ authHits \in [Ip -> Seq(Nat)]
    /\ known \in [Device -> SUBSET (1..lastRequest)]
    /\ IsMap(openedWith, 1..lastToken, 0..lastRequest)

\* Both indexes of the session store hold the same sessions: a phone has one session
\* at most, and no token works that ending the phone's session would miss.
OneSessionPerPhone ==
    /\ \A d \in DOMAIN byDevice : byDevice[d] \in DOMAIN byToken /\ byToken[byDevice[d]].device = d
    /\ \A t \in DOMAIN byToken : t \in SessionOf(byToken[t].device)

\* Every session belongs to a phone that is still paired, and was opened with the
\* secret that is current: revoking, forgetting and pairing again leave no session
\* behind, in whatever order they meet connects and restarts.
SessionsAreTrusted ==
    \A t \in DOMAIN byToken :
        LET d == byToken[t].device IN Has(d) /\ openedWith[t] = devices[d]

\* An open event stream belongs to the phone's present session, never to one that
\* was replaced or ended: no former session goes on hearing of items.
StreamsBelongToSession ==
    \A d \in Device : \A i \in 1..Len(streams[d]) : streams[d][i] \in SessionOf(d)

\* A phone has no more streams open than allowed, however often it reconnects.
StreamsWithinLimit == \A d \in Device : Len(streams[d]) <= MaxStreams

\* Types, and the streams of every phone: few enough, and all of its present session.
StreamsAgree == TypeOK /\ StreamsBelongToSession /\ StreamsWithinLimit

\* However busy it is kept, no session is used past its absolute lifetime.
SessionLifetime ==
    \A t \in DOMAIN byToken : byToken[t].lastUsed < byToken[t].createdAt + SessionMax

\* Trust that was withdrawn never returns: a secret that becomes current, by an
\* approval or by a restart, is one nobody has been given yet.
TrustIsFresh ==
    [][\A d \in DOMAIN devices' :
          \/ d \in DOMAIN devices /\ devices[d] = devices'[d]
          \/ \A e \in Device : devices'[d] \notin known[e]]_vars

\* The phones inside, by the grant they came in under.
Inside == [d \in DOMAIN byDevice |-> openedWith[byDevice[d]]]

\* The laptop implements its access policy (when devices.json can be written).
P == INSTANCE AccessPolicy WITH Grant <- 1..MaxRequests, granted <- devices, inside <- Inside
PolicyHolds == P!Policy

\* What security.md:22 and protocol.md:150 promise of a revoke: a phone that is not
\* paired has no session.  (Broken when devices.json cannot be written.)
RevokedHasNoSession == \A d \in DOMAIN byDevice : Has(d)

\* What protocol.md:66 and :100 promise of expiry: the stream of a session that has
\* expired does not stay open.  (Broken: expiry is noticed only when the token is
\* used or the admin UI reads the state.)
ExpiredStreamsClose ==
    \A d \in Device :
        (\E i \in 1..Len(streams[d]) : streams[d][i] \in DOMAIN byToken /\ SessionExpired(streams[d][i]))
            ~> streams[d] = <<>>
=================================================================================
