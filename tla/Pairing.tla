-------------------------------- MODULE Pairing --------------------------------
(*********************************************************************************)
(* PairingManager of pairing.js, with the DeviceStore it adds approved phones    *)
(* to.  A phone commits to a nonce, reveals it, and the user approves or denies  *)
(* on the laptop; the phone fetches the result by proving it knows the nonce.    *)
(*                                                                               *)
(* A commitment is modelled by the nonce it commits to and a proof by the nonce  *)
(* it is computed from: both are SHA-256 of it.  A record's np is null while its *)
(* state is awaiting_reveal and equals its commitment's nonce afterwards.        *)
(*********************************************************************************)
EXTENDS Devices

CONSTANTS Nonce,             \* np values a caller may choose
          MaxRequests,       \* bound on request ids drawn (of the model)
          MaxPending,        \* limits.maxPendingPairings
          RevealWindow,      \* limits.pairRevealWindowMs
          PairExpiry,        \* limits.pairExpiryMs
          SecretWindow,      \* limits.pairSecretWindowMs
          MaxPairRequests,   \* limits.maxPairRequestsPerMinutePerIp
          PairLimiterWindow  \* the limiter's minute

ASSUME PairingAssumption ==
    /\ MaxRequests \in Nat /\ MaxPending \in Nat \ {0} /\ MaxPairRequests \in Nat \ {0}
    /\ RevealWindow \in Nat \ {0} /\ PairExpiry \in Nat /\ SecretWindow \in Nat \ {0}
    /\ PairLimiterWindow \in Nat \ {0}
    /\ RevealWindow <= PairExpiry

VARIABLES requests,   \* Map: request id -> record
          lastRequest,\* ids 1..lastRequest have been drawn; a random id never repeats
          pairHits    \* the pairing limiter's hits, per address

pairingVars == <<requests, lastRequest, pairHits>>

PairLimiter == [max |-> MaxPairRequests, window |-> PairLimiterWindow]

PairingRecord == [device : Device, commit : Nonce,
                  state : {"awaiting_reveal", "pending", "approved", "denied"},
                  createdAt : Nat, expiresAt : Nat]

PairingInit == /\ now = 0
               /\ devices = EmptyMap /\ devicesFile = EmptyMap
               /\ requests = EmptyMap
               /\ lastRequest = 0
               /\ pairHits = [ip \in Ip |-> <<>>]

PairingTypeOK == /\ now \in Nat /\ lastRequest \in Nat
                 /\ IsMap(requests, 1..lastRequest, PairingRecord)
                 /\ IsMap(devices, Device, 0..lastRequest)
                 /\ IsMap(devicesFile, Device, 0..lastRequest)
                 /\ pairHits \in [Ip -> Seq(Nat)]

---------------------------------------------------------------------------------
Expired(r) == now >= requests[r].expiresAt

Open(r) == requests[r].state \in {"awaiting_reveal", "pending"}

Delete(rs) == requests' = Without(requests, rs)

\* Mutant: only open requests are swept.
Swept_OpenOnly == {r \in DOMAIN requests : Expired(r) /\ Open(r)}

\* sweep: run by the 10 s timer, by every admitted request and by listPending.
Swept == {r \in DOMAIN requests : Expired(r)}

\* Mutant: a new request of a phone does not replace its open one.
Kept_Both(d) == DOMAIN requests \ Swept

\* The records a new request of d leaves: expired ones are swept, and d's own open
\* one is replaced.
Kept(d) == {r \in DOMAIN requests \ Swept : ~(requests[r].device = d /\ Open(r))}

\* A request is admitted when, after that, there is room for it and for its phone.
HasRoom(d) == /\ Cardinality({r \in Kept(d) : Open(r)}) < MaxPending
              /\ CanAdd(d)

---------------------------------------------------------------------------------
(* Called by phones.                                                             *)

\* request.  PAIR_LIMIT is answered after the attempt was counted and the old
\* records dropped; RATE_LIMITED before anything else.
Request(d, nonce, ip) ==
    /\ ~Blocked(PairLimiter, pairHits[ip], now)
    /\ pairHits' = [pairHits EXCEPT ![ip] = Record(PairLimiter, @, now)]
    /\ IF HasRoom(d)
       THEN /\ lastRequest < MaxRequests
            /\ lastRequest' = lastRequest + 1
            /\ requests' = With(Restrict(requests, Kept(d)), lastRequest',
                   [device |-> d, commit |-> nonce, state |-> "awaiting_reveal",
                    createdAt |-> now, expiresAt |-> now + RevealWindow])
       ELSE /\ requests' = Restrict(requests, Kept(d))
            /\ UNCHANGED lastRequest

\* _get finds the record expired: it is gone, and the caller told PAIR_EXPIRED.
DropExpired(r) ==
    /\ r \in DOMAIN requests
    /\ Expired(r)
    /\ Delete({r})
    /\ UNCHANGED <<lastRequest, pairHits>>

\* Mutant: revealing restarts the request's lifetime.
Reveal_Restarts(r, np) ==
    /\ r \in DOMAIN requests
    /\ ~Expired(r)
    /\ requests[r].state = "awaiting_reveal"
    /\ IF np = requests[r].commit
       THEN requests' = [requests EXCEPT ![r].state = "pending", ![r].expiresAt = now + PairExpiry]
       ELSE Delete({r})
    /\ UNCHANGED <<lastRequest, pairHits>>

\* reveal: a nonce that is not the committed one (COMMIT_MISMATCH) ends the request.
Reveal(r, np) ==
    /\ r \in DOMAIN requests
    /\ ~Expired(r)
    /\ requests[r].state = "awaiting_reveal"
    /\ IF np = requests[r].commit
       THEN requests' = [requests EXCEPT ![r].state = "pending",
                             ![r].expiresAt = requests[r].createdAt + PairExpiry]
       ELSE Delete({r})
    /\ UNCHANGED <<lastRequest, pairHits>>

\* status answers only a caller who names the record's phone and proves its nonce.
MayAsk(r, d, np) == /\ r \in DOMAIN requests
                    /\ requests[r].state # "awaiting_reveal"
                    /\ requests[r].device = d
                    /\ requests[r].commit = np

\* ... it hands the secret of an approved request out as often as it is asked ...
Releases(r, d, np) == MayAsk(r, d, np) /\ ~Expired(r) /\ requests[r].state = "approved"

\* Mutant: the secret can be fetched once only.
StatusDrops_OneShot(r, d, np) ==
    /\ MayAsk(r, d, np)
    /\ Expired(r) \/ requests[r].state \in {"denied", "approved"}
    /\ Delete({r})
    /\ UNCHANGED <<lastRequest, pairHits>>

\* ... and forgets a request that expired, or whose denial it reports.
StatusDrops(r, d, np) ==
    /\ MayAsk(r, d, np)
    /\ Expired(r) \/ requests[r].state = "denied"
    /\ Delete({r})
    /\ UNCHANGED <<lastRequest, pairHits>>

---------------------------------------------------------------------------------
(* Called by the laptop's user and by timers.                                    *)

\* The 10 s timer, and listPending when the admin UI reads the state.
Sweep == /\ Delete(Swept)
         /\ UNCHANGED <<lastRequest, pairHits>>

\* Mutant: a request can be decided before its nonce is revealed.
IsPending_Unrevealed(r) == r \in DOMAIN requests /\ ~Expired(r) /\ Open(r)

IsPending(r) == /\ r \in DOMAIN requests
                /\ ~Expired(r)
                /\ requests[r].state = "pending"

\* approve: the phone is stored before the record is marked.  When the store throws
\* (no room, or the file cannot be written) the record stays pending and the new
\* secret, which may be the one in memory now, is lost.
Approve(r, saved) ==
    /\ IsPending(r)
    /\ Add(requests[r].device, IF saved THEN r ELSE LostSecret, saved)
    /\ requests' = IF saved
                   THEN [requests EXCEPT ![r].state = "approved",
                                         ![r].expiresAt = now + SecretWindow]
                   ELSE requests
    /\ UNCHANGED <<lastRequest, pairHits>>

Deny(r) ==
    /\ IsPending(r)
    /\ requests' = [requests EXCEPT ![r].state = "denied"]
    /\ UNCHANGED <<lastRequest, pairHits>>

\* A new process: pairing state is in memory only.
ForgetRequests == /\ requests' = EmptyMap
                  /\ pairHits' = [ip \in Ip |-> <<>>]
                  /\ UNCHANGED lastRequest
=================================================================================
