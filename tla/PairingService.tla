----------------------------- MODULE PairingService -----------------------------
(*********************************************************************************)
(* The pairing side of the laptop on its own: requests, the user's decisions,    *)
(* the paired phones and the file that keeps them across restarts.               *)
(*********************************************************************************)
EXTENDS Pairing

serviceVars == <<now, devices, devicesFile, requests, lastRequest, pairHits>>

PhoneCalls ==
    /\ UNCHANGED <<now, deviceVars>>
    /\ \/ \E d \in Device, n \in Nonce, ip \in Ip : Request(d, n, ip)
       \/ \E r \in DOMAIN requests :
             \/ DropExpired(r)
             \/ \E n \in Nonce : Reveal(r, n)
             \/ \E d \in Device, n \in Nonce : StatusDrops(r, d, n)

UserDecides ==
    /\ UNCHANGED now
    /\ \E r \in DOMAIN requests : \/ \E saved \in BOOLEAN : Approve(r, saved)
                                  \/ Deny(r) /\ UNCHANGED deviceVars

RemovePhone == /\ \E d \in DOMAIN devices, saved \in BOOLEAN : RemoveDevice(d, saved)
               /\ UNCHANGED <<now, pairingVars>>

ServiceSweeps == Sweep /\ UNCHANGED <<now, deviceVars>>

ServiceRestarts == LoadDevices /\ ForgetRequests /\ UNCHANGED now

ServiceWaits == Tick /\ UNCHANGED <<deviceVars, pairingVars>>

ServiceNext == PhoneCalls \/ UserDecides \/ RemovePhone \/ ServiceSweeps \/ ServiceRestarts \/ ServiceWaits

ServiceSpec == PairingInit /\ [][ServiceNext]_serviceVars

---------------------------------------------------------------------------------
\* Whatever order requests, reveals, decisions and expiries come in, at most
\* MaxPending requests are open, and never two of the same phone (pairing.js:86-90).
RequestsWithinLimits ==
    LET open == {r \in DOMAIN requests : Open(r)}
    IN  /\ Cardinality(open) <= MaxPending
        /\ \A r, s \in open : requests[r].device = requests[s].device => r = s

\* Requests of several new phones may be admitted while there is room for one: the
\* limit holds because it is checked again when each is approved (devices.js:53).
DevicesWithinLimit == Cardinality(DOMAIN devices) <= MaxDevices

\* Types, and the limits of open requests and of paired phones together.
WithinLimits == PairingTypeOK /\ RequestsWithinLimits /\ DevicesWithinLimit

\* The state of request r, "none" when there is no such record.
StateOf(r) == IF r \in DOMAIN requests THEN requests[r].state ELSE "none"

Becomes(r, state) == StateOf(r) # state /\ StateOf(r)' = state

\* A request is revealed within the reveal window and decided within the lifetime
\* that began when it was made, however often deadlines were moved in between.
MovesInTime ==
    [][\A r \in DOMAIN requests :
          LET age == now - requests[r].createdAt
          IN  /\ Becomes(r, "pending") => age < RevealWindow
              /\ (Becomes(r, "approved") \/ Becomes(r, "denied")) => age < PairExpiry]_serviceVars

\* A lost approval response never forces the phone to pair again: until its window
\* ends, an approved request goes only with the whole process (decisions.md:38).
AnswerSurvives ==
    [][\A r \in DOMAIN requests :
          requests[r].state = "approved" /\ ~Expired(r) /\ StateOf(r)' # "approved"
              => requests' = EmptyMap /\ devices' = devicesFile]_serviceVars

\* A running laptop starts to trust a phone, or a new secret of one, only when the
\* user decides on a pending request of that very phone; a restart trusts nobody
\* whom the file does not list.
PairedOnlyByUser ==
    [][\A d \in DOMAIN devices' :
          \/ d \in DOMAIN devices /\ devices[d] = devices'[d]
          \/ d \in DOMAIN devicesFile /\ devices'[d] = devicesFile[d]
          \/ \E r \in DOMAIN requests :
                /\ requests[r].device = d /\ requests[r].state = "pending" /\ ~Expired(r)
                /\ devices'[d] \in {r, LostSecret}]_serviceVars

\* Every record, whatever becomes of it, is forgotten: nothing stays open or keeps a
\* secret in memory for good.  (Records whose last deadline the clock can reach.)
EventuallyForgotten ==
    \A r \in 1..MaxRequests :
        (r \in DOMAIN requests /\ requests[r].createdAt + PairExpiry + SecretWindow <= MaxTime)
            ~> r \notin DOMAIN requests
=================================================================================
