----------------------------- MODULE PairingTheorems -----------------------------
(*********************************************************************************)
(* Proofs about PairingService, for any number of phones and requests, with the  *)
(* lemmas about the limiters, PairingManager and DeviceStore that they and the   *)
(* proofs about LaptopAccess and PhonePairing rest on.                           *)
(*********************************************************************************)
EXTENDS PairingService, MapTheorems, FiniteSetTheorems, SequenceTheorems, TLAPS

---------------------------------------------------------------------------------
(* The limiters.                                                                 *)

\* Recording a hit keeps a list of times one, whatever is dropped from its front.
LEMMA HitsType ==
  ASSUME NEW limiter, NEW list \in Seq(Nat), NEW t \in Nat
  PROVE  Record(limiter, list, t) \in Seq(Nat)
<1> DEFINE dropped == {i \in 1..Len(list) : \A j \in 1..i : list[j] <= t - limiter.window}
           m == Cardinality(dropped) + 1
<1>1. Len(list) \in Nat
  BY LenProperties
<1>2. IsFiniteSet(1..Len(list)) /\ dropped \in SUBSET (1..Len(list))
  BY <1>1, FS_Interval
<1>3. Cardinality(dropped) \in Nat
  <2> HIDE DEF dropped
  <2> QED BY <1>2, FS_Subset, FS_CardinalityType
<1>4. Record(limiter, list, t) = Append(SubSeq(list, m, Len(list)), t)
  BY DEF Record, Prune
<1>5. m \in Nat \ {0}
  BY <1>3
<1> HIDE DEF m
<1>6. \A i \in m..Len(list) : list[i] \in Nat
  BY <1>1, <1>5, ElementOfSeq
<1>7. SubSeq(list, m, Len(list)) \in Seq(Nat)
  BY <1>1, <1>5, <1>6, SubSeqProperties
<1> QED BY <1>4, <1>7, AppendProperties

---------------------------------------------------------------------------------
(* Pairing keeps its types.                                                      *)

\* A request that is in the Map keeps being a record when its state and deadline change.
LEMMA ChangedRecord ==
  ASSUME PairingTypeOK, NEW r \in DOMAIN requests, NEW deadline \in Nat,
         NEW state \in {"awaiting_reveal", "pending", "approved", "denied"}
  PROVE  IsMap([requests EXCEPT ![r].state = state, ![r].expiresAt = deadline],
               1..lastRequest, PairingRecord)
BY DEF PairingTypeOK, IsMap, PairingRecord

\* A pairing request (PairingManager.request), admitted or refused, keeps the pairing types;
\* ids only grow.
LEMMA RequestType ==
  ASSUME PairingTypeOK, NEW d \in Device, NEW n \in Nonce, NEW ip \in Ip,
         Request(d, n, ip), UNCHANGED <<now, deviceVars>>
  PROVE  PairingTypeOK' /\ lastRequest <= lastRequest'
<1> USE DEF PairingTypeOK, deviceVars
<1>1. pairHits' \in [Ip -> Seq(Nat)]
  BY HitsType DEF Request
<1>2. Kept(d) \in SUBSET DOMAIN requests
  BY DEF Kept
<1>3. IsMap(Restrict(requests, Kept(d)), 1..lastRequest, PairingRecord)
  BY <1>2, RestrictProperties
<1>4. CASE HasRoom(d)
  <2> DEFINE new == [device |-> d, commit |-> n, state |-> "awaiting_reveal",
                     createdAt |-> now, expiresAt |-> now + RevealWindow]
  <2>1. lastRequest' = lastRequest + 1 /\ requests' = With(Restrict(requests, Kept(d)), lastRequest', new)
    BY <1>4 DEF Request
  <2>2. new \in PairingRecord
    BY PairingAssumption DEF PairingRecord
  <2>3. IsMap(Restrict(requests, Kept(d)), 1..lastRequest', PairingRecord)
    BY <1>3, <2>1, IsMapMonotonic
  <2>4. lastRequest' \in 1..lastRequest'
    BY <2>1
  <2> HIDE DEF new
  <2>5. IsMap(requests', 1..lastRequest', PairingRecord)
    BY <2>1, <2>2, <2>3, <2>4, WithProperties
  <2>6. 0..lastRequest \subseteq 0..lastRequest'
    BY <2>1
  <2> QED BY <1>1, <2>1, <2>5, <2>6, IsMapMonotonic
<1>5. CASE ~HasRoom(d)
  BY <1>1, <1>3, <1>5 DEF Request
<1> QED BY <1>4, <1>5

\* Every step that deletes records, and may change nothing else of the requests.
LEMMA DeleteType ==
  ASSUME PairingTypeOK, NEW rs, Delete(rs), UNCHANGED <<now, deviceVars, lastRequest, pairHits>>
  PROVE  PairingTypeOK'
BY WithoutProperties DEF PairingTypeOK, deviceVars, Delete

\* reveal keeps the pairing types, whether or not the nonce matches.
LEMMA RevealType ==
  ASSUME PairingTypeOK, NEW r, NEW np, Reveal(r, np), UNCHANGED <<now, deviceVars>>
  PROVE  PairingTypeOK'
<1>1. CASE np = requests[r].commit
  <2>1. requests[r].createdAt + PairExpiry \in Nat
    BY PairingAssumption DEF PairingTypeOK, IsMap, PairingRecord, Reveal
  <2> QED BY <1>1, <2>1, ChangedRecord DEF Reveal, PairingTypeOK, deviceVars
<1>2. CASE np # requests[r].commit
  BY <1>2, DeleteType DEF Reveal
<1> QED BY <1>1, <1>2

\* deny keeps the pairing types.
LEMMA DenyType ==
  ASSUME PairingTypeOK, NEW r, Deny(r), UNCHANGED <<now, deviceVars>>
  PROVE  PairingTypeOK'
BY DEF Deny, IsPending, PairingTypeOK, deviceVars, IsMap, PairingRecord

\* DeviceStore.add keeps the types of the store, written or not.
LEMMA AddType ==
  ASSUME PairingTypeOK, NEW d \in Device, NEW s \in 0..lastRequest, NEW saved,
         Add(d, s, saved), UNCHANGED lastRequest
  PROVE  /\ IsMap(devices', Device, 0..lastRequest')
         /\ IsMap(devicesFile', Device, 0..lastRequest')
BY WithProperties DEF Add, Save, PairingTypeOK

\* approve keeps the pairing types, also when the store throws.
LEMMA ApproveType ==
  ASSUME PairingTypeOK, NEW r, NEW saved, Approve(r, saved), UNCHANGED now
  PROVE  PairingTypeOK'
<1>1. r \in DOMAIN requests /\ r \in 1..lastRequest /\ requests[r].device \in Device
  BY DEF Approve, IsPending, PairingTypeOK, IsMap, PairingRecord
<1>2. (IF saved THEN r ELSE LostSecret) \in 0..lastRequest
  BY <1>1 DEF LostSecret, PairingTypeOK
<1>3. /\ IsMap(devices', Device, 0..lastRequest')
      /\ IsMap(devicesFile', Device, 0..lastRequest')
  BY <1>1, <1>2, AddType DEF Approve
<1>4. now + SecretWindow \in Nat
  BY PairingAssumption DEF PairingTypeOK
<1>5. IsMap(requests', 1..lastRequest', PairingRecord)
  BY <1>1, <1>4, ChangedRecord DEF Approve, PairingTypeOK
<1> QED BY <1>3, <1>5 DEF Approve, PairingTypeOK

\* DeviceStore.remove keeps the types of the store.
LEMMA RemoveType ==
  ASSUME PairingTypeOK, NEW d, NEW saved, RemoveDevice(d, saved), UNCHANGED <<now, pairingVars>>
  PROVE  PairingTypeOK'
<1>1. CASE Has(d)
  <2>1. IsMap(devices', Device, 0..lastRequest)
    <3>1. devices' = Without(devices, {d})
      BY <1>1 DEF RemoveDevice
    <3>2. IsMap(Without(devices, {d}), Device, 0..lastRequest)
      BY WithoutProperties DEF PairingTypeOK
    <3> QED BY <3>1, <3>2
  <2> QED BY <1>1, <2>1 DEF RemoveDevice, Save, PairingTypeOK, pairingVars
<1>2. CASE ~Has(d)
  BY <1>2 DEF RemoveDevice, PairingTypeOK, pairingVars, deviceVars
<1> QED BY <1>1, <1>2

\* A new process has pairing state of the right types: it loads what was saved.
LEMMA RestartType ==
  ASSUME PairingTypeOK, LoadDevices, ForgetRequests, UNCHANGED now
  PROVE  PairingTypeOK'
<1>1. [ip \in Ip |-> <<>>] \in [Ip -> Seq(Nat)]
  BY EmptySeq
<1> QED BY <1>1, EmptyMapIsMap DEF LoadDevices, ForgetRequests, PairingTypeOK

---------------------------------------------------------------------------------
(* The life of a request: what one step may do to it.                            *)

Stays(r) == r \in DOMAIN requests' /\ requests'[r] = requests[r]

\* A request in its window for the secret does not go.
Goes(r) == /\ r \notin DOMAIN requests'
           /\ Expired(r) \/ requests[r].state # "approved"

Moves(r, from, to) == /\ ~Expired(r) /\ requests[r].state = from
                      /\ r \in DOMAIN requests' /\ requests'[r].state = to
                      /\ requests'[r].device = requests[r].device
                      /\ requests'[r].commit = requests[r].commit
                      /\ requests'[r].createdAt = requests[r].createdAt
                      /\ to = "pending" => requests'[r].expiresAt = requests[r].createdAt + PairExpiry
                      /\ to = "approved" => requests'[r].expiresAt = now + SecretWindow
                      /\ to = "denied" => requests'[r].expiresAt = requests[r].expiresAt

\* ... as long as the process lives.
RequestLives(r) == \/ Stays(r) \/ Goes(r)
                   \/ Moves(r, "awaiting_reveal", "pending")
                   \/ Moves(r, "pending", "approved") \/ Moves(r, "pending", "denied")

\* A new request has an id that was never drawn before.
Begins(r) == /\ r \notin 1..lastRequest
             /\ requests'[r].state = "awaiting_reveal"
             /\ requests'[r].expiresAt = requests'[r].createdAt + RevealWindow

\* Deleting records that expired, or are not approved, leaves the others as they are.
LEMMA DeletedLives ==
  ASSUME PairingTypeOK, NEW rs, Delete(rs),
         \A r \in rs \cap DOMAIN requests : Expired(r) \/ requests[r].state # "approved"
  PROVE  /\ DOMAIN requests' \subseteq DOMAIN requests
         /\ \A r \in DOMAIN requests : RequestLives(r)
<1>1. IsMap(requests, 1..lastRequest, PairingRecord) /\ requests' = Without(requests, rs)
  BY DEF PairingTypeOK, Delete
<1>2. /\ DOMAIN Without(requests, rs) = DOMAIN requests \ rs
      /\ \A r \in DOMAIN requests \ rs : Without(requests, rs)[r] = requests[r]
  BY <1>1, WithoutProperties
<1> QED BY <1>1, <1>2 DEF RequestLives, Stays, Goes

\* request keeps what is neither expired nor an open request of the same phone, and
\* begins a new record when there is room.
LEMMA RequestedLives ==
  ASSUME PairingTypeOK, NEW d \in Device, NEW n \in Nonce, NEW ip \in Ip, Request(d, n, ip)
  PROVE  /\ \A r \in DOMAIN requests : RequestLives(r)
         /\ \A r \in DOMAIN requests' \ DOMAIN requests : Begins(r)
<1> DEFINE new == [device |-> d, commit |-> n, state |-> "awaiting_reveal",
                   createdAt |-> now, expiresAt |-> now + RevealWindow]
           kept == Restrict(requests, Kept(d))
<1>1. Kept(d) \in SUBSET DOMAIN requests /\ IsMap(requests, 1..lastRequest, PairingRecord)
  BY DEF Kept, PairingTypeOK
<1>2. DOMAIN kept = Kept(d) /\ \A r \in Kept(d) : kept[r] = requests[r]
  BY <1>1, RestrictProperties
<1>3. \A r \in DOMAIN requests \ Kept(d) : Expired(r) \/ requests[r].state # "approved"
  BY DEF Kept, Swept, Open
<1>4. new.state = "awaiting_reveal" /\ new.expiresAt = new.createdAt + RevealWindow
  OBVIOUS
<1>5. CASE HasRoom(d)
  <2>1. lastRequest' = lastRequest + 1 /\ requests' = With(kept, lastRequest', new)
    BY <1>5 DEF Request
  <2>2. lastRequest' \notin DOMAIN requests
    BY <1>1, <2>1 DEF IsMap, PairingTypeOK
  <2> HIDE DEF new, kept
  <2>3. /\ DOMAIN requests' = Kept(d) \cup {lastRequest'}
        /\ requests'[lastRequest'] = new
        /\ \A r \in Kept(d) : r # lastRequest' => requests'[r] = requests[r]
    BY <1>2, <2>1 DEF With
  <2>4. \A r \in DOMAIN requests : Stays(r) \/ Goes(r)
    BY <1>1, <1>3, <2>2, <2>3 DEF Stays, Goes
  <2>5. \A r \in DOMAIN requests' \ DOMAIN requests : Begins(r)
    <3>1. lastRequest' \notin 1..lastRequest
      BY <2>1 DEF PairingTypeOK
    <3> QED BY <1>1, <1>4, <2>3, <3>1 DEF Begins
  <2> QED BY <2>4, <2>5 DEF RequestLives
<1>6. CASE ~HasRoom(d)
  <2>1. requests' = kept
    BY <1>6 DEF Request
  <2> HIDE DEF kept
  <2>2. \A r \in DOMAIN requests : Stays(r) \/ Goes(r)
    BY <1>1, <1>2, <1>3, <2>1 DEF Stays, Goes
  <2> QED BY <1>1, <1>2, <2>1, <2>2 DEF RequestLives
<1> QED BY <1>5, <1>6

\* reveal of a request that awaits it.
LEMMA RevealedLives ==
  ASSUME PairingTypeOK, NEW r \in DOMAIN requests, NEW np, Reveal(r, np)
  PROVE  /\ DOMAIN requests' \subseteq DOMAIN requests
         /\ \A s \in DOMAIN requests : RequestLives(s)
<1>1. CASE np = requests[r].commit
  <2>1. requests' = [requests EXCEPT ![r].state = "pending",
                                     ![r].expiresAt = requests[r].createdAt + PairExpiry]
        /\ requests[r] \in PairingRecord /\ ~Expired(r) /\ requests[r].state = "awaiting_reveal"
    BY <1>1 DEF Reveal, PairingTypeOK, IsMap
  <2>2. Moves(r, "awaiting_reveal", "pending")
    BY <2>1 DEF Moves, PairingRecord
  <2>3. \A s \in DOMAIN requests : s # r => Stays(s)
    BY <2>1 DEF Stays
  <2> QED BY <2>1, <2>2, <2>3 DEF RequestLives
<1>2. CASE np # requests[r].commit
  BY <1>2, DeletedLives DEF Reveal
<1> QED BY <1>1, <1>2

\* The user's decision about a pending request.
LEMMA DecidedLives ==
  ASSUME PairingTypeOK, NEW r \in DOMAIN requests,
         Deny(r) \/ \E saved \in BOOLEAN : Approve(r, saved)
  PROVE  /\ DOMAIN requests' \subseteq DOMAIN requests
         /\ \A s \in DOMAIN requests : RequestLives(s)
<1>1. requests[r] \in PairingRecord /\ ~Expired(r) /\ requests[r].state = "pending"
  BY DEF Deny, Approve, IsPending, PairingTypeOK, IsMap
<1>2. CASE Deny(r)
  <2>1. requests' = [requests EXCEPT ![r].state = "denied"]
    BY <1>2 DEF Deny
  <2>2. Moves(r, "pending", "denied")
    BY <1>1, <2>1 DEF Moves, PairingRecord
  <2>3. \A s \in DOMAIN requests : s # r => Stays(s)
    BY <2>1 DEF Stays
  <2> QED BY <2>1, <2>2, <2>3 DEF RequestLives
<1>3. ASSUME NEW saved \in BOOLEAN, Approve(r, saved)
      PROVE  /\ DOMAIN requests' \subseteq DOMAIN requests
             /\ \A s \in DOMAIN requests : RequestLives(s)
  <2>1. CASE saved
    <3>1. requests' = [requests EXCEPT ![r].state = "approved", ![r].expiresAt = now + SecretWindow]
      BY <1>3, <2>1 DEF Approve
    <3>2. Moves(r, "pending", "approved")
      BY <1>1, <3>1 DEF Moves, PairingRecord
    <3>3. \A s \in DOMAIN requests : s # r => Stays(s)
      BY <3>1 DEF Stays
    <3> QED BY <3>1, <3>2, <3>3 DEF RequestLives
  <2>2. CASE ~saved
    BY <1>3, <2>2 DEF Approve, RequestLives, Stays
  <2> QED BY <2>1, <2>2
<1> QED BY <1>2, <1>3

---------------------------------------------------------------------------------
(* The laptop.  Types.                                                           *)

\* The steps of phones, user, timer and process keep the pairing types.
LEMMA StepType ==
  ASSUME PairingTypeOK, [ServiceNext]_serviceVars
  PROVE  PairingTypeOK'
<1>1. CASE UNCHANGED serviceVars
  BY <1>1 DEF serviceVars, PairingTypeOK
<1>2. CASE PhoneCalls
  <2>1. UNCHANGED <<now, deviceVars>>
    BY <1>2 DEF PhoneCalls
  <2>2. ASSUME NEW d \in Device, NEW n \in Nonce, NEW ip \in Ip, Request(d, n, ip)
        PROVE  PairingTypeOK'
    BY <2>1, <2>2, RequestType
  <2>3. ASSUME NEW r \in DOMAIN requests, NEW n, Reveal(r, n)
        PROVE  PairingTypeOK'
    BY <2>1, <2>3, RevealType
  <2>4. ASSUME NEW r \in DOMAIN requests, DropExpired(r) \/ \E d \in Device, n \in Nonce : StatusDrops(r, d, n)
        PROVE  PairingTypeOK'
    BY <2>1, <2>4, DeleteType DEF DropExpired, StatusDrops
  <2> QED BY <1>2, <2>2, <2>3, <2>4 DEF PhoneCalls
<1>3. CASE UserDecides
  BY <1>3, ApproveType, DenyType DEF UserDecides
<1>4. CASE RemovePhone
  BY <1>4, RemoveType DEF RemovePhone
<1>5. CASE ServiceSweeps
  BY <1>5, DeleteType DEF ServiceSweeps, Sweep
<1>6. CASE ServiceRestarts
  BY <1>6, RestartType DEF ServiceRestarts
<1>7. CASE ServiceWaits
  BY <1>7 DEF ServiceWaits, Tick, deviceVars, pairingVars, PairingTypeOK
<1> QED BY <1>1, <1>2, <1>3, <1>4, <1>5, <1>6, <1>7 DEF ServiceNext

\* Types, for every value of the constants.
THEOREM PairingTypeCorrect == ServiceSpec => []PairingTypeOK
<1>1. PairingInit => PairingTypeOK
  BY EmptyMapIsMap, EmptySeq DEF PairingInit, PairingTypeOK
<1>2. PairingTypeOK /\ [ServiceNext]_serviceVars => PairingTypeOK'
  BY StepType
<1> QED BY <1>1, <1>2, PTL DEF ServiceSpec

---------------------------------------------------------------------------------
(* Deadlines and answers.                                                        *)

\* Until it is decided, a request has the deadline of its state, counted from when it
\* was made.
Deadlines == \A r \in DOMAIN requests :
    /\ requests[r].state = "awaiting_reveal" => requests[r].expiresAt = requests[r].createdAt + RevealWindow
    /\ requests[r].state = "pending" => requests[r].expiresAt = requests[r].createdAt + PairExpiry

\* What a new process knows of requests and phones.
Forgotten == requests' = EmptyMap /\ devices' = devicesFile

\* Every request lives as said, and new ones begin with their deadline.
LEMMA StepLives ==
  ASSUME PairingTypeOK, Deadlines, [ServiceNext]_serviceVars
  PROVE  /\ Forgotten \/ \A r \in DOMAIN requests : RequestLives(r)
         /\ \A r \in DOMAIN requests' \ DOMAIN requests : Begins(r)
<1>1. CASE UNCHANGED requests
  BY <1>1 DEF RequestLives, Stays
<1>2. CASE PhoneCalls
  <2>1. ASSUME NEW r \in DOMAIN requests, DropExpired(r) \/ \E d \in Device, n \in Nonce : StatusDrops(r, d, n)
        PROVE  /\ DOMAIN requests' \subseteq DOMAIN requests
               /\ \A s \in DOMAIN requests : RequestLives(s)
    BY <2>1, DeletedLives DEF DropExpired, StatusDrops
  <2> QED BY <1>2, <2>1, RequestedLives, RevealedLives DEF PhoneCalls
<1>3. CASE UserDecides
  BY <1>3, DecidedLives DEF UserDecides
<1>4. CASE ServiceSweeps
  BY <1>4, DeletedLives DEF ServiceSweeps, Sweep, Swept
<1>5. CASE ServiceRestarts
  <2>1. Forgotten /\ DOMAIN requests' = {}
    BY <1>5 DEF Forgotten, ServiceRestarts, LoadDevices, ForgetRequests, EmptyMap
  <2> QED BY <2>1
<1> QED BY <1>1, <1>2, <1>3, <1>4, <1>5 DEF ServiceNext, serviceVars, RemovePhone, ServiceWaits, pairingVars

\* Deadlines are kept.
LEMMA StepDeadlines ==
  ASSUME PairingTypeOK, Deadlines, [ServiceNext]_serviceVars
  PROVE  Deadlines'
<1> SUFFICES ASSUME NEW r \in DOMAIN requests'
             PROVE  /\ requests'[r].state = "awaiting_reveal"
                          => requests'[r].expiresAt = requests'[r].createdAt + RevealWindow
                    /\ requests'[r].state = "pending"
                          => requests'[r].expiresAt = requests'[r].createdAt + PairExpiry
  BY DEF Deadlines
<1>1. CASE r \in DOMAIN requests
  <2>1. RequestLives(r)
    BY <1>1, StepLives DEF Forgotten, EmptyMap
  <2> QED BY <1>1, <2>1 DEF RequestLives, Stays, Goes, Moves, Deadlines
<1>2. CASE r \notin DOMAIN requests
  BY <1>2, StepLives DEF Begins
<1> QED BY <1>1, <1>2

\* No run begins with a request.
LEMMA InitDeadlines ==
  ASSUME PairingInit
  PROVE  Deadlines
BY DEF PairingInit, EmptyMap, Deadlines

\* A record has a deadline that does not depend on when it was decided: an approval, which
\* sets the last one, comes before the request runs out.
LastDeadline == \A r \in DOMAIN requests :
    requests[r].expiresAt <= requests[r].createdAt + PairExpiry + SecretWindow

\* No step moves a deadline past the last one.
LEMMA StepLastDeadline ==
  ASSUME PairingTypeOK, Deadlines, LastDeadline, [ServiceNext]_serviceVars
  PROVE  LastDeadline'
<1> SUFFICES ASSUME NEW r \in DOMAIN requests'
             PROVE  requests'[r].expiresAt <= requests'[r].createdAt + PairExpiry + SecretWindow
  BY DEF LastDeadline
<1>1. PairingTypeOK'
  BY StepType
<1>2. /\ requests'[r].createdAt \in Nat /\ requests'[r].expiresAt \in Nat
      /\ RevealWindow \in Nat /\ PairExpiry \in Nat /\ SecretWindow \in Nat /\ now \in Nat
      /\ RevealWindow <= PairExpiry
  BY <1>1, PairingAssumption DEF PairingTypeOK, IsMap, PairingRecord
<1>3. CASE r \in DOMAIN requests
  <2>1. RequestLives(r)
    BY <1>3, StepLives DEF Forgotten, EmptyMap
  <2>2. requests[r].createdAt \in Nat /\ requests[r].expiresAt \in Nat
    BY <1>3 DEF PairingTypeOK, IsMap, PairingRecord
  <2>3. requests[r].expiresAt <= requests[r].createdAt + PairExpiry + SecretWindow
    BY <1>3 DEF LastDeadline
  <2>4. CASE Stays(r) \/ Moves(r, "pending", "denied")
    BY <2>3, <2>4 DEF Stays, Moves
  <2>5. CASE Moves(r, "awaiting_reveal", "pending")
    BY <1>2, <2>5 DEF Moves
  <2>6. CASE Moves(r, "pending", "approved")
    <3>1. now < requests[r].createdAt + PairExpiry
      BY <1>2, <1>3, <2>2, <2>6 DEF Moves, Expired, Deadlines
    <3>2. requests'[r].createdAt = requests[r].createdAt /\ requests'[r].expiresAt = now + SecretWindow
      BY <2>6 DEF Moves
    <3> QED BY <1>2, <2>2, <3>1, <3>2
  <2> QED BY <2>1, <2>4, <2>5, <2>6 DEF RequestLives, Goes
<1>4. CASE r \notin DOMAIN requests
  <2>1. requests'[r].expiresAt = requests'[r].createdAt + RevealWindow
    BY <1>4, StepLives DEF Begins
  <2> QED BY <1>2, <2>1
<1> QED BY <1>3, <1>4

\* The deadlines of every record, at any time.
LEMMA DeadlinesHold == ServiceSpec => [](PairingTypeOK /\ Deadlines /\ LastDeadline)
<1>1. PairingInit => Deadlines /\ LastDeadline
  BY InitDeadlines DEF PairingInit, EmptyMap, LastDeadline
<1>2. PairingTypeOK /\ Deadlines /\ LastDeadline /\ [ServiceNext]_serviceVars => Deadlines' /\ LastDeadline'
  BY StepDeadlines, StepLastDeadline
<1> QED BY <1>1, <1>2, PairingTypeCorrect, PTL DEF ServiceSpec

\* A record whose last deadline the clock can reach.
Timed(r) == r \in DOMAIN requests /\ requests[r].createdAt + PairExpiry + SecretWindow <= MaxTime

\* Such a record stays one until it goes, and has expired when the clock is there.
LEMMA TimedUntilGone ==
  ASSUME PairingTypeOK, Deadlines, LastDeadline, NEW r, Timed(r)
  PROVE  /\ [ServiceNext]_serviceVars => Timed(r)' \/ r \notin DOMAIN requests'
         /\ now >= MaxTime => Expired(r)
<1>1. ASSUME [ServiceNext]_serviceVars, r \in DOMAIN requests'
      PROVE  Timed(r)'
  <2>1. RequestLives(r)
    BY <1>1, StepLives DEF Timed, Forgotten, EmptyMap
  <2>2. requests'[r].createdAt = requests[r].createdAt
    BY <1>1, <2>1 DEF RequestLives, Stays, Goes, Moves
  <2> QED BY <1>1, <2>2 DEF Timed
<1>2. ASSUME now >= MaxTime PROVE Expired(r)
  <2>1. /\ requests[r].createdAt \in Nat /\ requests[r].expiresAt \in Nat /\ now \in Nat
        /\ PairExpiry \in Nat /\ SecretWindow \in Nat /\ MaxTime \in Nat
    BY PairingAssumption, ClockAssumption DEF Timed, PairingTypeOK, IsMap, PairingRecord
  <2> QED BY <1>2, <2>1 DEF Timed, Expired, LastDeadline
<1> QED BY <1>1, <1>2

\* The clock only goes on.
LEMMA ClockGoesOn ==
  ASSUME PairingTypeOK, [ServiceNext]_serviceVars
  PROVE  now' >= now
<1>1. now \in Nat
  BY DEF PairingTypeOK
<1>2. now' = now \/ now' = now + 1
  BY DEF ServiceNext, serviceVars, PhoneCalls, UserDecides, RemovePhone, ServiceSweeps, ServiceRestarts,
         ServiceWaits, Tick
<1> QED BY <1>1, <1>2

\* A request is revealed within the reveal window and decided within the lifetime that
\* began when it was made: a reveal moves the deadline, but never restarts it.
THEOREM MovesAreInTime == ServiceSpec => MovesInTime
<1> DEFINE Timely == \A r \in DOMAIN requests :
                       LET age == now - requests[r].createdAt
                       IN  /\ Becomes(r, "pending") => age < RevealWindow
                           /\ (Becomes(r, "approved") \/ Becomes(r, "denied")) => age < PairExpiry
<1>1. PairingTypeOK /\ Deadlines /\ [ServiceNext]_serviceVars => Timely
  <2> SUFFICES ASSUME PairingTypeOK, Deadlines, [ServiceNext]_serviceVars, NEW r \in DOMAIN requests
               PROVE  /\ Becomes(r, "pending") => now - requests[r].createdAt < RevealWindow
                      /\ (Becomes(r, "approved") \/ Becomes(r, "denied"))
                            => now - requests[r].createdAt < PairExpiry
    OBVIOUS
  <2>1. RequestLives(r) \/ Forgotten
    BY StepLives
  <2>2. /\ now \in Nat /\ requests[r].createdAt \in Nat /\ RevealWindow \in Nat /\ PairExpiry \in Nat
    BY PairingAssumption DEF PairingTypeOK, IsMap, PairingRecord
  <2>3. ~Expired(r) /\ requests[r].state = "awaiting_reveal" => now - requests[r].createdAt < RevealWindow
    BY <2>2 DEF Expired, Deadlines
  <2>4. ~Expired(r) /\ requests[r].state = "pending" => now - requests[r].createdAt < PairExpiry
    BY <2>2 DEF Expired, Deadlines
  <2>5. CASE Stays(r) \/ Goes(r) \/ Forgotten
    BY <2>5 DEF Stays, Goes, Forgotten, EmptyMap, Becomes, StateOf
  <2>6. CASE Moves(r, "awaiting_reveal", "pending")
    BY <2>3, <2>6 DEF Moves, Becomes, StateOf
  <2>7. CASE Moves(r, "pending", "approved") \/ Moves(r, "pending", "denied")
    BY <2>4, <2>7 DEF Moves, Becomes, StateOf
  <2> QED BY <2>1, <2>5, <2>6, <2>7 DEF RequestLives
<1>2. PairingInit => Deadlines
  BY InitDeadlines
<1>3. PairingTypeOK /\ Deadlines /\ [ServiceNext]_serviceVars => Deadlines'
  BY StepDeadlines
<1> QED BY <1>1, <1>2, <1>3, PairingTypeCorrect, PTL DEF ServiceSpec, MovesInTime

\* Until its window ends, an approved request goes only with the whole process.
THEOREM AnswersSurvive == ServiceSpec => AnswerSurvives
<1> DEFINE Survives == \A r \in DOMAIN requests :
                         requests[r].state = "approved" /\ ~Expired(r) /\ StateOf(r)' # "approved"
                            => requests' = EmptyMap /\ devices' = devicesFile
<1>1. PairingTypeOK /\ Deadlines /\ [ServiceNext]_serviceVars => Survives
  <2> SUFFICES ASSUME PairingTypeOK, Deadlines, [ServiceNext]_serviceVars, NEW r \in DOMAIN requests,
                      requests[r].state = "approved", ~Expired(r), StateOf(r)' # "approved"
               PROVE  requests' = EmptyMap /\ devices' = devicesFile
    OBVIOUS
  <2>1. RequestLives(r) \/ Forgotten
    BY StepLives
  <2> QED BY <2>1 DEF RequestLives, Stays, Goes, Moves, Forgotten, StateOf
<1>2. PairingInit => Deadlines
  BY InitDeadlines
<1>3. PairingTypeOK /\ Deadlines /\ [ServiceNext]_serviceVars => Deadlines'
  BY StepDeadlines
<1> QED BY <1>1, <1>2, <1>3, PairingTypeCorrect, PTL DEF ServiceSpec, AnswerSurvives

---------------------------------------------------------------------------------
(* Trust in phones.                                                              *)

\* A running laptop starts to trust a phone, or a new secret of one, only when the user
\* approves a pending request of that phone; a restart trusts only whom the file lists.
THEOREM PairedByUserOnly == ServiceSpec => PairedOnlyByUser
<1> DEFINE ByUser == \A d \in DOMAIN devices' :
                       \/ d \in DOMAIN devices /\ devices[d] = devices'[d]
                       \/ d \in DOMAIN devicesFile /\ devices'[d] = devicesFile[d]
                       \/ \E r \in DOMAIN requests :
                             /\ requests[r].device = d /\ requests[r].state = "pending" /\ ~Expired(r)
                             /\ devices'[d] \in {r, LostSecret}
<1>1. PairingTypeOK /\ [ServiceNext]_serviceVars => ByUser
  <2> SUFFICES ASSUME PairingTypeOK, [ServiceNext]_serviceVars PROVE ByUser
    OBVIOUS
  <2>1. CASE UNCHANGED devices
    BY <2>1
  <2>2. ASSUME NEW r \in DOMAIN requests, NEW written \in BOOLEAN, Approve(r, written)
        PROVE  ByUser
    <3>1. /\ ~Expired(r) /\ requests[r].state = "pending"
          /\ devices' = With(devices, requests[r].device, IF written THEN r ELSE LostSecret)
      BY <2>2 DEF Approve, IsPending, Add
    <3> QED BY <3>1 DEF With
  <2>3. ASSUME NEW d, NEW written, RemoveDevice(d, written)
        PROVE  ByUser
    <3>1. CASE Has(d)
      <4>1. devices' = Without(devices, {d})
        BY <2>3, <3>1 DEF RemoveDevice
      <4> QED BY <4>1 DEF Without, Restrict
    <3>2. CASE ~Has(d)
      BY <2>3, <3>2 DEF RemoveDevice, deviceVars
    <3> QED BY <3>1, <3>2
  <2>4. CASE ServiceRestarts
    BY <2>4 DEF ServiceRestarts, LoadDevices
  <2> QED BY <2>1, <2>2, <2>3, <2>4
          DEF ServiceNext, PhoneCalls, UserDecides, RemovePhone, ServiceSweeps, ServiceWaits, deviceVars, serviceVars
<1> QED BY <1>1, PairingTypeCorrect, PTL DEF ServiceSpec, PairedOnlyByUser

---------------------------------------------------------------------------------
(* Limits.  A limit on a set of records says something only when the set is      *)
(* finite; and the file must be within the limit, or a restart would break it.   *)

RequestLimits == IsFiniteSet(DOMAIN requests) /\ RequestsWithinLimits

DeviceLimits == /\ IsFiniteSet(DOMAIN devices) /\ IsFiniteSet(DOMAIN devicesFile)
                /\ DevicesWithinLimit
                /\ Cardinality(DOMAIN devicesFile) <= MaxDevices

OpenRequests == {r \in DOMAIN requests : Open(r)}

\* Requests that go, or are no longer open, leave the limits as they are.
LEMMA FewerRequests ==
  ASSUME PairingTypeOK, RequestLimits, DOMAIN requests' \subseteq DOMAIN requests,
         \A r \in DOMAIN requests' : requests'[r].device = requests[r].device /\ (Open(r)' => Open(r))
  PROVE  RequestLimits'
<1>1. IsFiniteSet(DOMAIN requests) /\ IsFiniteSet(DOMAIN requests')
  BY FS_Subset DEF RequestLimits
<1>2. OpenRequests' \in SUBSET OpenRequests /\ OpenRequests \in SUBSET DOMAIN requests
  BY DEF OpenRequests
<1>3. IsFiniteSet(OpenRequests)
  BY <1>1, <1>2, FS_Subset
<1>4. /\ Cardinality(OpenRequests') <= Cardinality(OpenRequests)
      /\ Cardinality(OpenRequests') \in Nat /\ Cardinality(OpenRequests) \in Nat
  BY <1>2, <1>3, FS_Subset, FS_CardinalityType
<1>5. /\ Cardinality(OpenRequests) <= MaxPending /\ MaxPending \in Nat
      /\ \A r, s \in OpenRequests : requests[r].device = requests[s].device => r = s
  BY PairingAssumption DEF RequestLimits, RequestsWithinLimits, OpenRequests
<1>6. Cardinality(OpenRequests') <= MaxPending
  BY <1>4, <1>5
<1>7. \A r, s \in OpenRequests' : requests'[r].device = requests'[s].device => r = s
  BY <1>2, <1>5 DEF OpenRequests
<1> QED BY <1>1, <1>6, <1>7 DEF RequestLimits, RequestsWithinLimits, OpenRequests

\* A request replaces its phone's open one, and is admitted only when there is room.
LEMMA RequestedLimits ==
  ASSUME PairingTypeOK, RequestLimits, NEW d \in Device, NEW n, NEW ip, Request(d, n, ip)
  PROVE  RequestLimits'
<1> DEFINE kept == Restrict(requests, Kept(d))
           new == [device |-> d, commit |-> n, state |-> "awaiting_reveal",
                   createdAt |-> now, expiresAt |-> now + RevealWindow]
           stillOpen == {r \in Kept(d) : Open(r)}
<1>1. Kept(d) \in SUBSET DOMAIN requests /\ IsMap(requests, 1..lastRequest, PairingRecord) /\ lastRequest \in Nat
  BY DEF Kept, PairingTypeOK
<1>2. DOMAIN kept = Kept(d) /\ \A r \in Kept(d) : kept[r] = requests[r]
  BY <1>1, RestrictProperties
<1>3. CASE ~HasRoom(d)
  <2>1. requests' = kept
    BY <1>3 DEF Request
  <2> HIDE DEF kept
  <2> QED BY <1>1, <1>2, <2>1, FewerRequests DEF Open
<1>4. CASE HasRoom(d)
  <2>1. lastRequest' = lastRequest + 1 /\ requests' = With(kept, lastRequest', new)
    BY <1>4 DEF Request
  <2>2. new.device = d
    OBVIOUS
  <2>3. lastRequest' \notin DOMAIN requests
    BY <1>1, <2>1 DEF IsMap
  <2> HIDE DEF kept, new
  <2>4. /\ DOMAIN requests' = Kept(d) \cup {lastRequest'}
        /\ requests'[lastRequest'] = new
        /\ \A r \in Kept(d) : requests'[r] = requests[r]
    BY <1>1, <1>2, <2>1, <2>3 DEF With
  <2>5. IsFiniteSet(Kept(d)) /\ IsFiniteSet(DOMAIN requests')
    <3>1. IsFiniteSet(Kept(d))
      BY <1>1, FS_Subset DEF RequestLimits
    <3> QED BY <2>4, <3>1, FS_AddElement
  <2>6. stillOpen \in SUBSET Kept(d) /\ stillOpen \in SUBSET OpenRequests
    BY <1>1 DEF OpenRequests
  <2>7. Cardinality(stillOpen) < MaxPending
    BY <1>4 DEF HasRoom
  <2>8. OpenRequests' \in SUBSET (stillOpen \cup {lastRequest'})
    BY <2>4 DEF OpenRequests, Open
  <2>9. \A r \in stillOpen : requests[r].device # d
    BY DEF Kept
  <2> HIDE DEF stillOpen
  <2>10. IsFiniteSet(stillOpen) /\ Cardinality(stillOpen) \in Nat
    BY <2>5, <2>6, FS_Subset, FS_CardinalityType
  <2>11. /\ IsFiniteSet(stillOpen \cup {lastRequest'})
         /\ Cardinality(stillOpen \cup {lastRequest'}) <= Cardinality(stillOpen) + 1
         /\ Cardinality(stillOpen \cup {lastRequest'}) \in Nat
    BY <2>10, FS_AddElement, FS_CardinalityType
  <2>12. Cardinality(OpenRequests') <= Cardinality(stillOpen \cup {lastRequest'}) /\ Cardinality(OpenRequests') \in Nat
    BY <2>8, <2>11, FS_Subset, FS_CardinalityType
  <2>13. MaxPending \in Nat
    BY PairingAssumption
  <2>14. Cardinality(OpenRequests') <= MaxPending
    BY <2>7, <2>10, <2>11, <2>12, <2>13
  <2>15. \A r, s \in OpenRequests' : requests'[r].device = requests'[s].device => r = s
    <3> SUFFICES ASSUME NEW r \in OpenRequests', NEW s \in OpenRequests',
                        requests'[r].device = requests'[s].device
                 PROVE  r = s
      OBVIOUS
    <3>1. \A q \in stillOpen : requests'[q].device = requests[q].device /\ requests'[q].device # d
      BY <2>4, <2>6, <2>9
    <3>2. \A p, q \in stillOpen : requests[p].device = requests[q].device => p = q
      BY <2>6 DEF RequestLimits, RequestsWithinLimits, OpenRequests
    <3> QED BY <2>2, <2>4, <2>8, <3>1, <3>2
  <2> QED BY <2>5, <2>14, <2>15 DEF RequestLimits, RequestsWithinLimits, OpenRequests
<1> QED BY <1>3, <1>4

\* add makes a phone more only when there is room; the file follows, or stays.
LEMMA AddedLimits ==
  ASSUME DeviceLimits, NEW d, NEW s, NEW written, Add(d, s, written)
  PROVE  DeviceLimits'
<1>1. /\ DOMAIN devices' = DOMAIN devices \cup {d}
      /\ devicesFile' = devices' \/ devicesFile' = devicesFile
  BY DEF Add, Save, With
<1>2. /\ IsFiniteSet(DOMAIN devices)
      /\ Cardinality(DOMAIN devices) \in Nat /\ Cardinality(DOMAIN devices) <= MaxDevices
      /\ MaxDevices \in Nat
  BY FS_CardinalityType, DevicesAssumption DEF DeviceLimits, DevicesWithinLimit
<1>3. /\ IsFiniteSet(DOMAIN devices \cup {d})
      /\ Cardinality(DOMAIN devices \cup {d}) =
            IF d \in DOMAIN devices THEN Cardinality(DOMAIN devices) ELSE Cardinality(DOMAIN devices) + 1
  BY <1>2, FS_AddElement
<1>4. d \in DOMAIN devices \/ Cardinality(DOMAIN devices) < MaxDevices
  BY DEF Add, CanAdd, Has
<1>5. Cardinality(DOMAIN devices \cup {d}) <= MaxDevices
  BY <1>2, <1>3, <1>4
<1> QED BY <1>1, <1>3, <1>5 DEF DeviceLimits, DevicesWithinLimit

\* remove makes no phone more.
LEMMA RemovedLimits ==
  ASSUME DeviceLimits, NEW d, NEW written, RemoveDevice(d, written)
  PROVE  DeviceLimits'
<1>1. /\ DOMAIN devices' \in SUBSET DOMAIN devices
      /\ devicesFile' = devices' \/ devicesFile' = devicesFile
      \/ UNCHANGED deviceVars
  BY DEF RemoveDevice, Save, Without, Restrict
<1>2. IsFiniteSet(DOMAIN devices) /\ Cardinality(DOMAIN devices) \in Nat
      /\ Cardinality(DOMAIN devices) <= MaxDevices /\ MaxDevices \in Nat
  BY FS_CardinalityType, DevicesAssumption DEF DeviceLimits, DevicesWithinLimit
<1>3. CASE DOMAIN devices' \in SUBSET DOMAIN devices
           /\ (devicesFile' = devices' \/ devicesFile' = devicesFile)
  <2>1. /\ IsFiniteSet(DOMAIN devices') /\ Cardinality(DOMAIN devices') \in Nat
        /\ Cardinality(DOMAIN devices') <= Cardinality(DOMAIN devices)
    BY <1>2, <1>3, FS_Subset, FS_CardinalityType
  <2>2. Cardinality(DOMAIN devices') <= MaxDevices
    BY <1>2, <2>1
  <2> QED BY <1>3, <2>1, <2>2 DEF DeviceLimits, DevicesWithinLimit
<1>4. CASE UNCHANGED deviceVars
  BY <1>4 DEF DeviceLimits, DevicesWithinLimit, deviceVars
<1> QED BY <1>1, <1>3, <1>4

\* The steps of phones, user, timer and process keep the limits.
LEMMA StepLimits ==
  ASSUME PairingTypeOK, RequestLimits, DeviceLimits, [ServiceNext]_serviceVars
  PROVE  RequestLimits' /\ DeviceLimits'
<1>1. ASSUME UNCHANGED requests PROVE RequestLimits'
  BY <1>1, FewerRequests DEF Open
<1>2. ASSUME UNCHANGED deviceVars PROVE DeviceLimits'
  BY <1>2 DEF DeviceLimits, DevicesWithinLimit, deviceVars
<1>3. ASSUME NEW rs, Delete(rs) PROVE RequestLimits'
  <2>1. /\ DOMAIN requests' \subseteq DOMAIN requests
        /\ \A r \in DOMAIN requests' : requests'[r] = requests[r]
    BY <1>3 DEF Delete, Without, Restrict
  <2> QED BY <2>1, FewerRequests DEF Open
<1>4. ASSUME NEW r \in DOMAIN requests, requests'[r].state \in {"approved", "denied"},
             DOMAIN requests' = DOMAIN requests,
             \A s \in DOMAIN requests : requests'[s].device = requests[s].device,
             \A s \in DOMAIN requests : s # r => requests'[s] = requests[s]
      PROVE  RequestLimits'
  BY <1>4, FewerRequests DEF Open
<1>5. CASE UNCHANGED serviceVars
  BY <1>1, <1>2, <1>5 DEF serviceVars, deviceVars
<1>6. CASE PhoneCalls
  <2>1. ASSUME NEW r \in DOMAIN requests, NEW n, Reveal(r, n) PROVE RequestLimits'
    <3>1. CASE n = requests[r].commit
      <4>1. /\ requests[r] \in PairingRecord
            /\ requests' = [requests EXCEPT ![r].state = "pending",
                                          ![r].expiresAt = requests[r].createdAt + PairExpiry]
        BY <2>1, <3>1 DEF Reveal, PairingTypeOK, IsMap
      <4>2. /\ DOMAIN requests' = DOMAIN requests
            /\ \A s \in DOMAIN requests : requests'[s].device = requests[s].device
            /\ \A s \in DOMAIN requests : s # r => requests'[s] = requests[s]
        BY <4>1 DEF PairingRecord
      <4>3. Open(r)
        BY <2>1 DEF Reveal, Open
      <4>4. \A s \in DOMAIN requests' : Open(s)' => Open(s)
        BY <4>2, <4>3 DEF Open
      <4> QED BY <4>2, <4>4, FewerRequests
    <3>2. CASE n # requests[r].commit
      BY <1>3, <2>1, <3>2 DEF Reveal
    <3> QED BY <3>1, <3>2
  <2> QED BY <1>2, <1>3, <1>6, <2>1, RequestedLimits DEF PhoneCalls, DropExpired, StatusDrops
<1>7. CASE UserDecides
  <2>1. ASSUME NEW r \in DOMAIN requests, NEW written \in BOOLEAN, Approve(r, written)
        PROVE  RequestLimits' /\ DeviceLimits'
    <3>1. DeviceLimits'
      BY <2>1, AddedLimits DEF Approve
    <3>2. CASE written
      <4>1. requests' = [requests EXCEPT ![r].state = "approved", ![r].expiresAt = now + SecretWindow]
            /\ requests[r] \in PairingRecord
        BY <2>1, <3>2 DEF Approve, PairingTypeOK, IsMap
      <4>2. /\ DOMAIN requests' = DOMAIN requests /\ requests'[r].state = "approved"
            /\ \A s \in DOMAIN requests : requests'[s].device = requests[s].device
            /\ \A s \in DOMAIN requests : s # r => requests'[s] = requests[s]
        BY <4>1 DEF PairingRecord
      <4> QED BY <1>4, <3>1, <4>2
    <3>3. CASE ~written
      BY <1>1, <2>1, <3>1, <3>3 DEF Approve
    <3> QED BY <3>2, <3>3
  <2>2. ASSUME NEW r \in DOMAIN requests, Deny(r), UNCHANGED deviceVars
        PROVE  RequestLimits' /\ DeviceLimits'
    <3>1. requests[r] \in PairingRecord
      BY DEF PairingTypeOK, IsMap
    <3>2. /\ DOMAIN requests' = DOMAIN requests /\ requests'[r].state = "denied"
          /\ \A s \in DOMAIN requests : requests'[s].device = requests[s].device
          /\ \A s \in DOMAIN requests : s # r => requests'[s] = requests[s]
      BY <2>2, <3>1 DEF Deny, PairingRecord
    <3>3. RequestLimits'
      BY <1>4, <3>2
    <3> QED BY <1>2, <2>2, <3>3
  <2> QED BY <1>7, <2>1, <2>2 DEF UserDecides
<1>8. CASE RemovePhone
  BY <1>1, <1>8, RemovedLimits DEF RemovePhone, pairingVars
<1>9. CASE ServiceSweeps
  BY <1>2, <1>3, <1>9 DEF ServiceSweeps, Sweep
<1>10. CASE ServiceRestarts
  <2>1. DOMAIN requests' = {} /\ devices' = devicesFile /\ devicesFile' = devicesFile
    BY <1>10 DEF ServiceRestarts, LoadDevices, ForgetRequests, EmptyMap
  <2>2. RequestLimits'
    BY <2>1, FewerRequests
  <2> QED BY <2>1, <2>2 DEF DeviceLimits, DevicesWithinLimit
<1>11. CASE ServiceWaits
  BY <1>1, <1>2, <1>11 DEF ServiceWaits, pairingVars
<1> QED BY <1>5, <1>6, <1>7, <1>8, <1>9, <1>10, <1>11 DEF ServiceNext

\* However requests, decisions, expiries, failed writes and restarts are ordered, open
\* requests are few and of different phones, and no more phones are paired than may be.
THEOREM AlwaysWithinLimits == ServiceSpec => []WithinLimits
<1>1. PairingInit => RequestLimits /\ DeviceLimits
  <2> SUFFICES ASSUME PairingInit PROVE RequestLimits /\ DeviceLimits
    OBVIOUS
  <2>1. DOMAIN requests = {} /\ DOMAIN devices = {} /\ DOMAIN devicesFile = {}
    BY DEF PairingInit, EmptyMap
  <2>2. {r \in DOMAIN requests : Open(r)} = {}
    BY <2>1
  <2>3. RequestLimits
    BY <2>1, <2>2, FS_EmptySet, PairingAssumption DEF RequestLimits, RequestsWithinLimits
  <2>4. DeviceLimits
    BY <2>1, FS_EmptySet, DevicesAssumption DEF DeviceLimits, DevicesWithinLimit
  <2> QED BY <2>3, <2>4
<1>2. PairingTypeOK /\ RequestLimits /\ DeviceLimits /\ [ServiceNext]_serviceVars => RequestLimits' /\ DeviceLimits'
  BY StepLimits
<1>3. PairingTypeOK /\ RequestLimits /\ DeviceLimits => WithinLimits
  BY DEF RequestLimits, DeviceLimits, WithinLimits
<1> QED BY <1>1, <1>2, <1>3, PairingTypeCorrect, PTL DEF ServiceSpec
=================================================================================
