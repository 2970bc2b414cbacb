------------------------------ MODULE AccessProofs ------------------------------
(*********************************************************************************)
(* Proofs about LaptopAccess, for any number of phones, requests and tokens.     *)
(*********************************************************************************)
EXTENDS LaptopAccess, PairingTheorems

---------------------------------------------------------------------------------
(* Sessions and streams keep their types.                                        *)

\* SessionStore._end, for any sessions, keeps the types of the session store.
LEMMA EndSessionsType ==
  ASSUME SessionsTypeOK, NEW T, EndSessions(T)
  PROVE  SessionsTypeOK'
BY WithoutProperties DEF SessionsTypeOK, EndSessions

\* SessionStore.verify keeps the types of the session store.
LEMMA UseSessionType ==
  ASSUME SessionsTypeOK, now \in Nat, NEW t \in DOMAIN byToken, UseSession(t)
  PROVE  SessionsTypeOK'
BY DEF SessionsTypeOK, UseSession, IsMap, Session

\* SessionStore.create keeps the types of the session store; tokens only grow.
LEMMA CreateSessionType ==
  ASSUME SessionsTypeOK, now \in Nat, NEW d \in Device, CreateSession(d)
  PROVE  SessionsTypeOK' /\ lastToken' = lastToken + 1
<1> DEFINE new == [device |-> d, createdAt |-> now, lastUsed |-> now]
<1>1. lastToken' = lastToken + 1 /\ lastToken' \in 1..lastToken' /\ 1..lastToken \subseteq 1..lastToken'
  BY DEF CreateSession, SessionsTypeOK
<1>2. IsMap(Without(byToken, SessionOf(d)), 1..lastToken', Session)
  BY <1>1, WithoutProperties, IsMapMonotonic DEF SessionsTypeOK
<1>3. IsMap(byDevice, Device, 1..lastToken')
  BY <1>1, IsMapMonotonic DEF SessionsTypeOK
<1>4. new \in Session
  BY DEF Session
<1>5. byToken' = With(Without(byToken, SessionOf(d)), lastToken', new)
  BY DEF CreateSession
<1> HIDE DEF new
<1>6. IsMap(byToken', 1..lastToken', Session)
  BY <1>1, <1>2, <1>4, <1>5, WithProperties
<1>7. IsMap(byDevice', Device, 1..lastToken')
  BY <1>1, <1>3, WithProperties DEF CreateSession
<1> QED BY <1>1, <1>6, <1>7 DEF SessionsTypeOK

\* The part of the state this module adds to pairing and sessions.
AccessTypeOK == /\ streams \in [Device -> Seq(1..lastToken)]
                /\ authHits \in [Ip -> Seq(Nat)]
                /\ known \in [Device -> SUBSET (1..lastRequest)]
                /\ IsMap(openedWith, 1..lastToken, 0..lastRequest)

\* Closing streams ('end' listener) keeps the type of the streams.
LEMMA StreamsType ==
  ASSUME AccessTypeOK, NEW ds, CloseStreams(ds), lastToken \in Nat, lastToken' \in Nat,
         lastToken <= lastToken'
  PROVE  streams' \in [Device -> Seq(1..lastToken')]
<1>1. 1..lastToken \subseteq 1..lastToken'
  OBVIOUS
<1>2. \A d \in Device : streams[d] \in Seq(1..lastToken')
  BY <1>1, SeqMonotonic DEF AccessTypeOK
<1>3. <<>> \in Seq(1..lastToken')
  BY EmptySeq
<1> QED BY <1>2, <1>3 DEF CloseStreams

\* Nothing is lost when ids are drawn and the history follows.
LEMMA AccessTypeUnchanged ==
  ASSUME AccessTypeOK, UNCHANGED <<streams, authHits, historyVars, lastToken>>,
         lastRequest \in Nat, lastRequest' \in Nat, lastRequest <= lastRequest'
  PROVE  AccessTypeOK'
<1>1. 0..lastRequest \subseteq 0..lastRequest' /\ 1..lastRequest \subseteq 1..lastRequest'
  OBVIOUS
<1>2. IsMap(openedWith, 1..lastToken, 0..lastRequest')
  BY <1>1, IsMapMonotonic DEF AccessTypeOK
<1>3. known \in [Device -> SUBSET (1..lastRequest')]
  BY <1>1 DEF AccessTypeOK
<1> QED BY <1>2, <1>3 DEF AccessTypeOK, historyVars

\* A failed authentication that is recorded keeps the types of the access state.
LEMMA FailureType ==
  ASSUME AccessTypeOK, now \in Nat, NEW ip \in Ip, RecordFailure(ip)
  PROVE  authHits' \in [Ip -> Seq(Nat)]
BY HitsType DEF RecordFailure, AccessTypeOK

---------------------------------------------------------------------------------
(* Every action of the laptop keeps the types.                                   *)

USE DEF TypeOK, AccessTypeOK

\* Every pairing call of a phone keeps the types of the access state.
LEMMA PairingCallType ==
  ASSUME TypeOK, PairingCall
  PROVE  TypeOK'
<1>1. ASSUME NEW d \in Device, NEW n \in Nonce, NEW ip \in Ip, PairRequest(d, n, ip)
      PROVE  TypeOK'
  <2>1. PairingTypeOK' /\ lastRequest <= lastRequest'
    BY <1>1, RequestType DEF PairRequest
  <2>2. AccessTypeOK'
    BY <1>1, <2>1, AccessTypeUnchanged DEF PairRequest, PairingTypeOK, sessionVars
  <2> QED BY <1>1, <2>1, <2>2 DEF PairRequest, SessionsTypeOK, sessionVars
<1>2. ASSUME NEW r \in DOMAIN requests, NEW n \in Nonce, PairReveal(r, n)
      PROVE  TypeOK'
  <2>1. PairingTypeOK'
    BY <1>2, RevealType, DeleteType DEF PairReveal, DropExpired
  <2>2. UNCHANGED <<lastRequest, sessionVars, streams, authHits, historyVars>>
    BY <1>2 DEF PairReveal, Reveal, DropExpired
  <2> QED BY <2>1, <2>2 DEF SessionsTypeOK, sessionVars, historyVars
<1>3. ASSUME NEW r \in DOMAIN requests, NEW n \in Nonce, NEW d \in Device, PairStatus(r, d, n)
      PROVE  TypeOK'
  <2>1. CASE Releases(r, d, n) /\ known' = [known EXCEPT ![d] = @ \cup {r}] /\ UNCHANGED pairingVars
    <3>1. r \in 1..lastRequest
      BY DEF PairingTypeOK, IsMap
    <3>2. PairingTypeOK'
      BY <1>3, <2>1 DEF PairStatus, PairingTypeOK, pairingVars, deviceVars
    <3> QED BY <1>3, <2>1, <3>1, <3>2 DEF PairStatus, SessionsTypeOK, sessionVars, pairingVars
  <2>2. CASE StatusDrops(r, d, n) /\ UNCHANGED known
    <3>1. PairingTypeOK'
      BY <1>3, <2>2, DeleteType DEF PairStatus, StatusDrops
    <3> QED BY <1>3, <2>2, <3>1 DEF PairStatus, StatusDrops, SessionsTypeOK, sessionVars
  <2> QED BY <1>3, <2>1, <2>2 DEF PairStatus
<1> QED BY <1>1, <1>2, <1>3 DEF PairingCall

\* Every connect, refused or not, and every call with a token keeps the types.
LEMMA SessionCallType ==
  ASSUME TypeOK, SessionCall
  PROVE  TypeOK'
<1> PICK ip \in Ip :
      \/ \E d \in Device : \E s \in known[d] : Connect(d, s, ip) \/ RefuseSecret(d, s, ip)
      \/ \E t \in Token : \/ RefuseToken(t, ip) \/ Disconnect(t, ip) \/ ForgetSelf(t, ip)
                          \/ OpenEvents(t, ip) \/ CallWithSession(t, ip)
  BY DEF SessionCall
<1>1. ASSUME NEW d \in Device, NEW s \in known[d], Connect(d, s, ip)
      PROVE  TypeOK'
  <2>1. SessionsTypeOK' /\ lastToken' = lastToken + 1
    BY <1>1, CreateSessionType DEF Connect, PairingTypeOK
  <2>2. PairingTypeOK' /\ lastRequest' = lastRequest
    BY <1>1 DEF Connect, PairingTypeOK, deviceVars, pairingVars
  <2>3. streams' \in [Device -> Seq(1..lastToken')]
    BY <1>1, <2>1, StreamsType DEF Connect, SessionsTypeOK
  <2>4. IsMap(openedWith', 1..lastToken', 0..lastRequest')
    <3>1. s \in 0..lastRequest' /\ lastToken' \in 1..lastToken' /\ 1..lastToken \subseteq 1..lastToken'
      BY <2>1, <2>2 DEF SessionsTypeOK
    <3>2. IsMap(openedWith, 1..lastToken', 0..lastRequest')
      BY <2>2, <3>1, IsMapMonotonic
    <3> QED BY <1>1, <3>1, <3>2, WithProperties DEF Connect
  <2> QED BY <1>1, <2>1, <2>2, <2>3, <2>4 DEF Connect
<1>2. ASSUME NEW d \in Device, NEW s \in known[d], RefuseSecret(d, s, ip)
      PROVE  TypeOK'
  BY <1>2, FailureType
  DEF RefuseSecret, PairingTypeOK, SessionsTypeOK, deviceVars, pairingVars, sessionVars, historyVars
<1>3. ASSUME NEW t \in Token, RefuseToken(t, ip)
      PROVE  TypeOK'
  <2>1. SessionsTypeOK' /\ lastToken' = lastToken
    BY <1>3, EndSessionsType DEF RefuseToken, End, EndSessions
  <2>2. streams' \in [Device -> Seq(1..lastToken')]
    BY <1>3, <2>1, StreamsType DEF RefuseToken, End, SessionsTypeOK
  <2> QED BY <1>3, <2>1, <2>2, FailureType
          DEF RefuseToken, PairingTypeOK, deviceVars, pairingVars, historyVars
<1>4. ASSUME NEW t \in Token, Disconnect(t, ip)
      PROVE  TypeOK'
  <2>1. SessionsTypeOK' /\ lastToken' = lastToken
    BY <1>4, EndSessionsType DEF Disconnect, End, EndSessions
  <2>2. streams' \in [Device -> Seq(1..lastToken')]
    BY <1>4, <2>1, StreamsType DEF Disconnect, End, SessionsTypeOK
  <2> QED BY <1>4, <2>1, <2>2
          DEF Disconnect, PairingTypeOK, deviceVars, pairingVars, historyVars
<1>5. ASSUME NEW t \in Token, ForgetSelf(t, ip)
      PROVE  TypeOK'
  <2> PICK saved \in BOOLEAN :
        /\ RemoveDevice(byToken[t].device, saved)
        /\ IF saved THEN End(SessionOf(byToken[t].device))
                    ELSE UseSession(t) /\ UNCHANGED streams
    BY <1>5 DEF ForgetSelf
  <2>1. PairingTypeOK'
    BY <1>5, RemoveType DEF ForgetSelf
  <2>2. SessionsTypeOK' /\ lastToken' = lastToken
    BY <1>5, EndSessionsType, UseSessionType
    DEF ForgetSelf, End, EndSessions, UseSession, Accepted, Live, PairingTypeOK
  <2>3. streams' \in [Device -> Seq(1..lastToken')]
    BY <2>2, StreamsType DEF End, SessionsTypeOK
  <2> QED BY <1>5, <2>1, <2>2, <2>3 DEF ForgetSelf, pairingVars, historyVars
<1>6. ASSUME NEW t \in Token, OpenEvents(t, ip)
      PROVE  TypeOK'
  <2> DEFINE d == byToken[t].device
             kept == IF Len(streams[d]) < MaxStreams THEN streams[d]
                     ELSE SubSeq(streams[d], Len(streams[d]) - MaxStreams + 2, Len(streams[d]))
  <2>1. t \in DOMAIN byToken /\ d \in Device /\ t \in 1..lastToken
    BY <1>6 DEF OpenEvents, Accepted, Live, SessionsTypeOK, IsMap, Session
  <2>2. SessionsTypeOK' /\ lastToken' = lastToken
    BY <1>6, <2>1, UseSessionType DEF OpenEvents, UseSession, PairingTypeOK
  <2>3. kept \in Seq(1..lastToken)
    <3>1. streams[d] \in Seq(1..lastToken) /\ Len(streams[d]) \in Nat
      BY <2>1, LenProperties
    <3>2. CASE ~ Len(streams[d]) < MaxStreams
      <4> DEFINE m == Len(streams[d]) - MaxStreams + 2
      <4>1. m \in Nat \ {0}
        BY <3>1, <3>2, AccessAssumption
      <4>2. kept = SubSeq(streams[d], m, Len(streams[d]))
        BY <3>2
      <4> HIDE DEF m
      <4>3. \A i \in m..Len(streams[d]) : streams[d][i] \in 1..lastToken
        <5> SUFFICES ASSUME NEW i \in m..Len(streams[d]) PROVE streams[d][i] \in 1..lastToken
          OBVIOUS
        <5>1. i \in 1..Len(streams[d])
          BY <3>1, <4>1
        <5> QED BY <3>1, <5>1, ElementOfSeq
      <4>4. SubSeq(streams[d], m, Len(streams[d])) \in Seq(1..lastToken)
        BY <3>1, <4>1, <4>3, SubSeqProperties
      <4> QED BY <4>2, <4>4
    <3> QED BY <3>1, <3>2
  <2>4. streams' = [streams EXCEPT ![d] = Append(kept, t)]
    BY <1>6 DEF OpenEvents
  <2> HIDE DEF kept
  <2>5. streams' \in [Device -> Seq(1..lastToken')]
    BY <2>1, <2>2, <2>3, <2>4, AppendProperties
  <2> QED BY <1>6, <2>2, <2>5
          DEF OpenEvents, PairingTypeOK, deviceVars, pairingVars, historyVars
<1>7. ASSUME NEW t \in Token, CallWithSession(t, ip)
      PROVE  TypeOK'
  <2>1. SessionsTypeOK' /\ lastToken' = lastToken
    BY <1>7, UseSessionType DEF CallWithSession, UseSession, Accepted, Live, PairingTypeOK
  <2> QED BY <1>7, <2>1
          DEF CallWithSession, PairingTypeOK, deviceVars, pairingVars, historyVars
<1> QED BY <1>1, <1>2, <1>3, <1>4, <1>5, <1>6, <1>7

\* Every action of the laptop's user keeps the types.
LEMMA UserActionType ==
  ASSUME TypeOK, UserAction
  PROVE  TypeOK'
<1>1. ASSUME NEW r \in DOMAIN requests, ApprovePairing(r)
      PROVE  TypeOK'
  <2> PICK saved \in BOOLEAN :
        /\ Approve(r, saved)
        /\ IF saved /\ Has(requests[r].device) THEN End(SessionOf(requests[r].device))
                                              ELSE UNCHANGED <<sessionVars, streams>>
    BY <1>1 DEF ApprovePairing
  <2>1. PairingTypeOK' /\ lastRequest' = lastRequest
    BY <1>1, ApproveType DEF ApprovePairing, Approve
  <2>2. SessionsTypeOK' /\ lastToken' = lastToken
    BY EndSessionsType DEF End, EndSessions, SessionsTypeOK, sessionVars
  <2>3. streams' \in [Device -> Seq(1..lastToken')]
    BY <2>2, StreamsType DEF End, SessionsTypeOK, sessionVars
  <2> QED BY <1>1, <2>1, <2>2, <2>3 DEF ApprovePairing, historyVars
<1>2. ASSUME NEW r \in DOMAIN requests, DenyPairing(r)
      PROVE  TypeOK'
  <2>1. PairingTypeOK'
    BY <1>2, DenyType, DeleteType DEF DenyPairing, DropExpired
  <2> QED BY <1>2, <2>1 DEF DenyPairing, Deny, DropExpired, SessionsTypeOK, sessionVars, historyVars
<1>3. ASSUME NEW d \in Device, Revoke(d)
      PROVE  TypeOK'
  <2> PICK saved \in BOOLEAN :
        /\ RemoveDevice(d, saved)
        /\ IF saved THEN End(SessionOf(d)) ELSE UNCHANGED <<sessionVars, streams>>
    BY <1>3 DEF Revoke
  <2>1. PairingTypeOK'
    BY <1>3, RemoveType DEF Revoke
  <2>2. SessionsTypeOK' /\ lastToken' = lastToken
    BY EndSessionsType DEF End, EndSessions, SessionsTypeOK, sessionVars
  <2>3. streams' \in [Device -> Seq(1..lastToken')]
    BY <2>2, StreamsType DEF End, SessionsTypeOK, sessionVars
  <2> QED BY <1>3, <2>1, <2>2, <2>3 DEF Revoke, pairingVars, historyVars
<1>4. ASSUME ReadState
      PROVE  TypeOK'
  <2>1. PairingTypeOK'
    BY <1>4, DeleteType DEF ReadState, Sweep
  <2>2. SessionsTypeOK' /\ lastToken' = lastToken
    BY <1>4, EndSessionsType DEF ReadState, End, EndSessions
  <2>3. streams' \in [Device -> Seq(1..lastToken')]
    BY <1>4, <2>2, StreamsType DEF ReadState, End, SessionsTypeOK
  <2> QED BY <1>4, <2>1, <2>2, <2>3 DEF ReadState, Sweep, historyVars
<1> QED BY <1>1, <1>2, <1>3, <1>4 DEF UserAction

\* Lost streams, timers, restarts and the passing of time keep the types.
LEMMA EnvironmentType ==
  ASSUME TypeOK, Environment
  PROVE  TypeOK'
<1>1. ASSUME NEW d \in Device, NEW i \in 1..MaxStreams, StreamLost(d, i)
      PROVE  TypeOK'
  <2>1. streams[d] \in Seq(1..lastToken) /\ Len(streams[d]) \in Nat /\ i \in 1..Len(streams[d])
    BY <1>1, LenProperties DEF StreamLost
  <2>2. /\ \A j \in 1..(i - 1) : streams[d][j] \in 1..lastToken
        /\ \A j \in (i + 1)..Len(streams[d]) : streams[d][j] \in 1..lastToken
    <3>1. \A j \in 1..Len(streams[d]) : streams[d][j] \in 1..lastToken
      BY <2>1, ElementOfSeq
    <3> QED BY <2>1, <3>1
  <2>3. /\ SubSeq(streams[d], 1, i - 1) \in Seq(1..lastToken)
        /\ SubSeq(streams[d], i + 1, Len(streams[d])) \in Seq(1..lastToken)
    BY <2>1, <2>2, SubSeqProperties
  <2>4. streams' \in [Device -> Seq(1..lastToken')]
    BY <1>1, <2>3, ConcatProperties DEF StreamLost, sessionVars
  <2> QED BY <1>1, <2>4
          DEF StreamLost, PairingTypeOK, SessionsTypeOK, deviceVars, pairingVars, sessionVars, historyVars
<1>2. ASSUME SweepTimer
      PROVE  TypeOK'
  <2>1. PairingTypeOK'
    BY <1>2, DeleteType DEF SweepTimer, Sweep
  <2> QED BY <1>2, <2>1 DEF SweepTimer, Sweep, SessionsTypeOK, sessionVars, historyVars
<1>3. ASSUME Restart
      PROVE  TypeOK'
  <2>1. PairingTypeOK' /\ lastRequest' = lastRequest
    BY <1>3, RestartType DEF Restart, ForgetRequests
  <2>2. SessionsTypeOK' /\ lastToken' = lastToken
    BY <1>3, EmptyMapIsMap DEF Restart, ForgetSessions, SessionsTypeOK
  <2>3. <<>> \in Seq(1..lastToken) /\ <<>> \in Seq(Nat)
    BY EmptySeq
  <2> QED BY <1>3, <2>1, <2>2, <2>3 DEF Restart, historyVars
<1>4. ASSUME TimePasses
      PROVE  TypeOK'
  BY <1>4 DEF TimePasses, Tick, PairingTypeOK, SessionsTypeOK, deviceVars, pairingVars, sessionVars, historyVars
<1> QED BY <1>1, <1>2, <1>3, <1>4 DEF Environment

\* The access state of the laptop stays well typed, for any number of phones,
\* requests and tokens and every setting of the limits.
THEOREM TypeCorrect == Spec => []TypeOK
<1>1. Init => TypeOK
  <2> SUFFICES ASSUME Init PROVE TypeOK
    OBVIOUS
  <2>1. <<>> \in Seq(1..lastToken) /\ <<>> \in Seq(Nat)
    BY EmptySeq
  <2>2. PairingTypeOK
    BY <2>1, EmptyMapIsMap DEF Init, PairingInit, PairingTypeOK
  <2>3. SessionsTypeOK
    BY EmptyMapIsMap DEF Init, SessionsInit, SessionsTypeOK
  <2> QED BY <2>1, <2>2, <2>3, EmptyMapIsMap DEF Init
<1>2. TypeOK /\ [Next]_vars => TypeOK'
  <2>1. TypeOK /\ UNCHANGED vars => TypeOK'
    BY DEF vars, PairingTypeOK, SessionsTypeOK
  <2> QED BY <2>1, PairingCallType, SessionCallType, UserActionType, EnvironmentType DEF Next
<1> QED BY <1>1, <1>2, PTL DEF Spec

---------------------------------------------------------------------------------
(* Sessions: the two indexes agree, and streams belong to the session they find. *)

SessionsAgree == OneSessionPerPhone /\ StreamsBelongToSession

\* Ending sessions that exist, with the listener that closes streams, keeps both indexes
\* and the streams in agreement.
LEMMA EndAgrees ==
  ASSUME TypeOK, SessionsAgree, NEW T \in SUBSET DOMAIN byToken, End(T)
  PROVE  SessionsAgree'
<1>1. /\ DOMAIN byToken' = DOMAIN byToken \ T
      /\ \A t \in DOMAIN byToken \ T : byToken'[t] = byToken[t]
  BY WithoutProperties DEF End, EndSessions, SessionsTypeOK
<1>2. /\ DOMAIN byDevice' = {d \in DOMAIN byDevice : byDevice[d] \notin T}
      /\ \A d \in DOMAIN byDevice' : byDevice'[d] = byDevice[d]
  <2> DEFINE S == {d \in DOMAIN byDevice : byDevice[d] \in T}
  <2>1. byDevice' = Without(byDevice, S)
    BY DEF End, EndSessions
  <2>2. DOMAIN byDevice' = DOMAIN byDevice \ S /\ \A d \in DOMAIN byDevice \ S : byDevice'[d] = byDevice[d]
    BY <2>1, WithoutProperties DEF SessionsTypeOK
  <2> QED BY <2>2
<1>3. OneSessionPerPhone'
  BY <1>1, <1>2 DEF SessionsAgree, OneSessionPerPhone, SessionOf
<1>4. StreamsBelongToSession'
  <2> SUFFICES ASSUME NEW d \in Device, NEW i \in 1..Len(streams'[d])
               PROVE  streams'[d][i] \in SessionOf(d)'
    BY DEF StreamsBelongToSession
  <2>1. streams' = [e \in Device |-> IF e \in DevicesOf(T) THEN <<>> ELSE streams[e]]
    BY DEF End, CloseStreams
  <2>2. d \notin DevicesOf(T) /\ streams'[d] = streams[d]
    <3>1. d \in DevicesOf(T) => Len(streams'[d]) = 0
      BY <2>1, EmptySeq
    <3> QED BY <2>1, <3>1
  <2>3. streams[d][i] \in SessionOf(d)
    BY <2>2 DEF SessionsAgree, StreamsBelongToSession
  <2>4. d \in DOMAIN byDevice /\ streams[d][i] = byDevice[d] /\ byDevice[d] \notin T
    BY <2>2, <2>3 DEF SessionsAgree, OneSessionPerPhone, SessionOf, DevicesOf
  <2> QED BY <1>2, <2>2, <2>4 DEF SessionOf
<1> QED BY <1>3, <1>4 DEF SessionsAgree

\* byDevice finds only sessions that byToken holds.
LEMMA SessionOfIsLive ==
  ASSUME TypeOK, SessionsAgree, NEW d
  PROVE  SessionOf(d) \in SUBSET DOMAIN byToken
BY DEF SessionsAgree, OneSessionPerPhone, SessionOf

\* Using a session changes neither whose it is nor which streams belong to it.
LEMMA UseAgrees ==
  ASSUME TypeOK, SessionsAgree, NEW t \in DOMAIN byToken, UseSession(t)
  PROVE  /\ OneSessionPerPhone'
         /\ \A d : SessionOf(d)' = SessionOf(d)
         /\ DOMAIN byToken' = DOMAIN byToken
         /\ \A u \in DOMAIN byToken : byToken'[u].device = byToken[u].device
<1>1. /\ DOMAIN byToken' = DOMAIN byToken
      /\ \A u \in DOMAIN byToken : byToken'[u].device = byToken[u].device
  BY DEF UseSession, SessionsTypeOK, IsMap, Session
<1>2. byDevice' = byDevice
  BY DEF UseSession
<1> QED BY <1>1, <1>2 DEF SessionsAgree, OneSessionPerPhone, SessionOf

\* A step that touches neither sessions nor streams.
LEMMA UnchangedAgrees ==
  ASSUME SessionsAgree, UNCHANGED <<sessionVars, streams>>
  PROVE  SessionsAgree'
BY DEF SessionsAgree, OneSessionPerPhone, StreamsBelongToSession, SessionOf, sessionVars

\* connect replaces the phone's session in both indexes and closes its streams; every
\* other session is left alone.
LEMMA ConnectAgrees ==
  ASSUME TypeOK, SessionsAgree, NEW d \in Device, NEW s, NEW ip, Connect(d, s, ip)
  PROVE  /\ SessionsAgree'
         /\ lastToken' = lastToken + 1
         /\ DOMAIN byToken' = (DOMAIN byToken \ SessionOf(d)) \cup {lastToken'}
         /\ byToken'[lastToken'].device = d
         /\ \A t \in DOMAIN byToken \ SessionOf(d) : byToken'[t] = byToken[t]
<1> DEFINE new == [device |-> d, createdAt |-> now, lastUsed |-> now]
           rest == Without(byToken, SessionOf(d))
<1>1. lastToken' = lastToken + 1 /\ lastToken' \notin DOMAIN byToken /\ byToken' = With(rest, lastToken', new)
  BY DEF Connect, CreateSession, SessionsTypeOK, IsMap
<1>2. DOMAIN rest = DOMAIN byToken \ SessionOf(d) /\ \A t \in DOMAIN rest : rest[t] = byToken[t]
  BY WithoutProperties DEF SessionsTypeOK
<1> HIDE DEF rest
<1>3. /\ DOMAIN byToken' = DOMAIN rest \cup {lastToken'}
      /\ byToken'[lastToken'] = new
      /\ \A t \in DOMAIN rest : byToken'[t] = byToken[t]
  BY <1>1, <1>2 DEF With
<1>4. /\ DOMAIN byDevice' = DOMAIN byDevice \cup {d}
      /\ byDevice'[d] = lastToken'
      /\ \A e \in DOMAIN byDevice : e # d => byDevice'[e] = byDevice[e]
  BY DEF Connect, CreateSession, With
<1>5. OneSessionPerPhone'
  <2>1. \A e \in DOMAIN byDevice' : byDevice'[e] \in DOMAIN byToken' /\ byToken'[byDevice'[e]].device = e
    <3> SUFFICES ASSUME NEW e \in DOMAIN byDevice'
                 PROVE  byDevice'[e] \in DOMAIN byToken' /\ byToken'[byDevice'[e]].device = e
      OBVIOUS
    <3>1. CASE e = d
      BY <1>3, <1>4, <3>1
    <3>2. CASE e # d
      <4>1. e \in DOMAIN byDevice /\ byDevice'[e] = byDevice[e]
        BY <1>4, <3>2
      <4>2. byDevice[e] \in DOMAIN byToken /\ byToken[byDevice[e]].device = e
        BY <4>1 DEF SessionsAgree, OneSessionPerPhone
      <4>3. byDevice[e] \notin SessionOf(d)
        BY <3>2, <4>2 DEF SessionsAgree, OneSessionPerPhone, SessionOf
      <4> QED BY <1>2, <1>3, <4>1, <4>2, <4>3
    <3> QED BY <3>1, <3>2
  <2>2. \A t \in DOMAIN byToken' : /\ byToken'[t].device \in DOMAIN byDevice'
                                    /\ byDevice'[byToken'[t].device] = t
    <3> SUFFICES ASSUME NEW t \in DOMAIN byToken'
                 PROVE  /\ byToken'[t].device \in DOMAIN byDevice'
                        /\ byDevice'[byToken'[t].device] = t
      OBVIOUS
    <3>1. CASE t = lastToken'
      BY <1>3, <1>4, <3>1
    <3>2. CASE t # lastToken'
      <4>1. t \in DOMAIN byToken /\ t \notin SessionOf(d) /\ byToken'[t] = byToken[t]
        BY <1>2, <1>3, <3>2
      <4>2. t \in SessionOf(byToken[t].device)
        BY <4>1 DEF SessionsAgree, OneSessionPerPhone
      <4>3. byToken[t].device # d /\ byToken[t].device \in DOMAIN byDevice /\ byDevice[byToken[t].device] = t
        BY <4>1, <4>2 DEF SessionOf
      <4> QED BY <1>4, <4>1, <4>3
    <3> QED BY <3>1, <3>2
  <2> QED BY <2>1, <2>2 DEF OneSessionPerPhone, SessionOf
<1>6. StreamsBelongToSession'
  <2> SUFFICES ASSUME NEW e \in Device, NEW i \in 1..Len(streams'[e])
               PROVE  e \in DOMAIN byDevice' /\ streams'[e][i] = byDevice'[e]
    BY DEF StreamsBelongToSession, SessionOf
  <2>1. streams' = [f \in Device |-> IF f \in DevicesOf(SessionOf(d)) THEN <<>> ELSE streams[f]]
    BY DEF Connect, CloseStreams
  <2>2. e \notin DevicesOf(SessionOf(d)) /\ streams'[e] = streams[e]
    <3>1. e \in DevicesOf(SessionOf(d)) => Len(streams'[e]) = 0
      BY <2>1, EmptySeq
    <3> QED BY <2>1, <3>1
  <2>3. e \in DOMAIN byDevice /\ streams[e][i] = byDevice[e]
    BY <2>2 DEF SessionsAgree, StreamsBelongToSession, SessionOf
  <2>4. e # d
    BY <2>2, <2>3 DEF SessionsAgree, OneSessionPerPhone, DevicesOf, SessionOf
  <2> QED BY <1>4, <2>2, <2>3, <2>4
<1> QED BY <1>1, <1>2, <1>3, <1>5, <1>6 DEF SessionsAgree

\* A new stream is the caller's present session's; dropping the oldest ones keeps the rest.
LEMMA OpenEventsAgrees ==
  ASSUME TypeOK, SessionsAgree, NEW t, NEW ip, OpenEvents(t, ip)
  PROVE  SessionsAgree'
<1> DEFINE d == byToken[t].device
           kept == IF Len(streams[d]) < MaxStreams THEN streams[d]
                   ELSE SubSeq(streams[d], Len(streams[d]) - MaxStreams + 2, Len(streams[d]))
<1>1. t \in DOMAIN byToken /\ d \in Device /\ t \in SessionOf(d)
  BY DEF OpenEvents, Accepted, Live, SessionsTypeOK, IsMap, Session, SessionsAgree, OneSessionPerPhone
<1>2. OneSessionPerPhone' /\ \A e : SessionOf(e)' = SessionOf(e)
  BY <1>1, UseAgrees DEF OpenEvents
<1>3. streams[d] \in Seq(SessionOf(d)) /\ Len(streams[d]) \in Nat
  <2>1. streams[d] \in Seq(1..lastToken)
    BY <1>1
  <2>2. Len(streams[d]) \in Nat /\ streams[d] = [i \in 1..Len(streams[d]) |-> streams[d][i]]
    BY <2>1, LenProperties
  <2>3. \A i \in 1..Len(streams[d]) : streams[d][i] \in SessionOf(d)
    BY <1>1 DEF SessionsAgree, StreamsBelongToSession
  <2>4. SubSeq(streams[d], 1, Len(streams[d])) \in Seq(SessionOf(d))
    BY <2>2, <2>3, SubSeqProperties
  <2> QED BY <2>1, <2>2, <2>4, SubSeqFull
<1>4. kept \in Seq(SessionOf(d))
  <2>1. CASE ~ Len(streams[d]) < MaxStreams
    <3> DEFINE m == Len(streams[d]) - MaxStreams + 2
    <3>1. m \in Nat \ {0} /\ kept = SubSeq(streams[d], m, Len(streams[d]))
      BY <1>3, <2>1, AccessAssumption
    <3> HIDE DEF m, kept
    <3>2. \A i \in m..Len(streams[d]) : streams[d][i] \in SessionOf(d)
      <4> SUFFICES ASSUME NEW i \in m..Len(streams[d]) PROVE streams[d][i] \in SessionOf(d)
        OBVIOUS
      <4>1. i \in 1..Len(streams[d])
        BY <1>3, <3>1
      <4> QED BY <1>3, <4>1, ElementOfSeq
    <3> QED BY <1>3, <3>1, <3>2, SubSeqProperties
  <2> QED BY <1>3, <2>1
<1>5. streams' = [streams EXCEPT ![d] = Append(kept, t)]
  BY DEF OpenEvents
<1> HIDE DEF kept
<1>6. /\ Append(kept, t) \in Seq(SessionOf(d))
      /\ \A i \in 1..Len(Append(kept, t)) : Append(kept, t)[i] \in SessionOf(d)
  BY <1>1, <1>4, AppendProperties, ElementOfSeq
<1>7. \A e \in Device : \A i \in 1..Len(streams'[e]) : streams'[e][i] \in SessionOf(e)
  <2> SUFFICES ASSUME NEW e \in Device, NEW i \in 1..Len(streams'[e])
               PROVE  streams'[e][i] \in SessionOf(e)
    OBVIOUS
  <2>1. CASE e = d
    BY <1>1, <1>5, <1>6, <2>1
  <2>2. CASE e # d
    BY <1>1, <1>5, <2>2 DEF SessionsAgree, StreamsBelongToSession
  <2> QED BY <2>1, <2>2
<1> QED BY <1>2, <1>7 DEF SessionsAgree, StreamsBelongToSession

\* Losing a stream leaves the others with their sessions.
LEMMA StreamLostAgrees ==
  ASSUME TypeOK, SessionsAgree, NEW d \in Device, NEW i, StreamLost(d, i)
  PROVE  SessionsAgree'
<1> DEFINE left == SubSeq(streams[d], 1, i - 1)
           right == SubSeq(streams[d], i + 1, Len(streams[d]))
<1>1. streams[d] \in Seq(1..lastToken) /\ Len(streams[d]) \in Nat /\ i \in 1..Len(streams[d])
  BY LenProperties DEF StreamLost
<1>2. /\ \A j \in 1..(i - 1) : streams[d][j] \in SessionOf(d)
      /\ \A j \in (i + 1)..Len(streams[d]) : streams[d][j] \in SessionOf(d)
  <2>1. \A j \in 1..Len(streams[d]) : streams[d][j] \in SessionOf(d)
    BY DEF SessionsAgree, StreamsBelongToSession
  <2> QED BY <1>1, <2>1
<1>3. left \in Seq(SessionOf(d)) /\ right \in Seq(SessionOf(d))
  BY <1>1, <1>2, SubSeqProperties
<1>4. streams' = [streams EXCEPT ![d] = left \o right] /\ UNCHANGED sessionVars
  BY DEF StreamLost
<1> HIDE DEF left, right
<1>5. left \o right \in Seq(SessionOf(d))
  BY <1>3, ConcatProperties
<1>6. \A j \in 1..Len(left \o right) : (left \o right)[j] \in SessionOf(d)
  BY <1>5, ElementOfSeq
<1>7. \A e \in Device : \A j \in 1..Len(streams'[e]) : streams'[e][j] \in SessionOf(e)
  BY <1>4, <1>6 DEF SessionsAgree, StreamsBelongToSession
<1> QED BY <1>4, <1>7 DEF SessionsAgree, OneSessionPerPhone, StreamsBelongToSession, SessionOf, sessionVars

\* A new process has no sessions and no streams.
LEMMA RestartAgrees ==
  ASSUME Restart
  PROVE  SessionsAgree'
<1>1. DOMAIN byToken' = {} /\ DOMAIN byDevice' = {}
  BY DEF Restart, ForgetSessions, EmptyMap
<1>2. \A d \in Device : Len(streams'[d]) = 0
  BY EmptySeq DEF Restart
<1> QED BY <1>1, <1>2 DEF SessionsAgree, OneSessionPerPhone, StreamsBelongToSession, SessionOf

\* The steps of the laptop, sorted by what they do to sessions and streams.
LEMMA NextAgrees ==
  ASSUME TypeOK, SessionsAgree, [Next]_vars
  PROVE  SessionsAgree'
<1>1. CASE UNCHANGED vars
  BY <1>1, UnchangedAgrees DEF vars, sessionVars
<1>2. CASE PairingCall
  BY <1>2, UnchangedAgrees DEF PairingCall, PairRequest, PairReveal, PairStatus
<1>3. ASSUME NEW ip \in Ip, NEW d \in Device, NEW s \in known[d],
             Connect(d, s, ip) \/ RefuseSecret(d, s, ip)
      PROVE  SessionsAgree'
  BY <1>3, ConnectAgrees, UnchangedAgrees DEF RefuseSecret
<1>4. ASSUME NEW ip \in Ip, NEW t \in Token, RefuseToken(t, ip)
      PROVE  SessionsAgree'
  BY <1>4, EndAgrees DEF RefuseToken
<1>5. ASSUME NEW ip \in Ip, NEW t \in Token, Disconnect(t, ip)
      PROVE  SessionsAgree'
  <2>1. {t} \in SUBSET DOMAIN byToken
    BY <1>5 DEF Disconnect, Accepted, Live
  <2> QED BY <1>5, <2>1, EndAgrees DEF Disconnect
<1>6. ASSUME NEW ip \in Ip, NEW t \in Token, ForgetSelf(t, ip)
      PROVE  SessionsAgree'
  <2>1. CASE End(SessionOf(byToken[t].device))
    BY <2>1, EndAgrees, SessionOfIsLive
  <2>2. CASE UseSession(t) /\ UNCHANGED streams
    <3>1. t \in DOMAIN byToken
      BY <1>6 DEF ForgetSelf, Accepted, Live
    <3>2. OneSessionPerPhone' /\ \A d : SessionOf(d)' = SessionOf(d)
      BY <2>2, <3>1, UseAgrees
    <3> QED BY <2>2, <3>2 DEF SessionsAgree, StreamsBelongToSession
  <2> QED BY <1>6, <2>1, <2>2 DEF ForgetSelf
<1>7. ASSUME NEW ip \in Ip, NEW t \in Token, OpenEvents(t, ip)
      PROVE  SessionsAgree'
  BY <1>7, OpenEventsAgrees
<1>8. ASSUME NEW ip \in Ip, NEW t \in Token, CallWithSession(t, ip)
      PROVE  SessionsAgree'
  <2>1. t \in DOMAIN byToken /\ UseSession(t) /\ UNCHANGED streams
    BY <1>8 DEF CallWithSession, Accepted, Live
  <2>2. OneSessionPerPhone' /\ \A d : SessionOf(d)' = SessionOf(d)
    BY <2>1, UseAgrees
  <2> QED BY <2>1, <2>2 DEF SessionsAgree, StreamsBelongToSession
<1>9. CASE UserAction
  <2>1. ASSUME NEW d, End(SessionOf(d)) \/ UNCHANGED <<sessionVars, streams>>
        PROVE  SessionsAgree'
    BY <2>1, EndAgrees, SessionOfIsLive, UnchangedAgrees
  <2>2. CASE \E r \in DOMAIN requests : ApprovePairing(r)
    BY <2>1, <2>2 DEF ApprovePairing
  <2>3. CASE \E r \in DOMAIN requests : DenyPairing(r)
    BY <2>3, UnchangedAgrees DEF DenyPairing
  <2>4. CASE \E d \in Device : Revoke(d)
    BY <2>1, <2>4 DEF Revoke
  <2>5. CASE ReadState
    BY <2>5, EndAgrees DEF ReadState, SessionsAgree, OneSessionPerPhone
  <2> QED BY <1>9, <2>2, <2>3, <2>4, <2>5 DEF UserAction
<1>10. CASE Environment
  BY <1>10, StreamLostAgrees, RestartAgrees, UnchangedAgrees DEF Environment, SweepTimer, TimePasses
<1> QED BY <1>1, <1>2, <1>3, <1>4, <1>5, <1>6, <1>7, <1>8, <1>9, <1>10 DEF Next, SessionCall

\* A phone never has two sessions, and no stream outlives the session it belongs to:
\* connects, replacements, expiries, revokes, re-pairs, failed writes and restarts
\* may come in any order.
THEOREM SessionsAlwaysAgree == Spec => [](OneSessionPerPhone /\ StreamsBelongToSession)
<1>1. Init => SessionsAgree
  <2> SUFFICES ASSUME Init PROVE SessionsAgree
    OBVIOUS
  <2>1. DOMAIN byToken = {} /\ DOMAIN byDevice = {}
    BY DEF Init, SessionsInit, EmptyMap
  <2>2. \A d \in Device : Len(streams[d]) = 0
    BY EmptySeq DEF Init
  <2> QED BY <2>1, <2>2 DEF SessionsAgree, OneSessionPerPhone, StreamsBelongToSession
<1>2. TypeOK /\ SessionsAgree /\ [Next]_vars => SessionsAgree'
  BY NextAgrees
<1>3. SessionsAgree => OneSessionPerPhone /\ StreamsBelongToSession
  BY DEF SessionsAgree
<1> QED BY <1>1, <1>2, <1>3, TypeCorrect, PTL DEF Spec

---------------------------------------------------------------------------------
(* The streams of a phone stay few.                                              *)

\* A step that closes streams, or leaves them alone, keeps them few.
LEMMA FewerWithinLimit ==
  ASSUME TypeOK, StreamsWithinLimit,
         \/ streams' = streams
         \/ \E tokens : CloseStreams(DevicesOf(tokens))
         \/ streams' = [d \in Device |-> <<>>]
  PROVE  StreamsWithinLimit'
<1> SUFFICES ASSUME NEW d \in Device PROVE Len(streams'[d]) <= MaxStreams
  BY DEF StreamsWithinLimit
<1>1. streams'[d] = streams[d] \/ streams'[d] = <<>>
  BY DEF CloseStreams
<1>2. Len(streams[d]) <= MaxStreams
  BY DEF StreamsWithinLimit
<1>3. CASE streams'[d] = <<>>
  <2>1. Len(streams'[d]) = 0
    BY <1>3, EmptySeq
  <2> QED BY <2>1, AccessAssumption
<1> QED BY <1>1, <1>2, <1>3

\* The oldest streams make room for the new one.
LEMMA OpenEventsWithinLimit ==
  ASSUME TypeOK, StreamsWithinLimit, NEW t, NEW ip, OpenEvents(t, ip)
  PROVE  StreamsWithinLimit'
<1> DEFINE d == byToken[t].device
           n == Len(streams[d])
           m == n - MaxStreams + 2
           kept == IF n < MaxStreams THEN streams[d] ELSE SubSeq(streams[d], m, n)
<1>1. t \in DOMAIN byToken /\ d \in Device /\ t \in 1..lastToken
  BY DEF OpenEvents, Accepted, Live, TypeOK, SessionsTypeOK, IsMap, Session
<1>2. streams[d] \in Seq(1..lastToken) /\ n \in Nat /\ n <= MaxStreams
  BY <1>1, LenProperties DEF TypeOK, StreamsWithinLimit
<1>3. streams' = [streams EXCEPT ![d] = Append(kept, t)]
  BY DEF OpenEvents
<1>4. kept \in Seq(1..lastToken) /\ Len(kept) \in Nat /\ Len(kept) <= MaxStreams - 1
  <2>1. CASE n < MaxStreams
    <3>1. kept = streams[d]
      BY <2>1
    <3> HIDE DEF kept
    <3> QED BY <1>2, <2>1, <3>1, AccessAssumption
  <2>2. CASE ~ n < MaxStreams
    <3>1. kept = SubSeq(streams[d], m, n)
      BY <2>2
    <3>2. n = MaxStreams /\ m \in Int /\ m = 2
      BY <1>2, <2>2, AccessAssumption
    <3> HIDE DEF kept, m, n
    <3>3. \A i \in m..n : streams[d][i] \in 1..lastToken
      <4> SUFFICES ASSUME NEW i \in m..n PROVE streams[d][i] \in 1..lastToken
        OBVIOUS
      <4>1. i \in 1..Len(streams[d])
        BY <1>2, <3>2 DEF n
      <4> QED BY <1>2, <4>1, ElementOfSeq
    <3>4. kept \in Seq(1..lastToken) /\ Len(kept) = IF m <= n THEN n - m + 1 ELSE 0
      BY <1>2, <3>1, <3>2, <3>3, SubSeqProperties
    <3> QED BY <1>2, <3>2, <3>4, AccessAssumption
  <2> QED BY <2>1, <2>2
<1> HIDE DEF kept
<1>5. Len(Append(kept, t)) <= MaxStreams
  <2>1. Len(Append(kept, t)) = Len(kept) + 1
    BY <1>1, <1>4, AppendProperties
  <2> QED BY <1>4, <2>1, AccessAssumption
<1>6. streams \in [Device -> Seq(1..lastToken)]
  BY DEF TypeOK
<1> SUFFICES ASSUME NEW e \in Device PROVE Len(streams'[e]) <= MaxStreams
  BY DEF StreamsWithinLimit
<1>7. CASE e = d
  BY <1>1, <1>3, <1>5, <1>6, <1>7
<1>8. CASE e # d
  BY <1>1, <1>3, <1>6, <1>8 DEF StreamsWithinLimit
<1> QED BY <1>7, <1>8

\* A lost stream makes the list shorter.
LEMMA StreamLostWithinLimit ==
  ASSUME TypeOK, StreamsWithinLimit, NEW d \in Device, NEW i, StreamLost(d, i)
  PROVE  StreamsWithinLimit'
<1> DEFINE n == Len(streams[d])
           left == SubSeq(streams[d], 1, i - 1)
           right == SubSeq(streams[d], i + 1, n)
<1>1. streams[d] \in Seq(1..lastToken) /\ n \in Nat /\ n <= MaxStreams /\ i \in 1..n
  BY LenProperties DEF StreamLost, TypeOK, StreamsWithinLimit
<1>2. \A j \in 1..n : streams[d][j] \in 1..lastToken
  BY <1>1, ElementOfSeq
<1>3. streams' = [streams EXCEPT ![d] = left \o right]
  BY DEF StreamLost
<1>4. left \in Seq(1..lastToken) /\ Len(left) = i - 1
  BY <1>1, <1>2, SubSeqProperties
<1>5. right \in Seq(1..lastToken) /\ Len(right) = n - i
  BY <1>1, <1>2, SubSeqProperties
<1> HIDE DEF left, right
<1>6. Len(left \o right) = Len(left) + Len(right)
  BY <1>4, <1>5, ConcatProperties
<1>7. Len(left \o right) <= MaxStreams
  BY <1>1, <1>4, <1>5, <1>6, AccessAssumption
<1>8. streams \in [Device -> Seq(1..lastToken)]
  BY DEF TypeOK
<1> SUFFICES ASSUME NEW e \in Device PROVE Len(streams'[e]) <= MaxStreams
  BY DEF StreamsWithinLimit
<1>9. CASE e = d
  BY <1>3, <1>7, <1>8, <1>9
<1>10. CASE e # d
  BY <1>3, <1>8, <1>10 DEF StreamsWithinLimit
<1> QED BY <1>9, <1>10

\* The steps of the laptop, sorted by what they do to streams.
LEMMA NextWithinLimit ==
  ASSUME TypeOK, StreamsWithinLimit, [Next]_vars
  PROVE  StreamsWithinLimit'
<1>1. CASE UNCHANGED vars
  BY <1>1, FewerWithinLimit DEF vars
<1>2. CASE PairingCall
  BY <1>2, FewerWithinLimit DEF PairingCall, PairRequest, PairReveal, PairStatus
<1>3. CASE SessionCall
  <2>1. ASSUME NEW ip \in Ip, NEW d \in Device, NEW s \in known[d],
               Connect(d, s, ip) \/ RefuseSecret(d, s, ip)
        PROVE  StreamsWithinLimit'
    BY <2>1, FewerWithinLimit DEF Connect, RefuseSecret
  <2>2. ASSUME NEW ip \in Ip, NEW t \in Token, OpenEvents(t, ip)
        PROVE  StreamsWithinLimit'
    BY <2>2, OpenEventsWithinLimit
  <2>3. ASSUME NEW ip \in Ip, NEW t \in Token,
               \/ RefuseToken(t, ip) \/ Disconnect(t, ip)
               \/ ForgetSelf(t, ip) \/ CallWithSession(t, ip)
        PROVE  StreamsWithinLimit'
    BY <2>3, FewerWithinLimit DEF RefuseToken, Disconnect, ForgetSelf, CallWithSession, End
  <2> QED BY <1>3, <2>1, <2>2, <2>3 DEF SessionCall
<1>4. CASE UserAction
  BY <1>4, FewerWithinLimit DEF UserAction, ApprovePairing, DenyPairing, Revoke, ReadState, End
<1>5. CASE Environment
  BY <1>5, FewerWithinLimit, StreamLostWithinLimit
     DEF Environment, SweepTimer, Restart, TimePasses
<1> QED BY <1>1, <1>2, <1>3, <1>4, <1>5 DEF Next

\* However often a phone reconnects, and whatever ends its sessions meanwhile, its open
\* streams are at most MaxStreams, and all of its present session.
THEOREM StreamsAlwaysAgree == Spec => []StreamsAgree
<1>1. Init => StreamsWithinLimit
  <2> SUFFICES ASSUME Init, NEW d \in Device PROVE Len(streams[d]) <= MaxStreams
    BY DEF StreamsWithinLimit
  <2>1. Len(streams[d]) = 0
    BY EmptySeq DEF Init
  <2> QED BY <2>1, AccessAssumption
<1>2. TypeOK /\ StreamsWithinLimit /\ [Next]_vars => StreamsWithinLimit'
  BY NextWithinLimit
<1>3. TypeOK /\ OneSessionPerPhone /\ StreamsBelongToSession /\ StreamsWithinLimit => StreamsAgree
  BY DEF StreamsAgree
<1> QED BY <1>1, <1>2, <1>3, TypeCorrect, SessionsAlwaysAgree, PTL DEF Spec

---------------------------------------------------------------------------------
(* Trust, when devices.json can be written.  That every token in use is in the   *)
(* history of secrets makes SessionsAreTrusted inductive.                        *)

Trust == SessionsAreTrusted /\ DOMAIN byToken \subseteq DOMAIN openedWith

\* Sessions that remain, of phones whose pairing stands, stay trusted.
LEMMA RemainingTrusted ==
  ASSUME Trust, openedWith' = openedWith,
         \A t \in DOMAIN byToken' :
            /\ t \in DOMAIN byToken
            /\ byToken'[t].device = byToken[t].device
            /\ byToken[t].device \in DOMAIN devices'
            /\ devices'[byToken[t].device] = devices[byToken[t].device]
  PROVE  Trust'
BY DEF Trust, SessionsAreTrusted, Has

\* _end: what remains is the other sessions, as they were.
LEMMA EndedTokens ==
  ASSUME TypeOK, NEW T, End(T)
  PROVE  \A t \in DOMAIN byToken' : t \in DOMAIN byToken \ T /\ byToken'[t] = byToken[t]
<1>1. byToken' = Without(byToken, T) /\ IsMap(byToken, 1..lastToken, Session)
  BY DEF End, EndSessions, SessionsTypeOK, TypeOK
<1>2. /\ DOMAIN Without(byToken, T) = DOMAIN byToken \ T
      /\ \A t \in DOMAIN byToken \ T : Without(byToken, T)[t] = byToken[t]
  BY <1>1, WithoutProperties
<1> QED BY <1>1, <1>2

\* Ending a phone's session leaves only sessions of other phones.
LEMMA OtherPhonesRemain ==
  ASSUME TypeOK, SessionsAgree, NEW d, End(SessionOf(d))
  PROVE  \A t \in DOMAIN byToken' : /\ t \in DOMAIN byToken
                                    /\ byToken'[t] = byToken[t]
                                    /\ byToken[t].device # d
BY EndedTokens DEF SessionsAgree, OneSessionPerPhone

\* A session that ends while no pairing changes.
LEMMA EndKeepsTrust ==
  ASSUME TypeOK, Trust, NEW T, End(T), UNCHANGED <<deviceVars, historyVars>>
  PROVE  Trust'
BY EndedTokens, RemainingTrusted DEF Trust, SessionsAreTrusted, Has, deviceVars, historyVars

\* A session that is used while no pairing changes.
LEMMA UseKeepsTrust ==
  ASSUME TypeOK, SessionsAgree, Trust, NEW t \in DOMAIN byToken, UseSession(t),
         UNCHANGED <<deviceVars, historyVars>>
  PROVE  Trust'
BY UseAgrees, RemainingTrusted DEF Trust, SessionsAreTrusted, Has, deviceVars, historyVars

\* A step that touches neither pairings nor sessions.
LEMMA UnchangedKeepsTrust ==
  ASSUME Trust, UNCHANGED <<deviceVars, sessionVars, openedWith>>
  PROVE  Trust'
BY DEF Trust, SessionsAreTrusted, Has, deviceVars, sessionVars

\* A phone is removed together with its session.
LEMMA RemoveKeepsTrust ==
  ASSUME TypeOK, SessionsAgree, Trust, NEW d, NEW saved, RemoveDevice(d, saved),
         End(SessionOf(d)), UNCHANGED historyVars
  PROVE  Trust'
<1>1. \A t \in DOMAIN byToken' : t \in DOMAIN byToken /\ byToken'[t] = byToken[t] /\ byToken[t].device # d
  BY OtherPhonesRemain
<1>2. \A e \in DOMAIN devices \ {d} : e \in DOMAIN devices' /\ devices'[e] = devices[e]
  <2>1. CASE Has(d)
    <3>1. devices' = Without(devices, {d})
      BY <2>1 DEF RemoveDevice
    <3> QED BY <3>1 DEF Without, Restrict
  <2>2. CASE ~Has(d)
    BY <2>2 DEF RemoveDevice, deviceVars
  <2> QED BY <2>1, <2>2
<1>3. \A t \in DOMAIN byToken' : byToken[t].device \in DOMAIN devices \ {d}
  BY <1>1 DEF Trust, SessionsAreTrusted, Has
<1> QED BY <1>1, <1>2, <1>3, RemainingTrusted DEF historyVars

\* When the store can write, a removal has been written.
LEMMA RemovalIsSaved ==
  ASSUME ~DiskMayFail, NEW d, NEW saved, RemoveDevice(d, saved)
  PROVE  saved = TRUE
BY DEF RemoveDevice, Save

\* Connecting opens a session with the secret that is current.
LEMMA ConnectKeepsTrust ==
  ASSUME TypeOK, SessionsAgree, Trust, NEW d \in Device, NEW s, NEW ip, Connect(d, s, ip)
  PROVE  Trust'
<1>1. /\ lastToken' = lastToken + 1
      /\ DOMAIN byToken' = (DOMAIN byToken \ SessionOf(d)) \cup {lastToken'}
      /\ byToken'[lastToken'].device = d
      /\ \A t \in DOMAIN byToken \ SessionOf(d) : byToken'[t] = byToken[t]
  BY ConnectAgrees
<1>2. lastToken' \notin DOMAIN byToken
  BY <1>1 DEF TypeOK, SessionsTypeOK, IsMap
<1>3. /\ DOMAIN openedWith' = DOMAIN openedWith \cup {lastToken'}
      /\ openedWith'[lastToken'] = s
      /\ \A t \in DOMAIN openedWith : t # lastToken' => openedWith'[t] = openedWith[t]
  BY DEF Connect, With
<1>4. devices' = devices /\ Has(d) /\ devices[d] = s
  BY DEF Connect, deviceVars
<1>5. \A t \in DOMAIN byToken' :
         byToken'[t].device \in DOMAIN devices' /\ openedWith'[t] = devices'[byToken'[t].device]
  <2> SUFFICES ASSUME NEW t \in DOMAIN byToken'
               PROVE  byToken'[t].device \in DOMAIN devices' /\ openedWith'[t] = devices'[byToken'[t].device]
    OBVIOUS
  <2>1. CASE t = lastToken'
    BY <1>1, <1>3, <1>4, <2>1 DEF Has
  <2>2. CASE t # lastToken'
    <3>1. t \in DOMAIN byToken /\ byToken'[t] = byToken[t]
      BY <1>1, <2>2
    <3>2. openedWith'[t] = openedWith[t]
      BY <1>3, <2>2, <3>1 DEF Trust
    <3> QED BY <1>4, <3>1, <3>2 DEF Trust, SessionsAreTrusted, Has
  <2> QED BY <2>1, <2>2
<1>6. SessionsAreTrusted'
  BY <1>5 DEF SessionsAreTrusted, Has
<1>7. DOMAIN byToken' \subseteq DOMAIN openedWith'
  BY <1>1, <1>3 DEF Trust
<1> QED BY <1>6, <1>7 DEF Trust

\* Approving a pairing makes a new secret current, and ends the session the phone
\* opened with its former one.
LEMMA ApproveKeepsTrust ==
  ASSUME TypeOK, SessionsAgree, Trust, ~DiskMayFail, NEW r, ApprovePairing(r)
  PROVE  Trust'
<1> DEFINE d == requests[r].device
<1>1. PICK saved \in BOOLEAN :
        /\ Approve(r, saved)
        /\ IF saved /\ Has(d) THEN End(SessionOf(d)) ELSE UNCHANGED <<sessionVars, streams>>
  BY DEF ApprovePairing
<1>2. saved = TRUE /\ devices' = With(devices, d, r)
  BY <1>1 DEF Approve, Add, Save
<1>3. \A e \in DOMAIN devices : e # d => e \in DOMAIN devices' /\ devices'[e] = devices[e]
  BY <1>2 DEF With
<1>4. \A t \in DOMAIN byToken' : t \in DOMAIN byToken /\ byToken'[t] = byToken[t] /\ byToken[t].device # d
  <2>1. CASE Has(d)
    BY <1>1, <1>2, <2>1, OtherPhonesRemain
  <2>2. CASE ~Has(d)
    BY <1>1, <2>2 DEF sessionVars, Trust, SessionsAreTrusted
  <2> QED BY <2>1, <2>2
<1>5. \A t \in DOMAIN byToken' : byToken[t].device \in DOMAIN devices
  BY <1>4 DEF Trust, SessionsAreTrusted, Has
<1>6. openedWith' = openedWith
  BY DEF ApprovePairing, historyVars
<1> QED BY <1>3, <1>4, <1>5, <1>6, RemainingTrusted

\* The steps of the laptop, sorted by what they do to pairings and sessions.
LEMMA NextKeepsTrust ==
  ASSUME TypeOK, SessionsAgree, Trust, ~DiskMayFail, [Next]_vars
  PROVE  Trust'
<1>1. CASE UNCHANGED vars
  BY <1>1, UnchangedKeepsTrust DEF vars, deviceVars, sessionVars
<1>2. CASE PairingCall
  BY <1>2, UnchangedKeepsTrust DEF PairingCall, PairRequest, PairReveal, PairStatus, historyVars
<1>3. ASSUME NEW ip \in Ip, NEW d \in Device, NEW s \in known[d],
             Connect(d, s, ip) \/ RefuseSecret(d, s, ip)
      PROVE  Trust'
  BY <1>3, ConnectKeepsTrust, UnchangedKeepsTrust DEF RefuseSecret, historyVars
<1>4. ASSUME NEW ip \in Ip, NEW t \in Token, RefuseToken(t, ip) \/ Disconnect(t, ip)
      PROVE  Trust'
  BY <1>4, EndKeepsTrust DEF RefuseToken, Disconnect
<1>5. ASSUME NEW ip \in Ip, NEW t \in Token, ForgetSelf(t, ip)
      PROVE  Trust'
  <2> DEFINE d == byToken[t].device
  <2>1. PICK saved \in BOOLEAN : RemoveDevice(d, saved) /\ (saved => End(SessionOf(d)))
    BY <1>5 DEF ForgetSelf
  <2>2. End(SessionOf(d)) /\ UNCHANGED historyVars
    BY <1>5, <2>1, RemovalIsSaved DEF ForgetSelf
  <2> QED BY <2>1, <2>2, RemoveKeepsTrust
<1>6. ASSUME NEW ip \in Ip, NEW t \in Token, OpenEvents(t, ip) \/ CallWithSession(t, ip)
      PROVE  Trust'
  BY <1>6, UseKeepsTrust DEF OpenEvents, CallWithSession, Accepted, Live
<1>7. ASSUME NEW d \in Device, Revoke(d)
      PROVE  Trust'
  <2>1. PICK saved \in BOOLEAN : RemoveDevice(d, saved) /\ (saved => End(SessionOf(d)))
    BY <1>7 DEF Revoke
  <2>2. End(SessionOf(d)) /\ UNCHANGED historyVars
    BY <1>7, <2>1, RemovalIsSaved DEF Revoke
  <2> QED BY <2>1, <2>2, RemoveKeepsTrust
<1>8. ASSUME NEW r \in DOMAIN requests, ApprovePairing(r) \/ DenyPairing(r)
      PROVE  Trust'
  BY <1>8, ApproveKeepsTrust, UnchangedKeepsTrust DEF DenyPairing, historyVars
<1>9. CASE ReadState
  BY <1>9, EndKeepsTrust DEF ReadState
<1>10. CASE Environment
  <2>1. CASE Restart
    <3>1. DOMAIN byToken' = {}
      BY <2>1 DEF Restart, ForgetSessions, EmptyMap
    <3> QED BY <3>1 DEF Trust, SessionsAreTrusted
  <2>2. CASE ~Restart
    BY <1>10, <2>2, UnchangedKeepsTrust DEF Environment, StreamLost, SweepTimer, TimePasses, historyVars
  <2> QED BY <2>1, <2>2
<1> QED BY <1>1, <1>2, <1>3, <1>4, <1>5, <1>6, <1>7, <1>8, <1>9, <1>10 DEF Next, SessionCall, UserAction

\* As long as devices.json can be written, every session belongs to a phone that is
\* still paired and was opened with its current secret.
THEOREM TrustHolds == ~DiskMayFail => (Spec => []SessionsAreTrusted)
<1> SUFFICES ASSUME ~DiskMayFail PROVE Spec => []SessionsAreTrusted
  OBVIOUS
<1>1. Init => Trust
  BY DEF Init, SessionsInit, EmptyMap, Trust, SessionsAreTrusted
<1>2. TypeOK /\ SessionsAgree /\ Trust /\ [Next]_vars => Trust'
  BY NextKeepsTrust
<1>3. Trust => SessionsAreTrusted
  BY DEF Trust
<1>4. Spec => []SessionsAgree
  BY SessionsAlwaysAgree, PTL DEF SessionsAgree
<1> QED BY <1>1, <1>2, <1>3, <1>4, TypeCorrect, PTL DEF Spec

---------------------------------------------------------------------------------
(* The absolute lifetime of sessions.                                            *)

\* Sessions that remain as they were, or are used in time, have been used in time.
LEMMA RemainingInTime ==
  ASSUME SessionLifetime,
         \A t \in DOMAIN byToken' :
            \/ t \in DOMAIN byToken /\ byToken'[t] = byToken[t]
            \/ byToken'[t].lastUsed < byToken'[t].createdAt + SessionMax
  PROVE  SessionLifetime'
BY DEF SessionLifetime

\* verify finds only sessions whose absolute deadline has not passed.
LEMMA UseInTime ==
  ASSUME TypeOK, SessionLifetime, NEW t, Live(t), UseSession(t)
  PROVE  SessionLifetime'
<1>1. t \in DOMAIN byToken /\ byToken[t] \in Session /\ now \in Nat
  BY DEF Live, TypeOK, SessionsTypeOK, PairingTypeOK, IsMap
<1>2. now < byToken[t].createdAt + SessionMax
  BY <1>1, SessionsAssumption DEF Live, SessionExpired, Session
<1>3. /\ DOMAIN byToken' = DOMAIN byToken
      /\ \A u \in DOMAIN byToken : u # t => byToken'[u] = byToken[u]
      /\ byToken'[t].lastUsed = now /\ byToken'[t].createdAt = byToken[t].createdAt
  BY <1>1 DEF UseSession, Session
<1> QED BY <1>2, <1>3, RemainingInTime

\* A new session begins before it is over; the others stay.
LEMMA ConnectInTime ==
  ASSUME TypeOK, SessionsAgree, SessionLifetime, NEW d \in Device, NEW s, NEW ip, Connect(d, s, ip)
  PROVE  SessionLifetime'
<1>1. /\ DOMAIN byToken' = (DOMAIN byToken \ SessionOf(d)) \cup {lastToken'}
      /\ \A t \in DOMAIN byToken \ SessionOf(d) : byToken'[t] = byToken[t]
  BY ConnectAgrees
<1>2. byToken'[lastToken'] = [device |-> d, createdAt |-> now, lastUsed |-> now]
  BY DEF Connect, CreateSession, With
<1>3. now < now + SessionMax
  BY SessionsAssumption DEF TypeOK, PairingTypeOK
<1> QED BY <1>1, <1>2, <1>3, RemainingInTime

\* The steps of the laptop, sorted by what they do to sessions.
LEMMA NextInTime ==
  ASSUME TypeOK, SessionsAgree, SessionLifetime, [Next]_vars
  PROVE  SessionLifetime'
<1>0. ASSUME NEW tokens, End(tokens) PROVE SessionLifetime'
  BY <1>0, EndedTokens, RemainingInTime
<1>1. ASSUME UNCHANGED sessionVars PROVE SessionLifetime'
  BY <1>1, RemainingInTime DEF sessionVars
<1>2. CASE UNCHANGED vars
  BY <1>1, <1>2 DEF vars, sessionVars
<1>3. CASE PairingCall
  BY <1>1, <1>3 DEF PairingCall, PairRequest, PairReveal, PairStatus
<1>4. CASE SessionCall
  <2>1. ASSUME NEW ip \in Ip, NEW d \in Device, NEW s \in known[d],
               Connect(d, s, ip) \/ RefuseSecret(d, s, ip)
        PROVE  SessionLifetime'
    BY <1>1, <2>1, ConnectInTime DEF RefuseSecret
  <2>2. ASSUME NEW ip \in Ip, NEW t \in Token, RefuseToken(t, ip) \/ Disconnect(t, ip)
        PROVE  SessionLifetime'
    BY <1>0, <2>2 DEF RefuseToken, Disconnect
  <2>3. ASSUME NEW ip \in Ip, NEW t \in Token, ForgetSelf(t, ip)
        PROVE  SessionLifetime'
    BY <1>0, <2>3, UseInTime DEF ForgetSelf, Accepted
  <2>4. ASSUME NEW ip \in Ip, NEW t \in Token, OpenEvents(t, ip) \/ CallWithSession(t, ip)
        PROVE  SessionLifetime'
    BY <2>4, UseInTime DEF OpenEvents, CallWithSession, Accepted
  <2> QED BY <1>4, <2>1, <2>2, <2>3, <2>4 DEF SessionCall
<1>5. CASE UserAction
  <2>1. ASSUME NEW d, End(SessionOf(d)) \/ UNCHANGED <<sessionVars, streams>>
        PROVE  SessionLifetime'
    BY <1>0, <1>1, <2>1
  <2>2. CASE \E r \in DOMAIN requests : ApprovePairing(r)
    BY <2>1, <2>2 DEF ApprovePairing
  <2>3. CASE \E r \in DOMAIN requests : DenyPairing(r)
    BY <1>1, <2>3 DEF DenyPairing
  <2>4. CASE \E d \in Device : Revoke(d)
    BY <2>1, <2>4 DEF Revoke
  <2>5. CASE ReadState
    BY <1>0, <2>5 DEF ReadState
  <2> QED BY <1>5, <2>2, <2>3, <2>4, <2>5 DEF UserAction
<1>6. CASE Environment
  <2>1. CASE Restart
    <3>1. DOMAIN byToken' = {}
      BY <2>1 DEF Restart, ForgetSessions, EmptyMap
    <3> QED BY <3>1 DEF SessionLifetime
  <2> QED BY <1>1, <1>6, <2>1 DEF Environment, StreamLost, SweepTimer, TimePasses
<1> QED BY <1>2, <1>3, <1>4, <1>5, <1>6 DEF Next

\* However busy a session is kept, and whichever of its two deadlines is noticed late,
\* none is used at or after the end of its absolute lifetime.
THEOREM LifetimeHolds == Spec => []SessionLifetime
<1>1. Init => SessionLifetime
  BY DEF Init, SessionsInit, EmptyMap, SessionLifetime
<1>2. TypeOK /\ SessionsAgree /\ SessionLifetime /\ [Next]_vars => SessionLifetime'
  BY NextInTime
<1>3. OneSessionPerPhone /\ StreamsBelongToSession => SessionsAgree
  BY DEF SessionsAgree
<1> QED BY <1>1, <1>2, <1>3, TypeCorrect, SessionsAlwaysAgree, PTL DEF Spec

---------------------------------------------------------------------------------
(* Trust that was withdrawn.  A secret a phone has been given is one of an        *)
(* approved request, so the secret of a request that is decided now is new; and   *)
(* the file holds what the process knows, as long as it can be written.           *)

Handed == \A e \in Device : \A s \in known[e] : s \in DOMAIN requests => requests[s].state = "approved"

FileIsCurrent == devicesFile = devices

\* A step that hands out no secret: approved requests stay so, and new ones have new ids.
LEMMA LivesKeepHanded ==
  ASSUME TypeOK, Handed, known' = known,
         \A r \in DOMAIN requests : RequestLives(r),
         \A r \in DOMAIN requests' \ DOMAIN requests : Begins(r)
  PROVE  Handed'
<1> SUFFICES ASSUME NEW e \in Device, NEW s \in known[e], s \in DOMAIN requests'
             PROVE  requests'[s].state = "approved"
  BY DEF Handed
<1>1. s \in 1..lastRequest
  BY DEF TypeOK
<1>2. s \in DOMAIN requests
  BY <1>1 DEF Begins
<1>3. requests[s].state = "approved"
  BY <1>2 DEF Handed
<1> QED BY <1>2, <1>3 DEF RequestLives, Stays, Goes, Moves

\* The steps of the laptop, sorted by what they do to requests and secrets.
LEMMA NextKeepsHanded ==
  ASSUME TypeOK, Handed, [Next]_vars
  PROVE  Handed'
<1> USE DEF TypeOK
<1>1. CASE UNCHANGED <<requests, known>>
  BY <1>1 DEF Handed
<1>2. ASSUME NEW rs, Delete(rs), known' = known,
             \A r \in rs \cap DOMAIN requests : Expired(r) \/ requests[r].state # "approved"
      PROVE  Handed'
  BY <1>2, DeletedLives, LivesKeepHanded
<1>3. CASE PairingCall
  <2>1. ASSUME NEW d \in Device, NEW n \in Nonce, NEW ip \in Ip, PairRequest(d, n, ip)
        PROVE  Handed'
    BY <2>1, RequestedLives, LivesKeepHanded DEF PairRequest, historyVars
  <2>2. ASSUME NEW r \in DOMAIN requests, NEW n \in Nonce, PairReveal(r, n)
        PROVE  Handed'
    BY <1>2, <2>2, RevealedLives, LivesKeepHanded DEF PairReveal, DropExpired, historyVars
  <2>3. ASSUME NEW r \in DOMAIN requests, NEW n \in Nonce, NEW d \in Device, PairStatus(r, d, n)
        PROVE  Handed'
    <3>1. CASE Releases(r, d, n) /\ known' = [known EXCEPT ![d] = @ \cup {r}] /\ UNCHANGED pairingVars
      BY <3>1 DEF Releases, Handed, pairingVars
    <3>2. CASE StatusDrops(r, d, n) /\ UNCHANGED known
      BY <1>2, <3>2 DEF StatusDrops
    <3> QED BY <2>3, <3>1, <3>2 DEF PairStatus
  <2> QED BY <1>3, <2>1, <2>2, <2>3 DEF PairingCall
<1>4. CASE SessionCall
  BY <1>1, <1>4 DEF SessionCall, Connect, RefuseSecret, RefuseToken, Disconnect, ForgetSelf,
                    OpenEvents, CallWithSession, pairingVars, historyVars
<1>5. CASE UserAction
  <2>1. ASSUME NEW r \in DOMAIN requests, ApprovePairing(r) \/ DenyPairing(r)
        PROVE  Handed'
    BY <1>2, <2>1, DecidedLives, LivesKeepHanded DEF ApprovePairing, DenyPairing, DropExpired, historyVars
  <2>2. ASSUME NEW d \in Device, Revoke(d)
        PROVE  Handed'
    BY <1>1, <2>2 DEF Revoke, pairingVars, historyVars
  <2>3. CASE ReadState
    BY <1>2, <2>3 DEF ReadState, Sweep, Swept, historyVars
  <2> QED BY <1>5, <2>1, <2>2, <2>3 DEF UserAction
<1>6. CASE Environment
  <2>1. CASE SweepTimer
    BY <1>2, <2>1 DEF SweepTimer, Sweep, Swept, historyVars
  <2>2. CASE Restart
    <3>1. DOMAIN requests' = {}
      BY <2>2 DEF Restart, ForgetRequests, EmptyMap
    <3> QED BY <3>1 DEF Handed
  <2> QED BY <1>1, <1>6, <2>1, <2>2 DEF Environment, StreamLost, TimePasses, pairingVars, historyVars
<1> QED BY <1>1, <1>3, <1>4, <1>5, <1>6 DEF Next, vars

\* The steps of the laptop, sorted by what they do to the store: it writes what it changes.
LEMMA NextKeepsFile ==
  ASSUME FileIsCurrent, ~DiskMayFail, [Next]_vars
  PROVE  FileIsCurrent'
<1>1. ASSUME UNCHANGED deviceVars PROVE FileIsCurrent'
  BY <1>1 DEF FileIsCurrent, deviceVars
<1>2. ASSUME NEW saved, Save(saved) PROVE FileIsCurrent'
  BY <1>2 DEF FileIsCurrent, Save
<1>3. ASSUME NEW d, NEW saved, RemoveDevice(d, saved) PROVE FileIsCurrent'
  BY <1>1, <1>2, <1>3 DEF RemoveDevice
<1>4. CASE PairingCall \/ Environment
  <2>1. CASE Restart
    BY <2>1 DEF Restart, LoadDevices, FileIsCurrent
  <2> QED BY <1>1, <1>4, <2>1 DEF PairingCall, PairRequest, PairReveal, PairStatus, Environment,
                                   StreamLost, SweepTimer, TimePasses
<1>5. CASE SessionCall
  BY <1>1, <1>3, <1>5 DEF SessionCall, Connect, RefuseSecret, RefuseToken, Disconnect, ForgetSelf,
                          OpenEvents, CallWithSession
<1>6. CASE UserAction
  BY <1>1, <1>2, <1>3, <1>6 DEF UserAction, ApprovePairing, Approve, Add, DenyPairing, Revoke, ReadState
<1> QED BY <1>1, <1>4, <1>5, <1>6 DEF Next, vars, deviceVars

\* Trust that was withdrawn never returns, as long as devices.json can be written: what
\* becomes current, by an approval or a restart, is a secret nobody has been given.
THEOREM TrustIsAlwaysFresh == ~DiskMayFail => (Spec => TrustIsFresh)
<1> SUFFICES ASSUME ~DiskMayFail PROVE Spec => TrustIsFresh
  OBVIOUS
<1> DEFINE Fresh == \A d \in DOMAIN devices' :
                      \/ d \in DOMAIN devices /\ devices[d] = devices'[d]
                      \/ \A e \in Device : devices'[d] \notin known[e]
<1>1. TypeOK /\ Handed /\ FileIsCurrent /\ [Next]_vars => Fresh
  <2> SUFFICES ASSUME TypeOK, Handed, FileIsCurrent, [Next]_vars PROVE Fresh
    OBVIOUS
  <2>1. CASE UNCHANGED devices
    BY <2>1
  <2>2. ASSUME NEW r \in DOMAIN requests, ApprovePairing(r) PROVE Fresh
    <3>1. PICK saved \in BOOLEAN : Approve(r, saved)
      BY <2>2 DEF ApprovePairing
    <3>2. devices' = With(devices, requests[r].device, r) /\ requests[r].state = "pending"
      BY <3>1 DEF Approve, Add, Save, IsPending
    <3>3. \A e \in Device : r \notin known[e]
      BY <3>2 DEF Handed
    <3> QED BY <3>2, <3>3 DEF With
  <2>3. ASSUME NEW d, NEW saved, RemoveDevice(d, saved) PROVE Fresh
    <3>1. CASE Has(d)
      <4>1. devices' = Without(devices, {d})
        BY <2>3, <3>1 DEF RemoveDevice
      <4> QED BY <4>1 DEF Without, Restrict
    <3>2. CASE ~Has(d)
      BY <2>3, <3>2 DEF RemoveDevice, deviceVars
    <3> QED BY <3>1, <3>2
  <2>4. CASE PairingCall \/ Environment
    <3>1. CASE Restart
      BY <3>1 DEF Restart, LoadDevices, FileIsCurrent
    <3> QED BY <2>1, <2>4, <3>1 DEF PairingCall, PairRequest, PairReveal, PairStatus, Environment,
                                     StreamLost, SweepTimer, TimePasses, deviceVars
  <2>5. CASE SessionCall
    BY <2>1, <2>3, <2>5 DEF SessionCall, Connect, RefuseSecret, RefuseToken, Disconnect, ForgetSelf,
                            OpenEvents, CallWithSession, deviceVars
  <2>6. CASE UserAction
    BY <2>1, <2>2, <2>3, <2>6 DEF UserAction, DenyPairing, Revoke, ReadState, deviceVars
  <2> QED BY <2>1, <2>4, <2>5, <2>6 DEF Next, vars
<1>2. Init => Handed /\ FileIsCurrent
  BY DEF Init, PairingInit, EmptyMap, Handed, FileIsCurrent
<1>3. TypeOK /\ Handed /\ [Next]_vars => Handed'
  BY NextKeepsHanded
<1>4. FileIsCurrent /\ [Next]_vars => FileIsCurrent'
  BY NextKeepsFile
<1> QED BY <1>1, <1>2, <1>3, <1>4, TypeCorrect, PTL DEF Spec, TrustIsFresh

---------------------------------------------------------------------------------
(* LaptopAccess implements its access policy, as long as devices.json can be      *)
(* written: every step of the laptop is one of the policy's, or none.             *)

\* What the mapping needs of a state: phones inside have an entry in the history of
\* secrets, and ids of requests are drawn from those the policy calls grants.
Mapped == Trust /\ FileIsCurrent /\ lastRequest <= MaxRequests

\* Nothing is seen of a step that leaves pairings, the index of phones and the history alone.
LEMMA UnseenStep ==
  ASSUME UNCHANGED <<devices, byDevice, openedWith>>
  PROVE  UNCHANGED <<devices, Inside>>
BY DEF Inside

\* The phones whose sessions end leave.
LEMMA EndedInside ==
  ASSUME TypeOK, NEW T, End(T), UNCHANGED openedWith
  PROVE  Inside' = Without(Inside, {d \in DOMAIN byDevice : byDevice[d] \in T})
<1> DEFINE S == {d \in DOMAIN byDevice : byDevice[d] \in T}
<1>1. byDevice' = Without(byDevice, S) /\ IsMap(byDevice, Device, 1..lastToken)
  BY DEF End, EndSessions, TypeOK, SessionsTypeOK
<1>2. DOMAIN byDevice' = DOMAIN byDevice \ S /\ \A d \in DOMAIN byDevice \ S : byDevice'[d] = byDevice[d]
  BY <1>1, WithoutProperties
<1> HIDE DEF S
<1>3. Inside' = [d \in DOMAIN byDevice' |-> openedWith[byDevice'[d]]]
  BY DEF Inside
<1>4. Without(Inside, S) = [d \in DOMAIN byDevice \ S |-> openedWith[byDevice[d]]]
  BY DEF Inside, Without, Restrict
<1>5. Inside' = Without(Inside, S)
  BY <1>2, <1>3, <1>4
<1> QED BY <1>5 DEF S

\* Ending a phone's session, if it has one, is its leaving.
LEMMA PhoneLeaves ==
  ASSUME TypeOK, SessionsAgree, NEW d, End(SessionOf(d)), UNCHANGED openedWith
  PROVE  Inside' = Without(Inside, {d})
<1>1. Inside' = Without(Inside, {e \in DOMAIN byDevice : byDevice[e] \in SessionOf(d)})
  BY EndedInside
<1>2. {e \in DOMAIN byDevice : byDevice[e] \in SessionOf(d)} = {d} \cap DOMAIN byDevice
  BY DEF SessionsAgree, OneSessionPerPhone, SessionOf
<1>3. DOMAIN Inside = DOMAIN byDevice
  BY DEF Inside
<1> QED BY <1>1, <1>2, <1>3 DEF Without, Restrict

\* Sessions of any phones that end are phones leaving.
LEMMA PhonesLeave ==
  ASSUME TypeOK, NEW T, End(T), UNCHANGED <<devices, openedWith>>
  PROVE  P!PolicyNext
<1> DEFINE S == {d \in DOMAIN byDevice : byDevice[d] \in T}
<1>1. S \in SUBSET Device
  BY DEF TypeOK, SessionsTypeOK, IsMap
<1>2. Inside' = Without(Inside, S)
  BY EndedInside
<1> HIDE DEF S
<1>3. P!Leave(S)
  BY <1>2 DEF P!Leave, Without, Restrict, P!Without, P!Restrict
<1> QED BY <1>1, <1>3 DEF P!PolicyNext

\* A removal from the store with the end of the phone's session is a withdrawal.
LEMMA Withdrawn ==
  ASSUME TypeOK, SessionsAgree, NEW d \in Device, NEW saved, RemoveDevice(d, saved), End(SessionOf(d)),
         UNCHANGED openedWith
  PROVE  P!PolicyNext
<1>1. devices' = Without(devices, {d})
  <2>1. CASE Has(d)
    BY <2>1 DEF RemoveDevice
  <2>2. CASE ~Has(d)
    <3>1. devices = [e \in DOMAIN devices |-> devices[e]]
      BY DEF TypeOK, PairingTypeOK, IsMap
    <3> QED BY <2>2, <3>1 DEF RemoveDevice, deviceVars, Has, Without, Restrict
  <2> QED BY <2>1, <2>2
<1>2. P!Withdraw(d)
  BY <1>1, PhoneLeaves
     DEF P!Withdraw, Without, Restrict, P!Without, P!Restrict
<1> QED BY <1>2 DEF P!PolicyNext

\* Connecting with the current secret is entering.
LEMMA Entered ==
  ASSUME TypeOK, SessionsAgree, Mapped, NEW d \in Device, NEW s, NEW ip, Connect(d, s, ip)
  PROVE  P!PolicyNext
<1>1. /\ byDevice' = With(byDevice, d, lastToken') /\ openedWith' = With(openedWith, lastToken', s)
      /\ lastToken' = lastToken + 1
      /\ d \in DOMAIN devices /\ devices[d] = s /\ devices' = devices
  BY DEF Connect, CreateSession, Has, deviceVars
<1>2. \A e \in DOMAIN byDevice : byDevice[e] \in 1..lastToken /\ byDevice[e] \in DOMAIN openedWith
  BY DEF TypeOK, SessionsTypeOK, IsMap, SessionsAgree, OneSessionPerPhone, Mapped, Trust
<1>3. lastToken' \notin 1..lastToken
  BY <1>1 DEF TypeOK, SessionsTypeOK
<1>4. Inside' = [e \in DOMAIN byDevice \cup {d} |-> IF e = d THEN s ELSE openedWith[byDevice[e]]]
  BY <1>1, <1>2, <1>3 DEF Inside, With
<1>5. Inside' = With(Inside, d, devices[d])
  BY <1>1, <1>4 DEF Inside, With
<1> QED BY <1>1, <1>5 DEF P!PolicyNext, P!Enter, With, P!With

\* An approval is a grant; the phone's former session ends, if there is one.
LEMMA Granted ==
  ASSUME TypeOK, SessionsAgree, Mapped, ~DiskMayFail, NEW r \in DOMAIN requests, ApprovePairing(r)
  PROVE  P!PolicyNext
<1> DEFINE d == requests[r].device
<1>1. PICK saved \in BOOLEAN :
        /\ Approve(r, saved)
        /\ IF saved /\ Has(d) THEN End(SessionOf(d)) ELSE UNCHANGED <<sessionVars, streams>>
  BY DEF ApprovePairing
<1>2. saved = TRUE /\ devices' = With(devices, d, r)
  BY <1>1 DEF Approve, Add, Save
<1>3. d \in Device /\ r \in 1..MaxRequests
  <2>1. requests[r] \in PairingRecord /\ r \in 1..lastRequest /\ lastRequest \in Nat
    BY DEF TypeOK, PairingTypeOK, IsMap
  <2> QED BY <2>1, PairingAssumption DEF PairingRecord, Mapped
<1>4. openedWith' = openedWith
  BY DEF ApprovePairing, historyVars
<1>5. Inside' = Without(Inside, {d})
  <2>1. CASE Has(d)
    BY <1>1, <1>2, <1>4, <2>1, PhoneLeaves
  <2>2. CASE ~Has(d)
    <3>1. byDevice' = byDevice
      BY <1>1, <2>2 DEF sessionVars
    <3>2. d \notin DOMAIN byDevice
      BY <2>2 DEF Mapped, Trust, SessionsAreTrusted, SessionsAgree, OneSessionPerPhone
    <3> QED BY <1>4, <3>1, <3>2 DEF Inside, Without, Restrict
  <2> QED BY <2>1, <2>2
<1>6. P!GrantAccess(d, r)
  BY <1>2, <1>5
     DEF P!GrantAccess, With, P!With, Without, Restrict, P!Without, P!Restrict
<1> QED BY <1>3, <1>6 DEF P!PolicyNext

\* A new process: all phones leave.
LEMMA AllLeave ==
  ASSUME TypeOK, Mapped, Restart
  PROVE  P!PolicyNext
<1>1. devices' = devices /\ openedWith' = openedWith /\ byDevice' = EmptyMap
  BY DEF Restart, LoadDevices, ForgetSessions, Mapped, FileIsCurrent, historyVars
<1>2. DOMAIN byDevice \subseteq Device
  BY DEF TypeOK, SessionsTypeOK, IsMap
<1>3. Inside' = Without(Inside, Device)
  BY <1>1, <1>2 DEF Inside, Without, Restrict, EmptyMap
<1>4. P!Leave(Device)
  BY <1>1, <1>3 DEF P!Leave, Without, Restrict, P!Without, P!Restrict
<1> QED BY <1>4 DEF P!PolicyNext

\* Every step of the laptop is a step of the policy, or is not seen.
LEMMA StepImplements ==
  ASSUME TypeOK, SessionsAgree, Mapped, ~DiskMayFail, [Next]_vars
  PROVE  P!PolicyNext \/ UNCHANGED <<devices, Inside>>
<1> DEFINE Goal == P!PolicyNext \/ UNCHANGED <<devices, Inside>>
<1>1. ASSUME UNCHANGED <<deviceVars, sessionVars, historyVars>> PROVE Goal
  BY <1>1, UnseenStep DEF deviceVars, sessionVars, historyVars
<1>2. CASE UNCHANGED vars
  BY <1>1, <1>2 DEF vars, deviceVars, sessionVars, historyVars
<1>3. CASE PairingCall
  BY <1>3, UnseenStep DEF PairingCall, PairRequest, PairReveal, PairStatus, deviceVars, sessionVars, historyVars
<1>4. CASE SessionCall
  <2>1. ASSUME NEW ip \in Ip, NEW d \in Device, NEW s \in known[d],
               Connect(d, s, ip) \/ RefuseSecret(d, s, ip)
        PROVE  Goal
    BY <1>1, <2>1, Entered DEF RefuseSecret
  <2>2. ASSUME NEW ip \in Ip, NEW t \in Token, RefuseToken(t, ip) \/ Disconnect(t, ip)
        PROVE  Goal
    BY <2>2, PhonesLeave DEF RefuseToken, Disconnect, deviceVars, historyVars
  <2>3. ASSUME NEW ip \in Ip, NEW t \in Token, ForgetSelf(t, ip)
        PROVE  Goal
    <3> DEFINE d == byToken[t].device
    <3>1. PICK saved \in BOOLEAN : RemoveDevice(d, saved) /\ (saved => End(SessionOf(d)))
      BY <2>3 DEF ForgetSelf
    <3>2. End(SessionOf(d)) /\ UNCHANGED openedWith
      BY <2>3, <3>1, RemovalIsSaved DEF ForgetSelf, historyVars
    <3>3. d \in Device
      BY <2>3 DEF ForgetSelf, Accepted, Live, TypeOK, SessionsTypeOK, IsMap, Session
    <3> QED BY <3>1, <3>2, <3>3, Withdrawn
  <2>4. ASSUME NEW ip \in Ip, NEW t \in Token, OpenEvents(t, ip) \/ CallWithSession(t, ip)
        PROVE  Goal
    BY <2>4, UnseenStep DEF OpenEvents, CallWithSession, UseSession, deviceVars, historyVars
  <2> QED BY <1>4, <2>1, <2>2, <2>3, <2>4 DEF SessionCall
<1>5. CASE UserAction
  <2>1. ASSUME NEW r \in DOMAIN requests, ApprovePairing(r) \/ DenyPairing(r)
        PROVE  Goal
    BY <1>1, <2>1, Granted DEF DenyPairing
  <2>2. ASSUME NEW d \in Device, Revoke(d)
        PROVE  Goal
    <3>1. PICK saved \in BOOLEAN : RemoveDevice(d, saved) /\ (saved => End(SessionOf(d)))
      BY <2>2 DEF Revoke
    <3>2. End(SessionOf(d)) /\ UNCHANGED openedWith
      BY <2>2, <3>1, RemovalIsSaved DEF Revoke, historyVars
    <3> QED BY <3>1, <3>2, Withdrawn
  <2>3. CASE ReadState
    BY <2>3, PhonesLeave DEF ReadState, deviceVars, historyVars
  <2> QED BY <1>5, <2>1, <2>2, <2>3 DEF UserAction
<1>6. CASE Environment
  BY <1>1, <1>6, AllLeave DEF Environment, StreamLost, SweepTimer, TimePasses
<1> QED BY <1>2, <1>3, <1>4, <1>5, <1>6 DEF Next

\* Ids of requests stay within those the model draws.
LEMMA IdsAreGrants ==
  ASSUME TypeOK, lastRequest <= MaxRequests, [Next]_vars
  PROVE  lastRequest' <= MaxRequests
<1>1. MaxRequests \in Nat /\ lastRequest \in Nat
  BY PairingAssumption DEF TypeOK, PairingTypeOK
<1>2. CASE UNCHANGED lastRequest
  BY <1>2
<1>3. ASSUME NEW d, NEW n, NEW ip, Request(d, n, ip)
      PROVE  lastRequest' <= MaxRequests
  BY <1>1, <1>3 DEF Request
<1>4. CASE PairingCall
  BY <1>2, <1>3, <1>4 DEF PairingCall, PairRequest, PairReveal, PairStatus, Reveal, DropExpired,
                          StatusDrops, pairingVars
<1>5. CASE SessionCall
  BY <1>2, <1>5 DEF SessionCall, Connect, RefuseSecret, RefuseToken, Disconnect, ForgetSelf,
                    OpenEvents, CallWithSession, pairingVars
<1>6. CASE UserAction
  BY <1>2, <1>6 DEF UserAction, ApprovePairing, Approve, DenyPairing, Deny, DropExpired, Revoke,
                    ReadState, Sweep, pairingVars
<1>7. CASE Environment
  BY <1>2, <1>7 DEF Environment, StreamLost, SweepTimer, Sweep, Restart, ForgetRequests,
                    TimePasses, pairingVars
<1> QED BY <1>2, <1>4, <1>5, <1>6, <1>7 DEF Next, vars

\* The laptop implements its access policy, as long as devices.json can be written.
THEOREM PolicyIsImplemented == ~DiskMayFail => (Spec => PolicyHolds)
<1> SUFFICES ASSUME ~DiskMayFail PROVE Spec => PolicyHolds
  OBVIOUS
<1>1. Init => P!PolicyInit
  <2> SUFFICES ASSUME Init PROVE P!PolicyInit
    OBVIOUS
  <2>1. devices = EmptyMap /\ byDevice = EmptyMap
    BY DEF Init, PairingInit, SessionsInit
  <2>2. Inside = EmptyMap
    BY <2>1 DEF Inside, EmptyMap
  <2> QED BY <2>1, <2>2 DEF P!PolicyInit, P!EmptyMap, EmptyMap
<1>2. Init => Mapped
  BY PairingAssumption
     DEF Init, PairingInit, SessionsInit, EmptyMap, Mapped, Trust, SessionsAreTrusted, FileIsCurrent
<1>3. TypeOK /\ SessionsAgree /\ Mapped /\ [Next]_vars => Mapped'
  BY NextKeepsTrust, NextKeepsFile, IdsAreGrants DEF Mapped
<1>4. TypeOK /\ SessionsAgree /\ Mapped /\ [Next]_vars => [P!PolicyNext]_(P!policyVars)
  BY StepImplements DEF P!policyVars
<1>5. Spec => []SessionsAgree
  BY SessionsAlwaysAgree, PTL DEF SessionsAgree
<1> QED BY <1>1, <1>2, <1>3, <1>4, <1>5, TypeCorrect, PTL DEF Spec, PolicyHolds, P!Policy

---------------------------------------------------------------------------------
(* The laptop implements PairingService: sessions, streams and their limiter add *)
(* nothing to what pairing promises on its own, and take nothing from it.        *)

\* Every call of a phone about pairing is one of the pairing service.
LEMMA PairingCallServes ==
  ASSUME PairingCall
  PROVE  [ServiceNext]_serviceVars
<1>1. ASSUME NEW d \in Device, NEW n \in Nonce, NEW ip \in Ip, PairRequest(d, n, ip)
      PROVE  PhoneCalls
  BY <1>1 DEF PairRequest, PhoneCalls
<1>2. ASSUME NEW r \in DOMAIN requests, NEW n \in Nonce, PairReveal(r, n)
      PROVE  PhoneCalls
  BY <1>2 DEF PairReveal, PhoneCalls
<1>3. ASSUME NEW r \in DOMAIN requests, NEW n \in Nonce, NEW d \in Device, PairStatus(r, d, n)
      PROVE  PhoneCalls \/ UNCHANGED serviceVars
  BY <1>3 DEF PairStatus, PhoneCalls, serviceVars, deviceVars, pairingVars
<1> QED BY <1>1, <1>2, <1>3 DEF PairingCall, ServiceNext

\* Removing a phone, from whichever side, is the service's removal or, when it was not
\* paired, nothing.
LEMMA RemovalServes ==
  ASSUME NEW d, NEW saved \in BOOLEAN, RemoveDevice(d, saved), UNCHANGED <<now, pairingVars>>
  PROVE  [ServiceNext]_serviceVars
<1>1. CASE Has(d)
  BY <1>1 DEF Has, RemovePhone, ServiceNext
<1>2. CASE ~Has(d)
  BY <1>2 DEF RemoveDevice, serviceVars, deviceVars, pairingVars
<1> QED BY <1>1, <1>2

\* Every call with a secret or a token leaves pairing alone, but for a phone that forgets
\* the laptop.
LEMMA SessionCallServes ==
  ASSUME SessionCall
  PROVE  [ServiceNext]_serviceVars
<1>1. ASSUME NEW t, NEW ip, ForgetSelf(t, ip) PROVE [ServiceNext]_serviceVars
  BY <1>1, RemovalServes DEF ForgetSelf
<1>2. UNCHANGED <<now, deviceVars, pairingVars>> => UNCHANGED serviceVars
  BY DEF serviceVars, deviceVars, pairingVars
<1> QED BY <1>1, <1>2 DEF SessionCall, Connect, RefuseSecret, RefuseToken, Disconnect, OpenEvents, CallWithSession

\* Every action of the user is one of the pairing service, reading the state being its
\* sweep.
LEMMA UserActionServes ==
  ASSUME UserAction
  PROVE  [ServiceNext]_serviceVars
<1>1. ASSUME NEW r \in DOMAIN requests, ApprovePairing(r) PROVE UserDecides
  BY <1>1 DEF ApprovePairing, UserDecides
<1>2. ASSUME NEW r \in DOMAIN requests, DenyPairing(r) PROVE UserDecides \/ PhoneCalls
  BY <1>2 DEF DenyPairing, UserDecides, PhoneCalls
<1>3. ASSUME NEW d, Revoke(d) PROVE [ServiceNext]_serviceVars
  BY <1>3, RemovalServes DEF Revoke
<1>4. ASSUME ReadState PROVE ServiceSweeps
  BY <1>4 DEF ReadState, ServiceSweeps
<1> QED BY <1>1, <1>2, <1>3, <1>4 DEF UserAction, ServiceNext

\* Every step of the laptop is a step of the pairing service, or leaves it as it was.
LEMMA StepServes ==
  ASSUME [Next]_vars
  PROVE  [ServiceNext]_serviceVars
<1>1. UNCHANGED vars => UNCHANGED serviceVars
  BY DEF vars, serviceVars
<1>2. CASE Environment
  <2>1. ASSUME NEW d, NEW i, StreamLost(d, i) PROVE UNCHANGED serviceVars
    BY <2>1 DEF StreamLost, serviceVars, deviceVars, pairingVars
  <2>2. SweepTimer => ServiceSweeps
    BY DEF SweepTimer, ServiceSweeps
  <2>3. Restart => ServiceRestarts
    BY DEF Restart, ServiceRestarts
  <2>4. TimePasses => ServiceWaits
    BY DEF TimePasses, ServiceWaits
  <2> QED BY <1>2, <2>1, <2>2, <2>3, <2>4 DEF Environment, ServiceNext
<1> QED BY <1>1, <1>2, PairingCallServes, SessionCallServes, UserActionServes DEF Next

\* The laptop with its sessions and streams implements the pairing service: whatever is
\* proved of pairing alone (PairingTheorems) holds of the laptop.
THEOREM PairingIsImplemented == Spec => ServiceSpec
<1>1. Init => PairingInit
  BY DEF Init
<1>2. [Next]_vars => [ServiceNext]_serviceVars
  BY StepServes
<1> QED BY <1>1, <1>2, PTL DEF Spec, ServiceSpec

\* So the laptop keeps the limits of requests and phones, decides requests in their time
\* and answers approved ones as long as it should, and trusts a phone only by its user.
COROLLARY LaptopPairsAsPromised ==
  Spec => []WithinLimits /\ MovesInTime /\ AnswerSurvives /\ PairedOnlyByUser
BY PairingIsImplemented, AlwaysWithinLimits, MovesAreInTime, AnswersSurvive, PairedByUserOnly, PTL
=================================================================================
