------------------------------ MODULE PairingProofs ------------------------------
(*********************************************************************************)
(* Proofs about both sides of pairing together (PhonePairing), for any number of *)
(* phones, requests and flows and a network that loses or delays any call and    *)
(* any answer; that they implement the laptop's side (PairingService) is one.    *)
(*********************************************************************************)
EXTENDS PhonePairing, PairingTheorems

---------------------------------------------------------------------------------
(* The phone.  What the page knows.                                              *)

\* The answers that each call can have, and what holds while a flow runs.
FlowRuns ==
    /\ Busy => flow.id \in 1..MaxFlows /\ flow.errors + 1 \in 1..MaxErrors
    /\ flow.reply \in {"none", "refused"} \cup
         (IF flow.step = "requesting" THEN {"made"}
          ELSE IF flow.step = "revealing" THEN {"revealed"} ELSE {"pending", "approved", "denied"})

Types == PairingTypeOK /\ PhoneTypeOK /\ FlowRuns

\* From the answer to its request on, the flow of the page is about a request of its own,
\* and from the reveal on about one that is revealed.
OwnRequest ==
    /\ flow.reply = "made" \/ flow.step \in {"revealing", "asking", "waiting", "denied", "expired"}
         => flow.request # None
    /\ flow.request \in DOMAIN requests
         => /\ flow.reply = "made" \/ flow.step \in {"revealing", "asking", "waiting"}
                 => requests[flow.request].device = Self /\ requests[flow.request].commit = flow.id
            /\ flow.reply = "revealed" \/ flow.step \in {"asking", "waiting"}
                 => requests[flow.request].state # "awaiting_reveal"

\* A request the page is told is over, or will be told, is over.
OverIsOver ==
    \/ flow.step \in {"denied", "expired"}
    \/ flow.step = "asking" /\ flow.reply \in {"denied", "refused"}
    => flow.request \notin DOMAIN requests

\* The last approval of the phone can be asked for until its window ends.
GrantLasts ==
    grant.request # None /\ ~grant.restarted =>
        \/ now >= grant.at + SecretWindow
        \/ /\ grant.request \in DOMAIN requests
           /\ requests[grant.request].state = "approved"
           /\ requests[grant.request].expiresAt = grant.at + SecretWindow

\* The file holds what the process knows, and the phone is trusted as it was approved.
GrantStands ==
    /\ devicesFile = devices
    /\ grant.request # None /\ ~grant.revoked
         => Self \in DOMAIN devices /\ devices[Self] = grant.request

---------------------------------------------------------------------------------
(* The laptop.                                                                   *)

\* What a step of the laptop does to requests, as long as its process lives.
RequestsLive == /\ \A r \in DOMAIN requests : RequestLives(r)
                /\ \A r \in DOMAIN requests' \ DOMAIN requests : Begins(r)

\* A laptop that keeps its types, draws only new ids, and lets requests live.
LaptopLives == /\ PairingTypeOK' /\ lastRequest <= lastRequest' /\ RequestsLive
               /\ now' >= now

\* A step of others leaves the requests as they are.
LEMMA UnchangedLives ==
  ASSUME PairingTypeOK, UNCHANGED <<now, deviceVars, pairingVars>>
  PROVE  LaptopLives
BY DEF LaptopLives, RequestsLive, RequestLives, Stays, PairingTypeOK, deviceVars, pairingVars

\* A pairing request of any phone.
LEMMA RequestIsLife ==
  ASSUME PairingTypeOK, NEW d \in Device, NEW n \in Nonce, NEW ip \in Ip, Request(d, n, ip),
         UNCHANGED <<now, deviceVars>>
  PROVE  LaptopLives
BY RequestType, RequestedLives DEF LaptopLives, RequestsLive, PairingTypeOK

\* A reveal, of the right nonce or of another.
LEMMA RevealIsLife ==
  ASSUME PairingTypeOK, NEW r \in DOMAIN requests, NEW np, Reveal(r, np), UNCHANGED <<now, deviceVars>>
  PROVE  LaptopLives
<1>1. lastRequest' = lastRequest /\ lastRequest \in Nat /\ now' = now /\ now \in Nat
  BY DEF Reveal, PairingTypeOK
<1> QED BY <1>1, RevealType, RevealedLives DEF LaptopLives, RequestsLive

\* Records that expired, or were denied and reported, go.
LEMMA DeletionIsLife ==
  ASSUME PairingTypeOK, NEW rs, Delete(rs), UNCHANGED <<now, deviceVars, lastRequest, pairHits>>,
         \A r \in rs \cap DOMAIN requests : Expired(r) \/ requests[r].state # "approved"
  PROVE  LaptopLives
<1>1. lastRequest \in Nat /\ now \in Nat
  BY DEF PairingTypeOK
<1> QED BY <1>1, DeleteType, DeletedLives DEF LaptopLives, RequestsLive

\* The user's decision.
LEMMA DecisionIsLife ==
  ASSUME PairingTypeOK, NEW r \in DOMAIN requests, UNCHANGED now,
         \/ Deny(r) /\ UNCHANGED deviceVars
         \/ \E written \in BOOLEAN : Approve(r, written)
  PROVE  LaptopLives
<1>1. lastRequest' = lastRequest /\ lastRequest \in Nat /\ now' = now /\ now \in Nat
  BY DEF Deny, Approve, PairingTypeOK
<1>2. PairingTypeOK'
  BY DenyType, ApproveType
<1> QED BY <1>1, <1>2, DecidedLives DEF LaptopLives, RequestsLive

\* A call of the phone, in time or late.
LEMMA HandlingIsLife ==
  ASSUME PairingTypeOK, NEW call, call.id \in 1..MaxFlows, NEW answer, Handle(call, answer)
  PROVE  LaptopLives
<1> DEFINE n == call.id
           r == call.request
<1>1. n \in Nonce /\ Self \in Device
  BY PhonePairingAssumption
<1>2. UNCHANGED <<now, deviceVars>>
  BY DEF Handle
<1>3. ASSUME UNCHANGED pairingVars PROVE LaptopLives
  BY <1>2, <1>3, UnchangedLives DEF deviceVars, pairingVars
<1>4. ASSUME NEW ip \in Ip, AnswerRequest(n, ip, answer) PROVE LaptopLives
  <2> HIDE DEF n
  <2> QED BY <1>1, <1>2, <1>3, <1>4, RequestIsLife DEF AnswerRequest
<1>5. ASSUME AnswerReveal(n, r, answer) PROVE LaptopLives
  <2> HIDE DEF n, r
  <2>1. CASE Reveal(r, n)
    <3>1. r \in DOMAIN requests
      BY <2>1 DEF Reveal
    <3> QED BY <1>2, <2>1, <3>1, RevealIsLife
  <2>2. CASE DropExpired(r)
    BY <1>2, <2>2, DeletionIsLife DEF DropExpired
  <2> QED BY <1>3, <1>5, <2>1, <2>2 DEF AnswerReveal
<1>6. ASSUME AnswerStatus(n, r, answer) PROVE LaptopLives
  <2> HIDE DEF n, r
  <2>1. CASE StatusDrops(r, Self, n)
    BY <1>2, <2>1, DeletionIsLife DEF StatusDrops
  <2> QED BY <1>3, <1>6, <2>1 DEF AnswerStatus
<1> QED BY <1>4, <1>5, <1>6 DEF Handle

\* The steps of the laptop that no call of the modelled phone makes.
LEMMA OthersAreLife ==
  ASSUME PairingTypeOK, OthersCall \/ UserApproves \/ UserDenies \/ UserRemoves \/ Timers
  PROVE  LaptopLives
<1>1. CASE OthersCall
  <2>1. 0 \in Nonce /\ UNCHANGED <<now, deviceVars>>
    BY <1>1, PhonePairingAssumption DEF OthersCall
  <2> QED BY <1>1, <2>1, RequestIsLife, RevealIsLife DEF OthersCall
<1>2. CASE UserApproves
  BY <1>2, DecisionIsLife DEF UserApproves
<1>3. CASE UserDenies
  BY <1>3, DecisionIsLife DEF UserDenies
<1>4. CASE UserRemoves
  <2>1. requests' = requests /\ lastRequest' = lastRequest /\ now' = now /\ PairingTypeOK'
    BY <1>4, RemoveType DEF UserRemoves, RemovePhone, pairingVars
  <2> QED BY <2>1 DEF LaptopLives, RequestsLive, RequestLives, Stays, PairingTypeOK
<1>5. CASE Timers
  <2>1. CASE ServiceSweeps
    BY <2>1, DeletionIsLife DEF ServiceSweeps, Sweep, Swept
  <2>2. CASE ServiceWaits
    <3>1. /\ requests' = requests /\ lastRequest' = lastRequest /\ now' = now + 1 /\ pairHits' = pairHits
          /\ devices' = devices /\ devicesFile' = devicesFile
      BY <2>2 DEF ServiceWaits, Tick, deviceVars, pairingVars
    <3> QED BY <3>1 DEF LaptopLives, RequestsLive, RequestLives, Stays, PairingTypeOK
  <2> QED BY <1>5, <2>1, <2>2 DEF Timers
<1> QED BY <1>1, <1>2, <1>3, <1>4, <1>5

\* A new process keeps types and ids, and has no requests.
LEMMA RestartForgets ==
  ASSUME PairingTypeOK, LaptopRestarts
  PROVE  PairingTypeOK' /\ lastRequest' = lastRequest /\ DOMAIN requests' = {}
<1>1. LoadDevices /\ ForgetRequests /\ UNCHANGED now
  BY DEF LaptopRestarts, ServiceRestarts
<1>2. lastRequest' = lastRequest /\ DOMAIN requests' = {}
  BY <1>1 DEF ForgetRequests, EmptyMap
<1> QED BY <1>1, <1>2, RestartType

\* What an answer says of the request it is about.
LEMMA AnswerMeans ==
  ASSUME PairingTypeOK, NEW call, call.id \in 1..MaxFlows, NEW answer, Handle(call, answer),
         call.step \in Calls
  PROVE  /\ call.step = "requesting" =>
              /\ answer \in {"made", "refused"}
              /\ answer = "made" =>
                   /\ lastRequest' = lastRequest + 1
                   /\ lastRequest' \in DOMAIN requests'
                   /\ requests'[lastRequest'].device = Self
                   /\ requests'[lastRequest'].commit = call.id
         /\ call.step = "revealing" =>
              /\ answer \in {"revealed", "refused"}
              /\ lastRequest' = lastRequest
              /\ answer = "revealed" => Reveal(call.request, call.id)
         /\ call.step = "asking" =>
              /\ answer \in {"refused", "pending", "approved", "denied"}
              /\ lastRequest' = lastRequest
              /\ answer \in {"refused", "denied"} /\ MayAsk(call.request, Self, call.id)
                   => call.request \notin DOMAIN requests'
              /\ ~MayAsk(call.request, Self, call.id) => requests' = requests
<1>1. CASE call.step = "requesting"
  <2>1. PICK ip \in Ip : AnswerRequest(call.id, ip, answer)
    BY <1>1 DEF Handle
  <2>2. answer \in {"made", "refused"}
    BY <2>1 DEF AnswerRequest
  <2>3. ASSUME answer = "made"
        PROVE  /\ lastRequest' = lastRequest + 1
               /\ lastRequest' \in DOMAIN requests'
               /\ requests'[lastRequest'].device = Self
               /\ requests'[lastRequest'].commit = call.id
    <3>1. HasRoom(Self) /\ Request(Self, call.id, ip)
      BY <2>1, <2>3 DEF AnswerRequest
    <3> DEFINE new == [device |-> Self, commit |-> call.id, state |-> "awaiting_reveal",
                       createdAt |-> now, expiresAt |-> now + RevealWindow]
    <3>2. /\ lastRequest' = lastRequest + 1
          /\ requests' = With(Restrict(requests, Kept(Self)), lastRequest', new)
      BY <3>1 DEF Request
    <3>3. new.device = Self /\ new.commit = call.id
      OBVIOUS
    <3> HIDE DEF new
    <3> QED BY <3>2, <3>3 DEF With
  <2> QED BY <1>1, <2>2, <2>3
<1>2. CASE call.step = "revealing"
  BY <1>2 DEF Handle, AnswerReveal, Reveal, DropExpired, pairingVars
<1>3. CASE call.step = "asking"
  <2>1. AnswerStatus(call.id, call.request, answer)
    BY <1>3 DEF Handle
  <2>2. CASE ~MayAsk(call.request, Self, call.id)
    BY <1>3, <2>1, <2>2 DEF AnswerStatus, pairingVars
  <2>3. CASE MayAsk(call.request, Self, call.id)
    <3>1. call.request \in DOMAIN requests /\ requests[call.request].state \in {"pending", "approved", "denied"}
      BY <2>3 DEF MayAsk, PairingTypeOK, IsMap, PairingRecord
    <3>2. answer \in {"refused", "pending", "approved", "denied"}
      BY <2>1, <2>3, <3>1 DEF AnswerStatus
    <3>3. lastRequest' = lastRequest
      BY <2>1, <2>3 DEF AnswerStatus, StatusDrops, pairingVars
    <3>4. ASSUME answer \in {"refused", "denied"} PROVE call.request \notin DOMAIN requests'
      <4>1. StatusDrops(call.request, Self, call.id)
        BY <2>1, <2>3, <3>1, <3>4 DEF AnswerStatus
      <4> QED BY <4>1 DEF StatusDrops, Delete, Without, Restrict
    <3> QED BY <1>3, <2>3, <3>2, <3>3, <3>4
  <2> QED BY <2>2, <2>3
<1> QED BY <1>1, <1>2, <1>3 DEF Calls

---------------------------------------------------------------------------------
(* Types.                                                                        *)

\* While only the phone acts, the laptop is as it was.
LEMMA LaptopRests ==
  ASSUME PairingTypeOK, UNCHANGED serviceVars
  PROVE  PairingTypeOK' /\ lastRequest' = lastRequest /\ requests' = requests /\ now' = now
BY DEF PairingTypeOK, serviceVars

\* The page is as it was, and what the laptop has drawn are more ids.
LEMMA PageRests ==
  ASSUME Types, PairingTypeOK', lastRequest <= lastRequest', UNCHANGED <<flow, late, saved>>,
         grant' \in [request : 0..lastRequest', at : Nat, revoked : BOOLEAN, restarted : BOOLEAN]
  PROVE  Types'
<1>1. lastRequest \in Nat /\ lastRequest' \in Nat
  BY DEF Types, PairingTypeOK
<1>2. 0..lastRequest \subseteq 0..lastRequest'
  BY <1>1
<1>3. late' \subseteq [step : Calls, id : 1..MaxFlows, request : 0..lastRequest', goesOn : BOOLEAN]
  <2>1. [step : Calls, id : 1..MaxFlows, request : 0..lastRequest, goesOn : BOOLEAN]
          \subseteq [step : Calls, id : 1..MaxFlows, request : 0..lastRequest', goesOn : BOOLEAN]
    BY <1>2
  <2> QED BY <2>1 DEF Types, PhoneTypeOK
<1>4. flow' \in [id : 0..MaxFlows, step : Calls \cup {"waiting"} \cup Ends,
                 request : 0..lastRequest', errors : 0..MaxErrors, reply : {"none"} \cup Answers]
  BY <1>2 DEF Types, PhoneTypeOK
<1>5. saved' \in 0..lastRequest'
  BY <1>2 DEF Types, PhoneTypeOK
<1>6. FlowRuns'
  BY DEF Types, FlowRuns, Busy
<1> QED BY <1>3, <1>4, <1>5, <1>6 DEF Types, PhoneTypeOK

\* Opening a page, or Retry.
LEMMA BeginType ==
  ASSUME Types, Begin
  PROVE  Types'
<1>1. /\ PairingTypeOK' /\ lastRequest' = lastRequest /\ lastRequest \in Nat
  BY LaptopRests DEF Begin, Types, PairingTypeOK
<1>2. MaxErrors \in Nat \ {0} /\ MaxFlows \in Nat /\ flow.id \in 0..MaxFlows
  BY PhonePairingAssumption DEF Types, PhoneTypeOK
<1>3. flow' = [id |-> flow.id + 1, step |-> "requesting", request |-> None,
               errors |-> 0, reply |-> "none"]
      /\ flow.id + 1 \in 1..MaxFlows
  BY <1>2 DEF Begin
<1>4. FlowRuns'
  BY <1>2, <1>3 DEF FlowRuns
<1>5. PhoneTypeOK'
  BY <1>1, <1>2, <1>3 DEF Begin, Types, PhoneTypeOK, Calls, Ends, Answers, None
<1> QED BY <1>1, <1>4, <1>5 DEF Types

\* An answer that reaches the page.
LEMMA RepliedType ==
  ASSUME Types, Replied
  PROVE  Types'
<1>1. /\ PairingTypeOK' /\ lastRequest' = lastRequest /\ lastRequest \in Nat
  BY LaptopRests DEF Replied, Types, PairingTypeOK
<1>2. MaxErrors \in Nat \ {0} /\ MaxFlows \in Nat
  BY PhonePairingAssumption
<1>3. /\ flow \in [id : 0..MaxFlows, step : Calls \cup {"waiting"} \cup Ends,
                   request : 0..lastRequest, errors : 0..MaxErrors, reply : {"none"} \cup Answers]
      /\ flow.step \in Calls /\ flow.id \in 1..MaxFlows
  BY DEF Replied, Types, PhoneTypeOK, FlowRuns, Busy
<1>4. flow' = [flow EXCEPT !.step = After(flow.step, flow.reply), !.errors = 0, !.reply = "none"]
  BY DEF Replied
<1>5. After(flow.step, flow.reply) \in Calls \cup {"waiting"} \cup Ends
  BY <1>3 DEF After, Types, FlowRuns, Calls, Ends, Replied
<1>6. FlowRuns'
  BY <1>2, <1>3, <1>4 DEF FlowRuns
<1>7. PhoneTypeOK'
  <2>1. 0 \in 0..MaxErrors
    BY <1>2
  <2>2. flow' \in [id : 0..MaxFlows, step : Calls \cup {"waiting"} \cup Ends,
                     request : 0..lastRequest', errors : 0..MaxErrors, reply : {"none"} \cup Answers]
        /\ flow'.reply = "none"
    BY <1>1, <1>3, <1>4, <1>5, <2>1
  <2>3. saved' \in 0..lastRequest' /\ late' = late /\ grant' = grant
    BY <1>1, <1>3 DEF Replied, Types, PhoneTypeOK
  <2> QED BY <1>1, <2>2, <2>3 DEF Types, PhoneTypeOK
<1> QED BY <1>1, <1>6, <1>7 DEF Types

\* Calls that are given up while the page waits for them keep their types.
LEMMA LateType ==
  ASSUME Types, NEW calls, MayComeLate(calls), UNCHANGED lastRequest,
         flow.step \in Calls => \A c \in calls : c = LiveCall(FALSE) \/ c = LiveCall(flow.step = "requesting")
  PROVE  /\ late' \subseteq [step : Calls, id : 1..MaxFlows, request : 0..lastRequest', goesOn : BOOLEAN]
         /\ \A c \in late' : c.goesOn => c.step = "requesting"
<1>1. PICK more \in SUBSET (IF flow.reply = "none" /\ flow.step \in Calls THEN calls ELSE {}) :
        late' = late \cup more
  BY DEF MayComeLate
<1>2. ASSUME NEW c \in more
      PROVE  /\ c \in [step : Calls, id : 1..MaxFlows, request : 0..lastRequest, goesOn : BOOLEAN]
             /\ c.goesOn => c.step = "requesting"
  <2>1. flow.step \in Calls /\ (c = LiveCall(FALSE) \/ c = LiveCall(flow.step = "requesting"))
    OBVIOUS
  <2>2. flow.id \in 1..MaxFlows /\ flow.request \in 0..lastRequest
    BY <2>1 DEF Types, PhoneTypeOK, FlowRuns, Busy
  <2>3. c = LiveCall(FALSE) \/ (flow.step = "requesting" /\ c = LiveCall(TRUE))
    <3>1. CASE flow.step = "requesting"
      <4>1. (flow.step = "requesting") = TRUE
        BY <3>1, Zenon
      <4> QED BY <2>1, <3>1, <4>1, Zenon
    <3>2. CASE flow.step # "requesting"
      <4>1. (flow.step = "requesting") = FALSE
        BY <3>2, Zenon
      <4> QED BY <2>1, <4>1, Zenon
    <3> QED BY <3>1, <3>2
  <2>4. ASSUME NEW b \in BOOLEAN, c = LiveCall(b)
        PROVE  /\ c \in [step : Calls, id : 1..MaxFlows, request : 0..lastRequest, goesOn : BOOLEAN]
               /\ c.goesOn = b /\ c.step = flow.step
    BY <2>1, <2>2, <2>4 DEF LiveCall, Call
  <2>5. CASE c = LiveCall(FALSE)
    <3>1. c \in [step : Calls, id : 1..MaxFlows, request : 0..lastRequest, goesOn : BOOLEAN]
          /\ c.goesOn = FALSE
      BY <2>4, <2>5
    <3> QED BY <3>1
  <2>6. CASE flow.step = "requesting" /\ c = LiveCall(TRUE)
    <3>1. c \in [step : Calls, id : 1..MaxFlows, request : 0..lastRequest, goesOn : BOOLEAN]
          /\ c.step = flow.step
      BY <2>4, <2>6
    <3> QED BY <2>6, <3>1
  <2> QED BY <2>3, <2>5, <2>6
<1> QED BY <1>1, <1>2 DEF Types, PhoneTypeOK

\* A call that fails.
LEMMA UnreachedType ==
  ASSUME Types, Unreached
  PROVE  Types'
<1>1. /\ PairingTypeOK' /\ lastRequest' = lastRequest /\ lastRequest \in Nat
  BY LaptopRests DEF Unreached, Types, PairingTypeOK
<1>2. MaxErrors \in Nat \ {0} /\ MaxFlows \in Nat
  BY PhonePairingAssumption
<1>3. /\ flow \in [id : 0..MaxFlows, step : Calls \cup {"waiting"} \cup Ends,
                   request : 0..lastRequest, errors : 0..MaxErrors, reply : {"none"} \cup Answers]
      /\ flow.step \in Calls /\ flow.id \in 1..MaxFlows /\ flow.errors + 1 \in 1..MaxErrors
  BY DEF Unreached, Types, PhoneTypeOK, FlowRuns, Busy
<1>4. /\ late' \subseteq [step : Calls, id : 1..MaxFlows, request : 0..lastRequest', goesOn : BOOLEAN]
      /\ \A c \in late' : c.goesOn => c.step = "requesting"
  BY <1>1, LateType DEF Unreached
<1>5. CASE flow.step = "asking"
  <2>1. flow' = [flow EXCEPT !.step = IF flow.errors + 1 < MaxErrors THEN "waiting" ELSE "failed",
                             !.errors = flow.errors + 1, !.reply = "none"]
    BY <1>3, <1>5 DEF Unreached, Missed
  <2>2. FlowRuns'
    BY <1>2, <1>3, <2>1 DEF FlowRuns, Busy, Calls
  <2>3. PhoneTypeOK'
    <3>1. flow.errors + 1 \in 0..MaxErrors
      BY <1>2, <1>3
    <3>2. flow' \in [id : 0..MaxFlows, step : Calls \cup {"waiting"} \cup Ends,
                      request : 0..lastRequest', errors : 0..MaxErrors, reply : {"none"} \cup Answers]
          /\ flow'.reply = "none"
      BY <1>1, <1>3, <2>1, <3>1 DEF Ends
    <3>3. saved' = saved /\ grant' = grant
      BY DEF Unreached
    <3> QED BY <1>1, <1>4, <3>2, <3>3 DEF Types, PhoneTypeOK
  <2> QED BY <1>1, <2>2, <2>3 DEF Types
<1>6. CASE flow.step # "asking"
  <2>1. flow' = [flow EXCEPT !.step = "failed", !.reply = "none"]
    BY <1>6 DEF Unreached
  <2>2. FlowRuns'
    BY <1>3, <2>1 DEF FlowRuns, Busy, Calls
  <2>3. PhoneTypeOK'
    BY <1>1, <1>3, <1>4, <2>1 DEF Unreached, Types, PhoneTypeOK, Ends
  <2> QED BY <1>1, <2>2, <2>3 DEF Types
<1> QED BY <1>5, <1>6

\* The flow polls again.
LEMMA PollAgainType ==
  ASSUME Types, PollAgain
  PROVE  Types'
<1>1. /\ PairingTypeOK' /\ lastRequest' = lastRequest
  BY LaptopRests DEF PollAgain, Types
<1>2. /\ flow' = [flow EXCEPT !.step = "asking"] /\ flow.step = "waiting" /\ flow.reply = "none"
  BY DEF PollAgain, Types, PhoneTypeOK, Calls
<1>3. FlowRuns'
  BY <1>2 DEF Types, PhoneTypeOK, FlowRuns, Busy, Calls
<1>4. PhoneTypeOK'
  BY <1>1, <1>2 DEF PollAgain, Types, PhoneTypeOK, Calls
<1> QED BY <1>1, <1>3, <1>4 DEF Types

\* The page is closed.
LEMMA CloseType ==
  ASSUME Types, Close
  PROVE  Types'
<1>1. /\ PairingTypeOK' /\ lastRequest' = lastRequest
  BY LaptopRests DEF Close, Types
<1>2. /\ flow' = [flow EXCEPT !.step = "closed", !.reply = "none"]
      /\ flow \in [id : 0..MaxFlows, step : Calls \cup {"waiting"} \cup Ends,
                   request : 0..lastRequest, errors : 0..MaxErrors, reply : {"none"} \cup Answers]
      /\ flow.id \in 1..MaxFlows
  BY DEF Close, Types, PhoneTypeOK, FlowRuns
<1>3. /\ late' \subseteq [step : Calls, id : 1..MaxFlows, request : 0..lastRequest', goesOn : BOOLEAN]
      /\ \A c \in late' : c.goesOn => c.step = "requesting"
  <2>1. CASE flow.reply = "made"
    <3> DEFINE c == Call("revealing", flow.id, flow.request, FALSE)
    <3>1. /\ c \in [step : Calls, id : 1..MaxFlows, request : 0..lastRequest, goesOn : BOOLEAN]
          /\ ~c.goesOn
      BY <1>2 DEF Call, Calls
    <3> HIDE DEF c
    <3>2. late' = late \/ late' = late \cup {c}
      BY <2>1 DEF Close, c
    <3> QED BY <1>1, <3>1, <3>2 DEF Types, PhoneTypeOK
  <2>2. CASE flow.reply # "made"
    BY <1>1, <2>2, LateType DEF Close
  <2> QED BY <2>1, <2>2
<1>4. FlowRuns'
  BY <1>2 DEF FlowRuns, Busy, Calls
<1>5. PhoneTypeOK'
  BY <1>1, <1>2, <1>3 DEF Close, Types, PhoneTypeOK, Ends
<1> QED BY <1>1, <1>4, <1>5 DEF Types

\* The laptop answers the call the page waits for.
LEMMA AnswersType ==
  ASSUME Types, LaptopAnswers
  PROVE  Types'
<1> DEFINE call == LiveCall(FALSE)
<1>1. PICK answer \in Answers :
        /\ Handle(call, answer)
        /\ flow' = [flow EXCEPT !.reply = answer, !.request = RequestOf(call, answer)]
  BY DEF LaptopAnswers
<1>2. /\ flow \in [id : 0..MaxFlows, step : Calls \cup {"waiting"} \cup Ends,
                   request : 0..lastRequest, errors : 0..MaxErrors, reply : {"none"} \cup Answers]
      /\ flow.step \in Calls /\ flow.id \in 1..MaxFlows
      /\ flow.id \in 1..MaxFlows /\ flow.errors + 1 \in 1..MaxErrors
  BY DEF LaptopAnswers, Types, PhoneTypeOK, FlowRuns, Busy
<1>3. call.id = flow.id /\ call.step = flow.step /\ call.request = flow.request
  BY DEF LiveCall, Call
<1> HIDE DEF call
<1>4. LaptopLives
  BY <1>1, <1>2, <1>3, HandlingIsLife DEF Types
<1>5. PairingTypeOK' /\ lastRequest <= lastRequest' /\ lastRequest \in Nat /\ lastRequest' \in Nat
  BY <1>4 DEF LaptopLives, Types, PairingTypeOK
<1>6. 0..lastRequest \subseteq 0..lastRequest' /\ lastRequest' \in 0..lastRequest'
  BY <1>5
<1>7. RequestOf(call, answer) \in 0..lastRequest'
  BY <1>2, <1>3, <1>6 DEF RequestOf
<1>8. /\ flow.step = "requesting" => answer \in {"made", "refused"}
      /\ flow.step = "revealing" => answer \in {"revealed", "refused"}
      /\ flow.step = "asking" => answer \in {"refused", "pending", "approved", "denied"}
  <2>1. PairingTypeOK /\ call.id \in 1..MaxFlows /\ call.step \in Calls
    BY <1>2, <1>3 DEF Types
  <2> QED BY <1>1, <1>3, <2>1, AnswerMeans
<1>9. FlowRuns'
  BY <1>1, <1>2, <1>8 DEF FlowRuns, Calls
<1>10. late' \subseteq [step : Calls, id : 1..MaxFlows, request : 0..lastRequest', goesOn : BOOLEAN]
  <2>1. [step : Calls, id : 1..MaxFlows, request : 0..lastRequest, goesOn : BOOLEAN]
          \subseteq [step : Calls, id : 1..MaxFlows, request : 0..lastRequest', goesOn : BOOLEAN]
    BY <1>6
  <2> QED BY <2>1 DEF LaptopAnswers, Types, PhoneTypeOK
<1>11. PhoneTypeOK'
  BY <1>1, <1>2, <1>6, <1>7, <1>10 DEF LaptopAnswers, Types, PhoneTypeOK
<1> QED BY <1>5, <1>9, <1>11 DEF Types

\* The laptop handles a call that was given up.
LEMMA AnswersLateType ==
  ASSUME Types, LaptopAnswersLate
  PROVE  Types' /\ LaptopLives
<1>1. PICK c \in late, answer \in Answers :
        /\ Handle(c, answer)
        /\ late' = (late \ {c}) \cup
              (IF c.goesOn /\ answer = "made"
               THEN {Call("revealing", c.id, RequestOf(c, answer), FALSE)} ELSE {})
  BY DEF LaptopAnswersLate
<1>2. c \in [step : Calls, id : 1..MaxFlows, request : 0..lastRequest, goesOn : BOOLEAN]
  BY DEF Types, PhoneTypeOK
<1>3. LaptopLives
  BY <1>1, <1>2, HandlingIsLife DEF Types
<1>4. PairingTypeOK' /\ lastRequest <= lastRequest' /\ lastRequest \in Nat /\ lastRequest' \in Nat
  BY <1>3 DEF LaptopLives, Types, PairingTypeOK
<1>5. 0..lastRequest \subseteq 0..lastRequest' /\ lastRequest' \in 0..lastRequest'
  BY <1>4
<1> DEFINE goes == Call("revealing", c.id, RequestOf(c, answer), FALSE)
           LateCall == [step : Calls, id : 1..MaxFlows, request : 0..lastRequest', goesOn : BOOLEAN]
<1>6. goes \in LateCall /\ ~goes.goesOn
  BY <1>2, <1>5 DEF Call, Calls, RequestOf
<1>7. late \subseteq LateCall /\ \A d \in late : d.goesOn => d.step = "requesting"
  <2>1. [step : Calls, id : 1..MaxFlows, request : 0..lastRequest, goesOn : BOOLEAN] \subseteq LateCall
    BY <1>5
  <2> HIDE DEF LateCall
  <2> QED BY <2>1 DEF Types, PhoneTypeOK
<1>8. late' \subseteq late \cup {goes}
  BY <1>1
<1>9. late' \subseteq LateCall /\ \A d \in late' : d.goesOn => d.step = "requesting"
  <2> HIDE DEF goes, LateCall
  <2> QED BY <1>6, <1>7, <1>8
<1>10. UNCHANGED <<flow, saved, grant>>
  BY DEF LaptopAnswersLate
<1>11. FlowRuns'
  BY <1>10 DEF Types, FlowRuns, Busy
<1>12. PhoneTypeOK'
  BY <1>5, <1>9, <1>10 DEF Types, PhoneTypeOK
<1> QED BY <1>3, <1>4, <1>11, <1>12 DEF Types

\* Steps of everybody else.
LEMMA OthersType ==
  ASSUME Types, OthersCall \/ UserApproves \/ UserDenies \/ UserRemoves \/ Timers
  PROVE  Types'
<1>1. PairingTypeOK' /\ lastRequest <= lastRequest' /\ lastRequest \in Nat /\ lastRequest' \in Nat
  BY OthersAreLife DEF LaptopLives, Types, PairingTypeOK
<1>2. 0..lastRequest \subseteq 0..lastRequest'
  BY <1>1
<1>3. /\ grant \in [request : 0..lastRequest, at : Nat, revoked : BOOLEAN, restarted : BOOLEAN]
      /\ now \in Nat
  BY DEF Types, PhoneTypeOK, PairingTypeOK
<1>4. grant' \in [request : 0..lastRequest', at : Nat, revoked : BOOLEAN, restarted : BOOLEAN]
  <2>1. CASE UNCHANGED grant
    BY <1>2, <1>3, <2>1
  <2>2. CASE UserApproves
    <3>1. PICK r \in DOMAIN requests :
            grant' = grant \/ grant' = [request |-> r, at |-> now, revoked |-> FALSE, restarted |-> FALSE]
      BY <2>2 DEF UserApproves
    <3>2. r \in 0..lastRequest
      BY DEF Types, PairingTypeOK, IsMap
    <3>3. [request |-> r, at |-> now, revoked |-> FALSE, restarted |-> FALSE]
            \in [request : 0..lastRequest', at : Nat, revoked : BOOLEAN, restarted : BOOLEAN]
      BY <1>2, <1>3, <3>2
    <3> QED BY <1>2, <1>3, <3>1, <3>3
  <2>3. CASE UserRemoves
    <3>1. grant' = [grant EXCEPT !.revoked = grant.revoked \/ Self \notin DOMAIN devices']
      BY <2>3 DEF UserRemoves
    <3> QED BY <1>2, <1>3, <3>1
  <2> QED BY <2>1, <2>2, <2>3 DEF OthersCall, UserDenies, Timers, phoneVars
<1>5. UNCHANGED <<flow, late, saved>>
  BY DEF OthersCall, UserApproves, UserDenies, UserRemoves, Timers, phoneVars
<1> QED BY <1>1, <1>4, <1>5, PageRests

\* The laptop's restart.
LEMMA RestartsType ==
  ASSUME Types, LaptopRestarts
  PROVE  Types'
<1>1. PairingTypeOK' /\ lastRequest' = lastRequest /\ lastRequest \in Nat
  BY RestartForgets DEF Types, PairingTypeOK
<1>2. grant' \in [request : 0..lastRequest', at : Nat, revoked : BOOLEAN, restarted : BOOLEAN]
  BY <1>1 DEF LaptopRestarts, Types, PhoneTypeOK
<1> QED BY <1>1, <1>2, PageRests DEF LaptopRestarts

\* Every step keeps the types.
LEMMA NextTypes ==
  ASSUME Types, [PhoneNext]_allVars
  PROVE  Types'
<1>1. CASE UNCHANGED allVars
  <2>1. PairingTypeOK' /\ lastRequest' = lastRequest /\ lastRequest \in Nat
    BY <1>1, LaptopRests DEF allVars, Types, PairingTypeOK
  <2> QED BY <1>1, <2>1, PageRests DEF allVars, phoneVars, Types, PhoneTypeOK
<1> QED BY <1>1, BeginType, RepliedType, UnreachedType, PollAgainType, CloseType, AnswersType,
           AnswersLateType, OthersType, RestartsType DEF PhoneNext

\* The page and the laptop keep their types, whatever is lost, late or closed.
THEOREM PhoneTypeCorrect == PhoneSpec => []Types
<1>1. PhoneInit => Types
  <2> SUFFICES ASSUME PhoneInit PROVE Types
    OBVIOUS
  <2>1. PairingTypeOK /\ lastRequest = 0
    BY EmptyMapIsMap, EmptySeq DEF PhoneInit, PairingInit, PairingTypeOK
  <2>2. FlowRuns
    BY DEF PhoneInit, FlowRuns, Busy, Calls
  <2>3. PhoneTypeOK
    BY <2>1, PhonePairingAssumption DEF PhoneInit, PhoneTypeOK, Ends, None
  <2> QED BY <2>1, <2>2, <2>3 DEF Types
<1>2. Types /\ [PhoneNext]_allVars => Types'
  BY NextTypes
<1> QED BY <1>1, <1>2, PTL DEF PhoneSpec

---------------------------------------------------------------------------------
(* What the page is told.                                                        *)

\* A request that is over stays so: ids are never drawn again.
LEMMA OverStays ==
  ASSUME Types, LaptopLives, NEW r \in 1..lastRequest, r \notin DOMAIN requests
  PROVE  r \notin DOMAIN requests'
BY DEF LaptopLives, RequestsLive, Begins

\* While the page rests, its request stays its own, and is over when it was.
LEMMA PageRestsOwn ==
  ASSUME Types, OwnRequest, OverIsOver, UNCHANGED flow,
         LaptopLives \/ DOMAIN requests' = {}
  PROVE  OwnRequest' /\ OverIsOver'
<1> DEFINE r == flow.request
<1>1. CASE DOMAIN requests' = {}
  BY <1>1 DEF OwnRequest, OverIsOver
<1>2. CASE LaptopLives
  <2>1. ASSUME r # None
        PROVE  r \in 1..lastRequest
    BY <2>1 DEF Types, PhoneTypeOK, PairingTypeOK, None
  <2>2. CASE r \notin DOMAIN requests'
    BY <2>2 DEF OwnRequest, OverIsOver
  <2>3. CASE r \in DOMAIN requests' /\ r \in DOMAIN requests
    <3>1. RequestLives(r)
      BY <1>2, <2>3 DEF LaptopLives, RequestsLive
    <3>2. /\ requests'[r].device = requests[r].device /\ requests'[r].commit = requests[r].commit
          /\ requests[r].state # "awaiting_reveal" => requests'[r].state # "awaiting_reveal"
      BY <2>3, <3>1 DEF RequestLives, Stays, Goes, Moves
    <3> QED BY <2>3, <3>2 DEF OwnRequest, OverIsOver
  <2>4. CASE r \in DOMAIN requests' /\ r \notin DOMAIN requests
    <3>1. r \notin 1..lastRequest
      BY <1>2, <2>4 DEF LaptopLives, RequestsLive, Begins
    <3>2. r \in 1..lastRequest'
      BY <1>2, <2>4 DEF LaptopLives, PairingTypeOK, IsMap
    <3>3. r # None
      BY <1>2, <3>2 DEF LaptopLives, PairingTypeOK, None
    <3> QED BY <2>1, <3>1, <3>3
  <2> QED BY <2>2, <2>3, <2>4
<1> QED BY <1>1, <1>2

\* What the page does by itself: it goes where the answer says.
LEMMA PageOwn ==
  ASSUME Types, OwnRequest, OverIsOver, Begin \/ Replied \/ Unreached \/ PollAgain \/ Close
  PROVE  OwnRequest' /\ OverIsOver'
<1>1. requests' = requests
  BY DEF Begin, Replied, Unreached, PollAgain, Close, serviceVars
<1>2. flow \in [id : 0..MaxFlows, step : Calls \cup {"waiting"} \cup Ends,
                request : 0..lastRequest, errors : 0..MaxErrors, reply : {"none"} \cup Answers]
  BY DEF Types, PhoneTypeOK
<1>3. CASE Begin
  <2>1. flow'.step = "requesting" /\ flow'.reply = "none"
    BY <1>3 DEF Begin
  <2> QED BY <2>1 DEF OwnRequest, OverIsOver
<1>4. CASE Replied
  <2>1. /\ flow'.step = After(flow.step, flow.reply) /\ flow'.reply = "none"
        /\ flow'.request = flow.request /\ flow'.id = flow.id
        /\ flow.reply # "none" /\ flow.step \in Calls
    BY <1>2, <1>4 DEF Replied, Types, PhoneTypeOK
  <2>2. CASE flow.step = "requesting"
    <3>1. flow'.step \in {"revealing", "failed"} /\ (flow'.step = "revealing" => flow.reply = "made")
      BY <2>1, <2>2 DEF After
    <3> QED BY <1>1, <2>1, <3>1 DEF OwnRequest, OverIsOver
  <2>3. CASE flow.step = "revealing"
    <3>1. flow'.step \in {"asking", "failed"} /\ (flow'.step = "asking" => flow.reply = "revealed")
      BY <2>1, <2>3 DEF After
    <3> QED BY <1>1, <2>1, <2>3, <3>1 DEF OwnRequest, OverIsOver
  <2>4. CASE flow.step = "asking"
    <3>1. /\ flow.reply \in {"refused", "pending", "approved", "denied"}
          /\ flow'.step = (CASE flow.reply = "refused" -> "expired"
                             [] flow.reply = "pending" -> "waiting"
                             [] OTHER -> flow.reply)
      BY <2>1, <2>4 DEF Types, FlowRuns, After
    <3>2. /\ flow'.step \in {"expired", "waiting", "approved", "denied"}
          /\ flow'.step \in {"expired", "denied"} => flow.reply \in {"refused", "denied"}
      BY <3>1
    <3> QED BY <1>1, <2>1, <2>4, <3>2 DEF OwnRequest, OverIsOver
  <2> QED BY <2>1, <2>2, <2>3, <2>4 DEF Calls
<1>5. CASE Unreached
  <2>1. /\ flow'.request = flow.request /\ flow'.id = flow.id /\ flow'.reply = "none"
        /\ flow'.step = "failed" \/ (flow'.step = "waiting" /\ flow.step = "asking")
    BY <1>2, <1>5 DEF Unreached, Missed
  <2> QED BY <1>1, <2>1 DEF OwnRequest, OverIsOver
<1>6. CASE PollAgain
  <2>1. /\ flow'.request = flow.request /\ flow'.id = flow.id /\ flow'.reply = flow.reply
        /\ flow'.step = "asking" /\ flow.step = "waiting" /\ flow.reply = "none"
    BY <1>2, <1>6 DEF PollAgain, Types, PhoneTypeOK, Calls
  <2> QED BY <1>1, <2>1 DEF OwnRequest, OverIsOver
<1>7. CASE Close
  <2>1. flow'.step = "closed" /\ flow'.reply = "none"
    BY <1>2, <1>7 DEF Close
  <2> QED BY <2>1 DEF OwnRequest, OverIsOver
<1> QED BY <1>3, <1>4, <1>5, <1>6, <1>7

\* The laptop refuses to say how a request stands only when it is over: the phone proves
\* that it is its own.
LEMMA AnswersOwn ==
  ASSUME Types, OwnRequest, OverIsOver, LaptopAnswers
  PROVE  OwnRequest' /\ OverIsOver'
<1> DEFINE call == LiveCall(FALSE)
           r == flow.request
<1>1. PICK answer \in Answers :
        /\ Handle(call, answer)
        /\ flow' = [flow EXCEPT !.reply = answer, !.request = RequestOf(call, answer)]
  BY DEF LaptopAnswers
<1>2. call.id = flow.id /\ call.step = flow.step /\ call.request = flow.request
  BY DEF LiveCall, Call
<1> HIDE DEF call
<1>3. /\ flow.step \in Calls /\ flow.reply = "none" /\ flow.id \in 1..MaxFlows
      /\ flow \in [id : 0..MaxFlows, step : Calls \cup {"waiting"} \cup Ends,
                   request : 0..lastRequest, errors : 0..MaxErrors, reply : {"none"} \cup Answers]
  BY DEF LaptopAnswers, Types, PhoneTypeOK, FlowRuns, Busy
<1>4. /\ flow'.step = flow.step /\ flow'.id = flow.id /\ flow'.reply = answer
      /\ flow'.request = (IF answer = "made" THEN lastRequest' ELSE r)
  BY <1>1, <1>2, <1>3 DEF RequestOf
<1>5. PairingTypeOK /\ call.id \in 1..MaxFlows /\ call.step \in Calls /\ lastRequest \in Nat
  BY <1>2, <1>3 DEF Types, PairingTypeOK
<1>6. LaptopLives
  BY <1>1, <1>5, HandlingIsLife
<1>7. CASE flow.step = "requesting"
  <2>1. /\ answer \in {"made", "refused"}
        /\ answer = "made" => /\ lastRequest' = lastRequest + 1
                              /\ requests'[lastRequest'].device = Self
                              /\ requests'[lastRequest'].commit = flow.id
    BY <1>1, <1>2, <1>5, <1>7, AnswerMeans
  <2>2. CASE answer = "refused"
    BY <1>4, <1>7, <2>2 DEF OwnRequest, OverIsOver
  <2>3. CASE answer = "made"
    BY <1>4, <1>5, <1>7, <2>1, <2>3 DEF OwnRequest, OverIsOver, None
  <2> QED BY <2>1, <2>2, <2>3
<1>8. CASE flow.step = "revealing"
  <2>1. /\ answer \in {"revealed", "refused"}
        /\ answer = "revealed" => Reveal(r, flow.id)
    BY <1>1, <1>2, <1>5, <1>8, AnswerMeans
  <2>2. r # None /\ flow'.request = r
    BY <1>4, <1>8, <2>1 DEF OwnRequest
  <2>3. r \in DOMAIN requests => requests[r].device = Self /\ requests[r].commit = flow.id
    BY <1>8 DEF OwnRequest
  <2>4. r \in 1..lastRequest
    BY <1>3, <1>5, <2>2 DEF None
  <2>5. r \in DOMAIN requests' => requests'[r].device = Self /\ requests'[r].commit = flow.id
    <3>1. CASE r \in DOMAIN requests
      <4>1. RequestLives(r)
        BY <1>6, <3>1 DEF LaptopLives, RequestsLive
      <4> QED BY <2>3, <3>1, <4>1 DEF RequestLives, Stays, Goes, Moves
    <3>2. CASE r \notin DOMAIN requests
      BY <1>6, <2>4, <3>2, OverStays
    <3> QED BY <3>1, <3>2
  <2>6. answer = "revealed" /\ r \in DOMAIN requests' => requests'[r].state # "awaiting_reveal"
    <3> SUFFICES ASSUME Reveal(r, flow.id), r \in DOMAIN requests'
                 PROVE  requests'[r].state # "awaiting_reveal"
      BY <2>1
    <3>1. requests[r].commit = flow.id /\ r \in DOMAIN requests
      BY <2>3 DEF Reveal
    <3>2. requests' = [requests EXCEPT ![r].state = "pending",
                                       ![r].expiresAt = requests[r].createdAt + PairExpiry]
          /\ requests[r] \in PairingRecord
      BY <3>1 DEF Reveal, Types, PairingTypeOK, IsMap
    <3>3. requests'[r].state = "pending"
      BY <3>1, <3>2 DEF PairingRecord
    <3> QED BY <3>3
  <2> QED BY <1>4, <1>8, <2>1, <2>2, <2>5, <2>6 DEF OwnRequest, OverIsOver
<1>9. CASE flow.step = "asking"
  <2>1. /\ answer \in {"refused", "pending", "approved", "denied"}
        /\ answer \in {"refused", "denied"} /\ MayAsk(r, Self, flow.id) => r \notin DOMAIN requests'
        /\ ~MayAsk(r, Self, flow.id) => requests' = requests
    BY <1>1, <1>2, <1>5, <1>9, AnswerMeans
  <2>2. r # None /\ flow'.request = r
    BY <1>4, <1>9, <2>1 DEF OwnRequest
  <2>3. r \in DOMAIN requests => /\ requests[r].device = Self /\ requests[r].commit = flow.id
                                 /\ requests[r].state # "awaiting_reveal"
    BY <1>9 DEF OwnRequest
  <2>4. r \in 1..lastRequest
    BY <1>3, <1>5, <2>2 DEF None
  <2>5. r \in DOMAIN requests' => /\ requests'[r].device = Self /\ requests'[r].commit = flow.id
                                  /\ requests'[r].state # "awaiting_reveal"
    <3>1. CASE r \in DOMAIN requests
      <4>1. RequestLives(r)
        BY <1>6, <3>1 DEF LaptopLives, RequestsLive
      <4> QED BY <2>3, <3>1, <4>1 DEF RequestLives, Stays, Goes, Moves
    <3>2. CASE r \notin DOMAIN requests
      BY <1>6, <2>4, <3>2, OverStays
    <3> QED BY <3>1, <3>2
  <2>6. MayAsk(r, Self, flow.id) <=> r \in DOMAIN requests
    BY <2>3 DEF MayAsk
  <2>7. answer \in {"refused", "denied"} => r \notin DOMAIN requests'
    BY <2>1, <2>6
  <2> QED BY <1>4, <1>9, <2>1, <2>2, <2>5, <2>7 DEF OwnRequest, OverIsOver
<1> QED BY <1>3, <1>7, <1>8, <1>9 DEF Calls

\* Every step keeps what the page knows of its request.
LEMMA NextOwn ==
  ASSUME Types, OwnRequest, OverIsOver, [PhoneNext]_allVars
  PROVE  OwnRequest' /\ OverIsOver'
<1>1. CASE UNCHANGED allVars
  BY <1>1 DEF allVars, serviceVars, phoneVars, OwnRequest, OverIsOver
<1>2. CASE LaptopAnswersLate
  BY <1>2, AnswersLateType, PageRestsOwn DEF LaptopAnswersLate
<1>3. CASE OthersCall \/ UserApproves \/ UserDenies \/ UserRemoves \/ Timers
  <2>1. LaptopLives
    BY <1>3, OthersAreLife DEF Types
  <2>2. UNCHANGED flow
    BY <1>3 DEF OthersCall, UserApproves, UserDenies, UserRemoves, Timers, phoneVars
  <2> QED BY <2>1, <2>2, PageRestsOwn
<1>4. CASE LaptopRestarts
  <2>1. DOMAIN requests' = {} /\ UNCHANGED flow
    BY <1>4, RestartForgets DEF LaptopRestarts, Types
  <2> QED BY <2>1, PageRestsOwn
<1> QED BY <1>1, <1>2, <1>3, <1>4, PageOwn, AnswersOwn DEF PhoneNext

\* An approval can be asked for as long as nothing but its time takes it away.
LEMMA GrantKept ==
  ASSUME Types, GrantLasts, LaptopLives, UNCHANGED <<grant.request, grant.at, grant.restarted>>
  PROVE  GrantLasts'
<1>1. /\ now \in Nat /\ now' \in Nat /\ now' >= now /\ grant.at \in Nat /\ SecretWindow \in Nat
  BY PairingAssumption DEF LaptopLives, Types, PairingTypeOK, PhoneTypeOK
<1> SUFFICES ASSUME grant.request # None, ~grant.restarted, ~(now' >= grant.at + SecretWindow)
             PROVE  /\ grant.request \in DOMAIN requests'
                    /\ requests'[grant.request].state = "approved"
                    /\ requests'[grant.request].expiresAt = grant.at + SecretWindow
  BY DEF GrantLasts
<1>2. ~(now >= grant.at + SecretWindow)
  BY <1>1
<1>3. /\ grant.request \in DOMAIN requests /\ requests[grant.request].state = "approved"
      /\ requests[grant.request].expiresAt = grant.at + SecretWindow
  BY <1>2 DEF GrantLasts
<1>4. RequestLives(grant.request) /\ ~Expired(grant.request)
  BY <1>2, <1>3 DEF LaptopLives, RequestsLive, Expired
<1> QED BY <1>3, <1>4 DEF RequestLives, Stays, Goes, Moves

\* Every step keeps the grant as long as it lasts.
LEMMA NextGrant ==
  ASSUME Types, GrantLasts, [PhoneNext]_allVars
  PROVE  GrantLasts'
<1>1. CASE UNCHANGED <<serviceVars, grant>>
  BY <1>1 DEF serviceVars, GrantLasts
<1>2. CASE LaptopAnswers \/ LaptopAnswersLate
  <2>1. LaptopLives
    <3>1. CASE LaptopAnswersLate
      BY <3>1, AnswersLateType
    <3>2. CASE LaptopAnswers
      <4>1. flow.id \in 1..MaxFlows
        BY <3>2 DEF LaptopAnswers, Types, FlowRuns, Busy
      <4>2. LiveCall(FALSE).id \in 1..MaxFlows
        BY <4>1 DEF LiveCall, Call
      <4> QED BY <3>2, <4>2, HandlingIsLife DEF LaptopAnswers, Types
    <3> QED BY <1>2, <3>1, <3>2
  <2> QED BY <1>2, <2>1, GrantKept DEF LaptopAnswers, LaptopAnswersLate
<1>3. CASE OthersCall \/ UserDenies \/ UserRemoves \/ Timers
  <2>1. LaptopLives
    BY <1>3, OthersAreLife DEF Types
  <2>2. CASE UNCHANGED grant
    BY <2>1, <2>2, GrantKept
  <2>3. CASE UserRemoves
    <3>1. UNCHANGED <<grant.request, grant.at, grant.restarted>>
      BY <2>3 DEF UserRemoves, Types, PhoneTypeOK
    <3> QED BY <2>1, <3>1, GrantKept
  <2> QED BY <1>3, <2>2, <2>3 DEF OthersCall, UserDenies, Timers, phoneVars
<1>4. CASE UserApproves
  <2>1. PICK r \in DOMAIN requests, written \in BOOLEAN :
          /\ Approve(r, written)
          /\ grant' = IF written /\ requests[r].device = Self
                      THEN [request |-> r, at |-> now, revoked |-> FALSE, restarted |-> FALSE]
                      ELSE grant
    BY <1>4 DEF UserApproves
  <2>2. CASE written /\ requests[r].device = Self
    <3>1. requests' = [requests EXCEPT ![r].state = "approved", ![r].expiresAt = now + SecretWindow]
          /\ requests[r] \in PairingRecord
      BY <2>1, <2>2 DEF Approve, Types, PairingTypeOK, IsMap
    <3>2. /\ r \in DOMAIN requests' /\ requests'[r].state = "approved"
          /\ requests'[r].expiresAt = now + SecretWindow
      BY <3>1 DEF PairingRecord
    <3>3. grant'.request = r /\ grant'.at = now
      BY <2>1, <2>2
    <3> QED BY <3>2, <3>3 DEF GrantLasts
  <2>3. CASE ~(written /\ requests[r].device = Self)
    <3>1. LaptopLives
      BY <1>4, OthersAreLife DEF Types
    <3>2. grant' = grant
      BY <2>1, <2>3
    <3> QED BY <3>1, <3>2, GrantKept
  <2> QED BY <2>2, <2>3
<1>5. CASE LaptopRestarts
  <2>1. grant'.restarted = TRUE
    BY <1>5 DEF LaptopRestarts, Types, PhoneTypeOK
  <2> QED BY <2>1 DEF GrantLasts
<1> QED BY <1>1, <1>2, <1>3, <1>4, <1>5
        DEF PhoneNext, allVars, phoneVars, Begin, Replied, Unreached, PollAgain, Close

\* A phone is told that its request was denied or expired only when it is not approved:
\* what its user reads is what the laptop decided, whatever was lost, late or closed.
THEOREM AlwaysToldTruly == PhoneSpec => []ToldTruly
<1>1. PhoneInit => OwnRequest /\ OverIsOver /\ GrantLasts
  BY DEF PhoneInit, PairingInit, EmptyMap, OwnRequest, OverIsOver, GrantLasts, None
<1>2. Types /\ OwnRequest /\ OverIsOver /\ GrantLasts /\ [PhoneNext]_allVars
        => OwnRequest' /\ OverIsOver' /\ GrantLasts'
  BY NextOwn, NextGrant
<1>3. Types /\ OwnRequest /\ OverIsOver /\ GrantLasts => ToldTruly
  BY DEF OwnRequest, OverIsOver, GrantLasts, ToldTruly
<1> QED BY <1>1, <1>2, <1>3, PhoneTypeCorrect, PTL DEF PhoneSpec

---------------------------------------------------------------------------------
(* What the phone saved.                                                         *)

\* Every step keeps the trust the user gave, as long as devices.json can be written.
LEMMA NextGrantStands ==
  ASSUME Types, GrantStands, ~DiskMayFail, [PhoneNext]_allVars
  PROVE  GrantStands'
<1>1. CASE UNCHANGED <<deviceVars, grant>>
  BY <1>1 DEF deviceVars, GrantStands
<1>2. CASE UserApproves
  <2>1. PICK r \in DOMAIN requests, written \in BOOLEAN :
          /\ Approve(r, written)
          /\ grant' = IF written /\ requests[r].device = Self
                      THEN [request |-> r, at |-> now, revoked |-> FALSE, restarted |-> FALSE]
                      ELSE grant
    BY <1>2 DEF UserApproves
  <2>2. /\ written = TRUE /\ devicesFile' = devices'
        /\ devices' = With(devices, requests[r].device, r)
    BY <2>1 DEF Approve, Add, Save
  <2>3. CASE requests[r].device = Self
    <3>1. grant'.request = r /\ Self \in DOMAIN devices' /\ devices'[Self] = r
      BY <2>1, <2>2, <2>3 DEF With
    <3> QED BY <2>2, <3>1 DEF GrantStands
  <2>4. CASE requests[r].device # Self
    <3>1. grant' = grant /\ (Self \in DOMAIN devices => Self \in DOMAIN devices' /\ devices'[Self] = devices[Self])
      BY <2>1, <2>2, <2>4 DEF With
    <3> QED BY <2>2, <3>1 DEF GrantStands
  <2> QED BY <2>3, <2>4
<1>3. CASE UserRemoves
  <2>1. PICK d \in DOMAIN devices, written \in BOOLEAN : RemoveDevice(d, written)
    BY <1>3 DEF UserRemoves, RemovePhone
  <2>2. devices' = Without(devices, {d}) /\ devicesFile' = devices'
    BY <2>1 DEF RemoveDevice, Has, Save
  <2>3. Self \in DOMAIN devices' => Self \in DOMAIN devices /\ devices'[Self] = devices[Self]
    BY <2>2 DEF Without, Restrict
  <2>4. /\ grant'.request = grant.request
        /\ ~grant'.revoked => ~grant.revoked /\ Self \in DOMAIN devices'
    BY <1>3 DEF UserRemoves, Types, PhoneTypeOK
  <2> QED BY <2>2, <2>3, <2>4 DEF GrantStands
<1>4. CASE LaptopRestarts
  <2>1. devices' = devicesFile /\ devicesFile' = devicesFile
    BY <1>4 DEF LaptopRestarts, ServiceRestarts, LoadDevices
  <2>2. grant'.request = grant.request /\ grant'.revoked = grant.revoked
    BY <1>4 DEF LaptopRestarts, Types, PhoneTypeOK
  <2> QED BY <2>1, <2>2 DEF GrantStands
<1>5. CASE Begin \/ Replied \/ Unreached \/ PollAgain \/ Close
  BY <1>1, <1>5 DEF Begin, Replied, Unreached, PollAgain, Close, serviceVars, deviceVars
<1>6. CASE LaptopAnswers \/ LaptopAnswersLate \/ OthersCall \/ UserDenies \/ Timers
  BY <1>1, <1>6 DEF LaptopAnswers, LaptopAnswersLate, Handle, OthersCall, UserDenies, Timers,
                    ServiceSweeps, ServiceWaits, phoneVars
<1> QED BY <1>1, <1>2, <1>3, <1>4, <1>5, <1>6 DEF PhoneNext, allVars, serviceVars, phoneVars, deviceVars

\* The secret the phone saved is the one the laptop trusts, as long as devices.json can
\* be written: until the user removes the phone or approves another request of it.
THEOREM SavedIsAlwaysTrusted == ~DiskMayFail => (PhoneSpec => []SavedIsTrusted)
<1> SUFFICES ASSUME ~DiskMayFail PROVE PhoneSpec => []SavedIsTrusted
  OBVIOUS
<1>1. PhoneInit => GrantStands
  BY DEF PhoneInit, PairingInit, GrantStands, None
<1>2. Types /\ GrantStands /\ [PhoneNext]_allVars => GrantStands'
  BY NextGrantStands
<1>3. Types /\ GrantStands => SavedIsTrusted
  BY DEF Types, GrantStands, SavedIsTrusted
<1> QED BY <1>1, <1>2, <1>3, PhoneTypeCorrect, PTL DEF PhoneSpec

---------------------------------------------------------------------------------
(* The phone with its network implements PairingService: no call that is lost,   *)
(* late or repeated makes the laptop do what no call in time could.              *)

\* What the laptop does with a call of the phone, the pairing service does.
LEMMA HandlingServes ==
  ASSUME NEW call, call.id \in 1..MaxFlows, NEW answer, Handle(call, answer)
  PROVE  [ServiceNext]_serviceVars
<1> DEFINE n == call.id
           r == call.request
<1>1. n \in Nonce /\ Self \in Device
  BY PhonePairingAssumption
<1>2. UNCHANGED <<now, deviceVars>>
  BY DEF Handle
<1>3. UNCHANGED pairingVars => UNCHANGED serviceVars
  BY <1>2 DEF deviceVars, pairingVars, serviceVars
<1>4. ASSUME NEW ip \in Ip, AnswerRequest(n, ip, answer) PROVE PhoneCalls \/ UNCHANGED serviceVars
  <2> HIDE DEF n
  <2> QED BY <1>1, <1>2, <1>3, <1>4 DEF AnswerRequest, PhoneCalls
<1>5. ASSUME AnswerReveal(n, r, answer) PROVE PhoneCalls \/ UNCHANGED serviceVars
  <2> HIDE DEF n, r
  <2>1. Reveal(r, n) \/ DropExpired(r) => r \in DOMAIN requests
    BY DEF Reveal, DropExpired
  <2> QED BY <1>1, <1>2, <1>3, <1>5, <2>1 DEF AnswerReveal, PhoneCalls
<1>6. ASSUME AnswerStatus(n, r, answer) PROVE PhoneCalls \/ UNCHANGED serviceVars
  <2> HIDE DEF n, r
  <2>1. StatusDrops(r, Self, n) => r \in DOMAIN requests
    BY DEF StatusDrops, MayAsk
  <2> QED BY <1>1, <1>2, <1>3, <1>6, <2>1 DEF AnswerStatus, PhoneCalls
<1> QED BY <1>4, <1>5, <1>6 DEF Handle, ServiceNext

\* Every step of phones, network, user and laptop is one of the pairing service, or
\* leaves it as it was.
LEMMA NextServes ==
  ASSUME Types, [PhoneNext]_allVars
  PROVE  [ServiceNext]_serviceVars
<1>1. CASE Begin \/ Replied \/ Unreached \/ PollAgain \/ Close
  BY <1>1 DEF Begin, Replied, Unreached, PollAgain, Close, serviceVars
<1>2. CASE LaptopAnswers
  <2>1. PICK answer \in Answers : Handle(LiveCall(FALSE), answer)
    BY <1>2 DEF LaptopAnswers
  <2>2. LiveCall(FALSE).id \in 1..MaxFlows
    BY <1>2 DEF LaptopAnswers, LiveCall, Call, Types, FlowRuns, Busy
  <2> QED BY <2>1, <2>2, HandlingServes
<1>3. CASE LaptopAnswersLate
  <2>1. PICK c \in late, answer \in Answers : Handle(c, answer)
    BY <1>3 DEF LaptopAnswersLate
  <2>2. c.id \in 1..MaxFlows
    BY DEF Types, PhoneTypeOK
  <2> QED BY <2>1, <2>2, HandlingServes
<1>4. CASE OthersCall
  BY <1>4, PhonePairingAssumption DEF OthersCall, ServiceNext, PhoneCalls
<1>5. CASE UserApproves \/ UserDenies
  BY <1>5 DEF UserApproves, UserDenies, ServiceNext, UserDecides
<1>6. CASE UserRemoves \/ LaptopRestarts \/ Timers
  BY <1>6 DEF UserRemoves, LaptopRestarts, Timers, ServiceNext
<1>7. CASE UNCHANGED allVars
  BY <1>7 DEF allVars
<1> QED BY <1>1, <1>2, <1>3, <1>4, <1>5, <1>6, <1>7 DEF PhoneNext

\* The phone's flow and its network, put together with the laptop, implement the pairing
\* service: what is proved of it (PairingTheorems) holds whatever is lost or comes late.
THEOREM PhoneIsServed == PhoneSpec => ServiceSpec
<1>1. PhoneInit => PairingInit
  BY DEF PhoneInit
<1>2. Types /\ [PhoneNext]_allVars => [ServiceNext]_serviceVars
  BY NextServes
<1> QED BY <1>1, <1>2, PhoneTypeCorrect, PTL DEF PhoneSpec, ServiceSpec

\* So under such a network the laptop keeps its limits and its times, and trusts the phone
\* only by its user.
COROLLARY PhonePairsAsPromised ==
  PhoneSpec => []WithinLimits /\ MovesInTime /\ AnswerSurvives /\ PairedOnlyByUser
BY PhoneIsServed, AlwaysWithinLimits, MovesAreInTime, AnswersSurvive, PairedByUserOnly, PTL

---------------------------------------------------------------------------------
(* What happens in the end.                                                      *)

\* Every record is forgotten, whatever becomes of it and whoever asks for it, if the clock
\* goes on and the timer can sweep what has expired: deadlines are moved, but not for good.
THEOREM AlwaysForgotten == []SweepCanRun /\ ClockRuns => (FairPhoneSpec => EventuallyForgotten)
<1> SUFFICES ASSUME NEW r \in 1..MaxRequests
             PROVE  []SweepCanRun /\ ClockRuns /\ FairPhoneSpec =>
                      ((r \in DOMAIN requests /\ requests[r].createdAt + PairExpiry + SecretWindow <= MaxTime)
                          ~> r \notin DOMAIN requests)
  BY DEF EventuallyForgotten
<1> DEFINE Inv == PairingTypeOK /\ Deadlines /\ LastDeadline
           There == Timed(r)
           Gone == r \notin DOMAIN requests
           Late == now >= MaxTime
<1>1. Inv /\ There /\ [ServiceNext]_serviceVars => There' \/ Gone'
  BY TimedUntilGone
<1>2. Inv /\ Late /\ [ServiceNext]_serviceVars => Late'
  <2>1. ASSUME Inv, Late, [ServiceNext]_serviceVars PROVE Late'
    <3>1. now' >= now /\ now \in Nat /\ now' \in Nat /\ MaxTime \in Nat
      <4>1. PairingTypeOK'
        BY <2>1, StepType
      <4> QED BY <2>1, <4>1, ClockGoesOn, ClockAssumption DEF PairingTypeOK
    <3> QED BY <2>1, <3>1
  <2> QED BY <2>1
<1>3. Inv /\ There /\ Late => r \in DOMAIN requests /\ Expired(r)
  BY TimedUntilGone DEF Timed
<1>4. Inv /\ There /\ Late /\ <<ServiceSweeps /\ UNCHANGED phoneVars>>_allVars => Gone'
  BY <1>3 DEF ServiceSweeps, Sweep, Swept, Delete, Without, Restrict
<1>5. Inv /\ SweepCanRun /\ There /\ Late => ENABLED <<ServiceSweeps /\ UNCHANGED phoneVars>>_allVars
  BY <1>3 DEF SweepCanRun
<1>6. PhoneSpec => []Inv /\ [][ServiceNext]_serviceVars
  BY PhoneIsServed, DeadlinesHold, PTL DEF ServiceSpec
<1> HIDE DEF Inv, There, Gone, Late
<1>7. /\ []Inv /\ [][ServiceNext]_serviceVars /\ []SweepCanRun /\ <>Late
      /\ WF_allVars(ServiceSweeps /\ UNCHANGED phoneVars)
      => (There ~> Gone)
  BY <1>1, <1>2, <1>4, <1>5, PTL
<1>8. []SweepCanRun /\ <>Late /\ FairPhoneSpec => (There ~> Gone)
  BY <1>6, <1>7, PTL DEF FairPhoneSpec
<1> QED BY <1>8, PTL DEF There, Gone, Late, Timed, ClockRuns
=================================================================================
