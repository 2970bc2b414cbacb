------------------------------ MODULE PhonePairing ------------------------------
(*********************************************************************************)
(* The phone's side of pairing: PairingFlow of pairing.dart as the pairing page  *)
(* runs it, with the laptop of PairingService at the other end of a network that *)
(* loses calls and answers, or delivers a call after the phone gave it up.       *)
(*                                                                               *)
(* Self is the phone whose app is modelled; the other devices are phones that    *)
(* compete for the laptop's limits.  The nonce of Self's n-th flow is n, 0 that  *)
(* of every other phone.  Saving the credentials (LaptopStore.save) is one step. *)
(*********************************************************************************)
EXTENDS PairingService

CONSTANTS Self,        \* the phone
          MaxFlows,    \* bound on the flows Self begins (of the model)
          MaxErrors    \* _maxConsecutiveNetworkErrors of pairing.dart

ASSUME PhonePairingAssumption ==
    /\ Self \in Device
    /\ MaxFlows \in Nat /\ MaxErrors \in Nat \ {0}
    /\ Nonce = 0..MaxFlows

VARIABLES flow,    \* the flow of the open page, or the last one
          late,    \* calls nobody waits for any more that may still reach the laptop
          saved,   \* the secret the phone keeps, None before the first
          grant    \* ghost: the last approval of Self, and what happened since

phoneVars == <<flow, late, saved, grant>>
allVars == <<serviceVars, phoneVars>>

None == 0
Calls == {"requesting", "revealing", "asking"}
Busy == flow.step \in Calls \cup {"waiting"}
Ends == {"none", "approved", "denied", "expired", "failed", "closed"}
Answers == {"made", "revealed", "pending", "approved", "denied", "refused"}

\* A call of flow id; goesOn says that the flow, closed meanwhile, still awaits it.
Call(step, id, request, goesOn) ==
    [step |-> step, id |-> id, request |-> request, goesOn |-> goesOn]

LiveCall(goesOn) == Call(flow.step, flow.id, flow.request, goesOn)

PhoneTypeOK ==
    /\ flow \in [id : 0..MaxFlows, step : Calls \cup {"waiting"} \cup Ends,
                 request : 0..lastRequest, errors : 0..MaxErrors,
                 reply : {"none"} \cup Answers]
    /\ late \subseteq [step : Calls, id : 1..MaxFlows, request : 0..lastRequest,
                       goesOn : BOOLEAN]
    /\ \A c \in late : c.goesOn => c.step = "requesting"
    /\ saved \in 0..lastRequest
    /\ grant \in [request : 0..lastRequest, at : Nat, revoked : BOOLEAN, restarted : BOOLEAN]
    /\ flow.reply # "none" => flow.step \in Calls

PhoneInit ==
    /\ PairingInit
    /\ flow = [id |-> 0, step |-> "none", request |-> None, errors |-> 0, reply |-> "none"]
    /\ late = {}
    /\ saved = None
    /\ grant = [request |-> None, at |-> 0, revoked |-> FALSE, restarted |-> FALSE]

---------------------------------------------------------------------------------
(* What the laptop does with a call of Self, and what it answers.                *)

AnswerRequest(n, ip, answer) ==
    \/ /\ Request(Self, n, ip)
       /\ answer = IF HasRoom(Self) THEN "made" ELSE "refused"
    \/ /\ Blocked(PairLimiter, pairHits[ip], now)
       /\ answer = "refused"
       /\ UNCHANGED pairingVars

AnswerReveal(n, r, answer) ==
    \/ Reveal(r, n) /\ answer = "revealed"
    \/ DropExpired(r) /\ answer = "refused"
    \/ r \notin DOMAIN requests /\ answer = "refused" /\ UNCHANGED pairingVars

AnswerStatus(n, r, answer) ==
    \/ /\ MayAsk(r, Self, n)
       /\ answer = IF Expired(r) THEN "refused" ELSE requests[r].state
       /\ \/ StatusDrops(r, Self, n)
          \/ ~Expired(r) /\ answer \in {"pending", "approved"} /\ UNCHANGED pairingVars
    \/ /\ ~MayAsk(r, Self, n)
       /\ answer = "refused"
       /\ UNCHANGED pairingVars

Handle(call, answer) ==
    /\ \/ call.step = "requesting" /\ \E ip \in Ip : AnswerRequest(call.id, ip, answer)
       \/ call.step = "revealing" /\ AnswerReveal(call.id, call.request, answer)
       \/ call.step = "asking" /\ AnswerStatus(call.id, call.request, answer)
    /\ UNCHANGED <<now, deviceVars>>

\* The request id an answer carries, or the one the call was about.
RequestOf(call, answer) == IF answer = "made" THEN lastRequest' ELSE call.request

\* The laptop handles the call the page waits for.
LaptopAnswers ==
    /\ flow.step \in Calls /\ flow.reply = "none"
    /\ \E answer \in Answers :
          /\ Handle(LiveCall(FALSE), answer)
          /\ flow' = [flow EXCEPT !.reply = answer,
                                  !.request = RequestOf(LiveCall(FALSE), answer)]
    /\ UNCHANGED <<late, saved, grant>>

\* It handles a call that nobody waits for.  A flow whose page was closed during the
\* request goes on as far as the reveal: only the polling loop looks at _cancelled.
LaptopAnswersLate ==
    /\ \E c \in late, answer \in Answers :
          /\ Handle(c, answer)
          /\ late' = (late \ {c}) \cup
                (IF c.goesOn /\ answer = "made"
                 THEN {Call("revealing", c.id, RequestOf(c, answer), FALSE)} ELSE {})
    /\ UNCHANGED <<flow, saved, grant>>

---------------------------------------------------------------------------------
(* The phone: the page (_start, _retry, dispose) and the flow it listens to.     *)

\* The page opens, or Retry: the first pairing, or pairing again.
Begin ==
    /\ ~Busy
    /\ flow.id < MaxFlows
    /\ flow' = [id |-> flow.id + 1, step |-> "requesting", request |-> None,
                errors |-> 0, reply |-> "none"]
    /\ UNCHANGED <<serviceVars, late, saved, grant>>

\* Where an answer takes the flow.  While it polls, every error the laptop answers
\* except PAIR_DENIED is shown as "The request expired".
After(step, answer) ==
    CASE step = "requesting" -> IF answer = "made" THEN "revealing" ELSE "failed"
      [] step = "revealing"  -> IF answer = "revealed" THEN "asking" ELSE "failed"
      [] OTHER -> CASE answer = "refused" -> "expired"
                    [] answer = "pending" -> "waiting"
                    [] OTHER -> answer

\* An answer reaches the page; an approval is saved and connected (finishPairing).
Replied ==
    /\ flow.reply # "none"
    /\ flow' = [flow EXCEPT !.step = After(flow.step, flow.reply), !.errors = 0,
                            !.reply = "none"]
    /\ saved' = IF flow.reply = "approved" THEN flow.request ELSE saved
    /\ UNCHANGED <<serviceVars, late, grant>>

\* What the phone gives up may still reach the laptop when it has not yet.
MayComeLate(calls) ==
    \E c \in SUBSET (IF flow.reply = "none" /\ flow.step \in Calls THEN calls ELSE {}) :
        Cardinality(c) <= 1 /\ late' = late \cup c

\* Mutant: a poll that fails is not counted.
Missed_Uncounted == [flow EXCEPT !.step = "waiting", !.reply = "none"]

\* A poll fails: the flow polls on until it failed MaxErrors times in a row.
Missed == [flow EXCEPT !.step = IF flow.errors + 1 < MaxErrors THEN "waiting" ELSE "failed",
                       !.errors = @ + 1, !.reply = "none"]

\* A call is lost, or its answer, or it takes too long.
Unreached ==
    /\ flow.step \in Calls
    /\ flow' = IF flow.step = "asking" THEN Missed
               ELSE [flow EXCEPT !.step = "failed", !.reply = "none"]
    /\ MayComeLate({LiveCall(FALSE)})
    /\ UNCHANGED <<serviceVars, saved, grant>>

PollAgain ==
    /\ flow.step = "waiting"
    /\ flow' = [flow EXCEPT !.step = "asking"]
    /\ UNCHANGED <<serviceVars, late, saved, grant>>

\* The page is closed, or the app ends.  A flow closed before its request was
\* answered is still running, and reveals when the answer comes.
Close ==
    /\ Busy
    /\ flow' = [flow EXCEPT !.step = "closed", !.reply = "none"]
    /\ IF flow.reply = "made"
       THEN late' \in {late, late \cup {Call("revealing", flow.id, flow.request, FALSE)}}
       ELSE MayComeLate({LiveCall(FALSE), LiveCall(flow.step = "requesting")})
    /\ UNCHANGED <<serviceVars, saved, grant>>

---------------------------------------------------------------------------------
(* Everybody else: PairingService, and what it means for the ghost.              *)

OthersCall ==
    /\ \/ \E d \in Device \ {Self}, ip \in Ip : Request(d, 0, ip)
       \/ \E r \in DOMAIN requests : requests[r].device # Self /\ Reveal(r, 0)
    /\ UNCHANGED <<now, deviceVars, phoneVars>>

UserApproves ==
    /\ \E r \in DOMAIN requests, written \in BOOLEAN :
          /\ Approve(r, written)
          /\ grant' = IF written /\ requests[r].device = Self
                      THEN [request |-> r, at |-> now, revoked |-> FALSE, restarted |-> FALSE]
                      ELSE grant
    /\ UNCHANGED <<now, flow, late, saved>>

UserDenies ==
    /\ \E r \in DOMAIN requests : Deny(r)
    /\ UNCHANGED <<now, deviceVars, phoneVars>>

UserRemoves ==
    /\ RemovePhone
    /\ grant' = [grant EXCEPT !.revoked = @ \/ Self \notin DOMAIN devices']
    /\ UNCHANGED <<flow, late, saved>>

LaptopRestarts ==
    /\ ServiceRestarts
    /\ grant' = [grant EXCEPT !.restarted = TRUE]
    /\ UNCHANGED <<flow, late, saved>>

Timers == (ServiceSweeps \/ ServiceWaits) /\ UNCHANGED phoneVars

PhoneNext ==
    \/ Begin \/ Replied \/ Unreached \/ PollAgain \/ Close
    \/ LaptopAnswers \/ LaptopAnswersLate
    \/ OthersCall \/ UserApproves \/ UserDenies \/ UserRemoves \/ LaptopRestarts \/ Timers

PhoneSpec == PhoneInit /\ [][PhoneNext]_allVars

\* Time passes, the laptop's timer fires, every call of the phone is answered or
\* fails, and the phone polls.  No call has to succeed and nobody has to decide.
FairPhoneSpec ==
    /\ PhoneSpec
    /\ WF_allVars(ServiceWaits /\ UNCHANGED phoneVars)
    /\ WF_allVars(ServiceSweeps /\ UNCHANGED phoneVars)
    /\ WF_allVars(Replied \/ Unreached)
    /\ WF_allVars(PollAgain)

---------------------------------------------------------------------------------
\* The secret the phone saved is the one the laptop trusts, through lost answers,
\* abandoned attempts and restarts, until the user removes the phone or approves
\* another request of it (devices.js:52, app_controller.dart:165).
SavedIsTrusted ==
    /\ PhoneTypeOK
    /\ (saved # None /\ grant.request = saved /\ ~grant.revoked
           => Self \in DOMAIN devices /\ devices[Self] = saved)

\* A phone is told that its request was denied or expired only when it is not
\* approved: whatever answers were lost, an approval is missed only when its secret
\* window ended or the laptop restarted (pairing.dart:101, pairing.js:139).
ToldTruly ==
    flow.step \in {"denied", "expired"} /\ grant.request = flow.request /\ ~grant.restarted
        => now >= grant.at + SecretWindow

\* Every flow comes to an end by itself: no request is answered "pending" for good
\* and no laptop that went away is polled for good (pairing.dart:92).
FlowEnds ==
    /\ flow.step = "requesting" ~> flow.step # "requesting"
    /\ (/\ Busy /\ flow.step # "requesting"
        /\ flow.request \in DOMAIN requests =>
              requests[flow.request].createdAt + PairExpiry <= MaxTime) ~> ~Busy

\* What the fairness above comes to: the timer finds something to sweep and can do its
\* whole step, and the clock gets to its bound.
SweepCanRun == (\E r \in DOMAIN requests : Expired(r)) => ENABLED <<ServiceSweeps /\ UNCHANGED phoneVars>>_allVars
ClockRuns == <>(now >= MaxTime)

\* "Cancelling leaves everything as it was" (app_controller.dart:181): a phone that
\* closes the page of a second pairing can still connect with what it saved.
CancelLeavesPairing ==
    flow.step = "closed" /\ saved # None /\ Self \in DOMAIN devices => devices[Self] = saved
=================================================================================
