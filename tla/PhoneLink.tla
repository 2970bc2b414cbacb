------------------------------- MODULE PhoneLink --------------------------------
(*********************************************************************************)
(* The phone's link to one paired laptop (connection.dart): the connect intent,  *)
(* the connect loop, the session, the event stream, Disconnect, the background,  *)
(* and the calls made on the session.                                            *)
(*                                                                               *)
(* The code runs on one thread and is interrupted only where it awaits, so an    *)
(* action is what runs between two awaits, and whatever has begun and waits is a *)
(* record: `loops', `endings', `pausing', `refreshing', `calls'.                 *)
(*                                                                               *)
(* An API client, its session and its token are created and dropped together, so *)
(* the token names all three.  Addresses, routes, items and the lengths of the   *)
(* waits are left out.                                                           *)
(*********************************************************************************)
EXTENDS Maps, Naturals, FiniteSets

CONSTANTS AutoReconnect,   \* the values the setting takes
          Budget,          \* bound: what the user, the network and the laptop start
          MaxCalls,        \* bound: calls on the session at the same time
          MaxTokens,       \* bound: sessions the laptop opens
          PausesIn,        \* the link states in which the app goes to the background
          Overlap          \* whether an abandoned attempt, Disconnect, pause or refresh
                           \* may still run when the address race of a later attempt ends,
                           \* Disconnect when the user or a call asks for a connection,
                           \* and a pause when the app returns

MaxImmediateRetries == 2

ASSUME LinkAssumption == /\ Budget \in Nat
                         /\ MaxCalls \in Nat
                         /\ MaxTokens \in Nat
                         /\ AutoReconnect \subseteq BOOLEAN /\ AutoReconnect # {}
                         /\ Overlap \in BOOLEAN

VARIABLES link,         \* _state
          intent,       \* _intent
          foreground,   \* _foreground
          generation,   \* _generation
          session,      \* _token (and _api), 0 for none
          events        \* _events, 0 for none; it may have been cancelled

VARIABLES streams,      \* the event streams opened and not cancelled
          loops,        \* the connect loops that run, by generation
          endings,      \* the Disconnects that run, by the generation they made
          pausing,      \* whether setForeground(false) waits for its stream to end
          refreshing,   \* the token refreshItems fetches with, 0 for none
          calls         \* the token of each call withSession has made

VARIABLES standing,     \* how the laptop at the saved addresses stands to this phone
          granted,      \* the session the laptop has for this phone, 0 for none
          lastToken,    \* tokens the laptop has given
          spent         \* of the budget

phoneVars == <<link, intent, foreground, generation, session, events, streams, loops,
               endings, pausing, refreshing, calls>>

laptopVars == <<standing, granted, lastToken>>

vars == <<phoneVars, laptopVars, spent>>

Terminal == {"certChanged", "unpaired"}

LinkState == {"paired", "connecting", "connected", "disconnecting", "unreachable"}
             \cup Terminal

Token == 1..MaxTokens

Stream == Nat \ {0}

CallId == 1..MaxCalls

\* Where a loop waits: for the address race, for the laptop to open a session, for its
\* answer, for the addresses to be saved, for the items, for the stream to be cancelled
\* after a failure, for the next try.
Waiting == {"race", "session", "answer", "remember", "fetch", "catch", "wait"}

Outcome == {"retry", "immediate"} \cup Terminal

Loop == [at : Waiting, token : Token \cup {0}, fast : 0..MaxImmediateRetries,
         outcome : Outcome]

TypeOK ==
    /\ link \in LinkState
    /\ intent \in BOOLEAN /\ foreground \in BOOLEAN /\ pausing \in BOOLEAN
    /\ generation \in Nat
    /\ {session, granted, refreshing} \subseteq Token \cup {0}
    /\ events \in Stream \cup {0}
    /\ IsMap(streams, Stream, [generation : 0..generation, token : Token, ended : BOOLEAN])
    /\ IsMap(loops, 1..generation, Loop)
    /\ IsMap(endings, 1..generation, [at : {"cancel", "call", "told"}, token : Token \cup {0}])
    /\ IsMap(calls, CallId, Token)
    /\ standing \in {"knows", "revoked", "another"}
    /\ lastToken \in Token \cup {0}
    /\ spent \in 0..Budget

Init == /\ link = "paired"
        /\ intent = FALSE /\ foreground = TRUE /\ pausing = FALSE
        /\ generation = 0
        /\ session = 0 /\ events = 0 /\ refreshing = 0
        /\ streams = EmptyMap /\ loops = EmptyMap /\ endings = EmptyMap /\ calls = EmptyMap
        /\ standing = "knows"
        /\ granted = 0 /\ lastToken = 0
        /\ spent = 0

Spend == spent < Budget /\ spent' = spent + 1

Free == UNCHANGED spent

---------------------------------------------------------------------------------
(* The stream and the session.                                                   *)

\* _events?.cancel(): what it was listening to is not heard any more.
Unheard(map) == Without(map, {events})

\* The client of a session is closed: the streams it carries come to their end.
Closed(map, token) ==
    [s \in DOMAIN map |-> IF map[s].token = token THEN [map[s] EXCEPT !.ended = TRUE]
                                                  ELSE map[s]]

\* ... and so are the calls it carries, with an error that withSession passes on.
CutOff(token) == calls' = Without(calls, {c \in DOMAIN calls : calls[c] = token})

FreeStream == CHOOSE s \in 1..Cardinality(DOMAIN streams) + 2 :
                 s \notin DOMAIN streams \cup {events}

\* _listen
Listen(g, token) ==
    /\ events' = FreeStream
    /\ streams' = With(Unheard(streams), FreeStream,
                       [generation |-> g, token |-> token, ended |-> FALSE])

---------------------------------------------------------------------------------
(* The connect loop.                                                             *)

Racing(fast) == [at |-> "race", token |-> 0, fast |-> fast, outcome |-> "retry"]

Leave(g) == loops' = Without(loops, {g})

Reach(g, point) == loops' = [loops EXCEPT ![g].at = point]

\* Mutant: the loop does not look whether the app is in the background.
Connect_AnyGround(ground) ==
    /\ intent' = TRUE
    /\ generation' = generation + 1
    /\ link' = "connecting"
    /\ loops' = With(loops, generation + 1, Racing(0))

\* connect() and the first turn of the loop it starts, which in the background ends at once.
Connect(ground) ==
    /\ intent' = TRUE
    /\ generation' = generation + 1
    /\ IF ground THEN /\ link' = "connecting"
                      /\ loops' = With(loops, generation + 1, Racing(0))
                 ELSE /\ link' = "unreachable"
                      /\ UNCHANGED loops

\* The next turn of the loop of generation g.
Turn(g, fast) ==
    /\ UNCHANGED intent
    /\ IF g # generation \/ ~intent
       THEN Leave(g) /\ UNCHANGED link
       ELSE IF foreground
       THEN link' = "connecting" /\ loops' = [loops EXCEPT ![g] = Racing(fast)]
       ELSE link' = "unreachable" /\ Leave(g)

\* An attempt failed: with the setting off that was it, otherwise the loop waits.
GiveUpOrWait(g) ==
    /\ link' = "unreachable"
    /\ \E auto \in AutoReconnect : /\ intent' = (intent /\ auto)
                                  /\ IF auto THEN Reach(g, "wait") ELSE Leave(g)

\* Mutant: the loop does not ask whether it was abandoned during the attempt.
Conclude_Abandoned(g, outcome) ==
    CASE outcome \in Terminal -> /\ intent' = FALSE
                                 /\ link' = outcome
                                 /\ Leave(g)
      [] outcome = "immediate" /\ loops[g].fast < MaxImmediateRetries ->
            Turn(g, loops[g].fast + 1)
      [] OTHER -> GiveUpOrWait(g)

\* Mutant: a terminal problem leaves the intent.
Conclude_KeepsIntent(g, outcome) ==
    IF g # generation
    THEN Leave(g) /\ UNCHANGED <<link, intent>>
    ELSE CASE outcome \in Terminal -> link' = outcome /\ Leave(g) /\ UNCHANGED intent
           [] OTHER -> GiveUpOrWait(g)

\* Mutant: the loop gives up after an attempt that failed, whatever the setting.
Conclude_GivesUp(g, outcome) ==
    IF g # generation
    THEN Leave(g) /\ UNCHANGED <<link, intent>>
    ELSE CASE outcome \in Terminal -> /\ intent' = FALSE
                                      /\ link' = outcome
                                      /\ Leave(g)
           [] OTHER -> /\ link' = "unreachable"
                       /\ Leave(g)
                       /\ UNCHANGED intent

\* What _loop does with the outcome of an attempt that failed.
Conclude(g, outcome) ==
    IF g # generation
    THEN Leave(g) /\ UNCHANGED <<link, intent>>
    ELSE CASE outcome \in Terminal -> /\ intent' = FALSE
                                      /\ link' = outcome
                                      /\ Leave(g)
           [] outcome = "immediate" /\ loops[g].fast < MaxImmediateRetries ->
                 Turn(g, loops[g].fast + 1)
           [] OTHER -> GiveUpOrWait(g)


\* Everything but the loop's own steps leaves these alone.
otherVars == <<foreground, endings, pausing, refreshing, calls>>

\* An attempt meets an exception: the stream is cancelled, and the code waits for that.
Fail(g, outcome) ==
    /\ streams' = Unheard(streams)
    /\ loops' = [loops EXCEPT ![g].at = "catch", ![g].outcome = outcome]
    /\ UNCHANGED <<link, intent, generation, session, events, otherVars, laptopVars>>

InFlight(g) == loops[g].at \in {"session", "answer", "remember", "fetch", "catch"}

\* Nothing begun earlier still runs.
Alone(g) == /\ \A h \in DOMAIN loops \ {g} : ~InFlight(h)
            /\ endings = EmptyMap
            /\ ~pausing
            /\ refreshing = 0

\* Mutant: the winner is used without asking whether the attempt was abandoned.
RaceWon_Abandoned(g) ==
    /\ loops[g].at = "race" /\ standing # "another"
    /\ Reach(g, "session")
    /\ Free
    /\ UNCHANGED <<link, intent, generation, session, events, streams, otherVars, laptopVars>>

\* The probe of an address has reached the laptop.
RaceWon(g) ==
    /\ loops[g].at = "race" /\ standing # "another"
    /\ IF g # generation THEN Leave(g)
                         ELSE (Overlap \/ Alone(g)) /\ Reach(g, "session")
    /\ Free
    /\ UNCHANGED <<link, intent, generation, session, events, streams, otherVars, laptopVars>>

\* No address answers as this laptop, or one does with another certificate.
RaceLost(g) ==
    /\ loops[g].at = "race"
    /\ Overlap \/ Alone(g)
    /\ IF standing = "another" THEN Conclude(g, "certChanged") /\ Free
                               ELSE Conclude(g, "retry") /\ Spend
    /\ UNCHANGED <<generation, session, events, streams, otherVars, laptopVars>>

\* The laptop opens a session, which replaces the one it had for this phone.
LaptopOpens(g) ==
    /\ loops[g].at = "session" /\ standing = "knows"
    /\ lastToken < MaxTokens
    /\ lastToken' = lastToken + 1
    /\ granted' = lastToken'
    /\ loops' = [loops EXCEPT ![g].at = "answer", ![g].token = lastToken']
    /\ Free
    /\ UNCHANGED <<link, intent, generation, session, events, streams, otherVars, standing>>

\* The laptop does not know the phone, or it is another laptop.
SessionRefused(g) ==
    /\ loops[g].at = "session" /\ standing # "knows"
    /\ Fail(g, IF standing = "revoked" THEN "unpaired" ELSE "certChanged")
    /\ Free

\* The session's answer arrives: from now on it is the link's session.
SessionOpened(g) ==
    /\ loops[g].at = "answer"
    /\ session' = loops[g].token
    /\ Reach(g, "remember")
    /\ Free
    /\ UNCHANGED <<link, intent, generation, events, streams, otherVars, laptopVars>>

\* The addresses are saved; the phone listens, then fetches.
Remembered(g) ==
    /\ loops[g].at = "remember"
    /\ Listen(g, loops[g].token)
    /\ Reach(g, "fetch")
    /\ Free
    /\ UNCHANGED <<link, intent, generation, session, otherVars, laptopVars>>

\* The items have arrived.
Fetched(g) ==
    /\ loops[g].at = "fetch" /\ loops[g].token = granted
    /\ IF g = generation THEN link' = "connected" /\ UNCHANGED session
                         ELSE session' = 0 /\ UNCHANGED link
    /\ Leave(g)
    /\ Free
    /\ UNCHANGED <<intent, generation, events, streams, otherVars, laptopVars>>

\* The laptop does not know the session any more.
FetchRefused(g) ==
    /\ loops[g].at = "fetch" /\ loops[g].token # granted
    /\ Fail(g, IF standing = "another" THEN "certChanged" ELSE "immediate")
    /\ Free

\* The network or the phone's storage fails in the middle of an attempt.
AttemptBreaks(g) ==
    /\ loops[g].at \in {"session", "answer", "remember", "fetch"}
    /\ Fail(g, "retry")
    /\ Spend

\* The stream is cancelled: the rest of the attempt's catch, and its outcome.
Caught(g) ==
    /\ loops[g].at = "catch"
    /\ events' = 0
    /\ session' = 0
    /\ streams' = Closed(streams, loops[g].token)
    /\ CutOff(loops[g].token)
    /\ Conclude(g, loops[g].outcome)
    /\ Free
    /\ UNCHANGED <<generation, foreground, endings, pausing, refreshing, laptopVars>>

WaitOver(g) ==
    /\ loops[g].at = "wait"
    /\ Turn(g, loops[g].fast)
    /\ Free
    /\ UNCHANGED <<generation, session, events, streams, otherVars, laptopVars>>

---------------------------------------------------------------------------------
(* What the event stream brings.                                                 *)

\* _onLost for a stream, or a refresh, of the current generation.
LinkLost(map, error) ==
    /\ streams' = Unheard(map)
    /\ session' = 0
    /\ CASE error = "certChanged" -> /\ intent' = FALSE
                                     /\ link' = "certChanged"
                                     /\ UNCHANGED <<generation, loops>>
         [] error # "certChanged" /\ foreground -> Connect(TRUE)
         [] OTHER -> link' = "unreachable" /\ UNCHANGED <<intent, generation, loops>>

\* A request or a stream fails: with the certificate, if that is what changed.
Errors == IF standing = "another" THEN {"none", "certChanged"} ELSE {"none"}

Heard(s) == streams[s].generation = generation

\* The stream ends, fails, or is silent for too long.
StreamLost(s) ==
    /\ IF streams[s].ended \/ streams[s].token # granted THEN Free ELSE Spend
    /\ IF Heard(s) /\ intent
       THEN \E error \in Errors : LinkLost(Without(streams, {s}), error)
       ELSE /\ streams' = Without(streams, {s})
            /\ UNCHANGED <<link, intent, generation, session, loops>>
    /\ UNCHANGED <<events, otherVars, laptopVars>>

\* The laptop says that the session has ended, and ends the stream (_sessionEnded).
StreamExpired(s) ==
    /\ ~streams[s].ended /\ streams[s].token # granted /\ standing # "another"
    /\ IF Heard(s)
       THEN /\ streams' = Unheard(Closed(streams, streams[s].token))
            /\ session' = 0
            /\ CASE standing = "revoked" -> /\ generation' = generation + 1
                                            /\ intent' = FALSE
                                            /\ link' = "unpaired"
                                            /\ UNCHANGED loops
                 [] standing # "revoked" /\ intent -> Connect(foreground)
                 [] OTHER -> UNCHANGED <<link, intent, generation, loops>>
       ELSE /\ streams' = Closed(streams, streams[s].token)
            /\ UNCHANGED <<link, intent, generation, session, loops>>
    /\ Free
    /\ UNCHANGED <<events, otherVars, laptopVars>>

---------------------------------------------------------------------------------
(* The user.                                                                     *)

\* The link icon, while it is grey.
UserConnect ==
    /\ foreground /\ link \notin {"connecting", "connected"}
    /\ Overlap \/ endings = EmptyMap
    /\ Connect(TRUE)
    /\ Spend
    /\ UNCHANGED <<session, events, streams, otherVars, laptopVars>>

\* The link icon, while it is green or turns: disconnect() up to its first await.
UserDisconnect ==
    /\ foreground /\ link \in {"connecting", "connected"}
    /\ intent' = FALSE
    /\ generation' = generation + 1
    /\ streams' = Unheard(streams)
    /\ endings' = With(endings, generation', [at |-> "cancel", token |-> 0])
    /\ Spend
    /\ UNCHANGED <<link, foreground, session, events, loops, pausing, refreshing, calls,
                   laptopVars>>

\* The stream is cancelled: the session is dropped, and the laptop told, if there is one.
EndingGoesOn(e) ==
    /\ endings[e].at = "cancel"
    /\ events' = 0
    /\ session' = 0
    /\ IF session = 0
       THEN link' = "paired" /\ endings' = Without(endings, {e})
       ELSE /\ link' = "disconnecting"
            /\ endings' = [endings EXCEPT ![e] = [at |-> "call", token |-> session]]
    /\ Free
    /\ UNCHANGED <<intent, foreground, generation, streams, loops, pausing, refreshing, calls,
                   laptopVars>>

\* The laptop ends the session.
EndingTold(e) ==
    /\ endings[e].at = "call"
    /\ endings' = [endings EXCEPT ![e].at = "told"]
    /\ granted' = (IF granted = endings[e].token THEN 0 ELSE granted)
    /\ Free
    /\ UNCHANGED <<link, intent, foreground, generation, session, events, streams, loops,
                   pausing, refreshing, calls, standing, lastToken>>

\* The laptop's answer arrives, or the request fails; the client is closed.
EndingDone(e) ==
    /\ \/ endings[e].at = "told" /\ Free
       \/ endings[e].at = "call" /\ Spend
    /\ streams' = Closed(streams, endings[e].token)
    /\ CutOff(endings[e].token)
    /\ link' = "paired"
    /\ endings' = Without(endings, {e})
    /\ UNCHANGED <<intent, foreground, generation, session, events, loops, pausing, refreshing,
                   laptopVars>>

\* setForeground(false); bound: one of them at a time.
Background ==
    /\ link \in PausesIn /\ foreground /\ ~pausing
    /\ foreground' = FALSE
    /\ pausing' = TRUE
    /\ streams' = Unheard(streams)
    /\ Spend
    /\ UNCHANGED <<link, intent, generation, session, events, loops, endings, refreshing, calls,
                   laptopVars>>

Paused ==
    /\ pausing
    /\ pausing' = FALSE
    /\ events' = 0
    /\ Free
    /\ UNCHANGED <<link, intent, foreground, generation, session, streams, loops, endings,
                   refreshing, calls, laptopVars>>

\* Mutant: coming back only looks after a link that is connected.
Foreground_NoConnect ==
    /\ ~foreground /\ refreshing = 0
    /\ Overlap \/ ~pausing
    /\ foreground' = TRUE
    /\ refreshing' = (IF intent /\ link = "connected" THEN session ELSE 0)
    /\ Free
    /\ UNCHANGED <<link, intent, generation, loops, session, events, streams, endings, pausing,
                   calls, laptopVars>>

\* setForeground(true); bound: one refresh at a time.
Foreground ==
    /\ ~foreground /\ refreshing = 0
    /\ Overlap \/ ~pausing
    /\ foreground' = TRUE
    /\ refreshing' = (IF intent /\ link = "connected" THEN session ELSE 0)
    /\ IF intent /\ link = "unreachable"
       THEN Connect(TRUE)
       ELSE UNCHANGED <<link, intent, generation, loops>>
    /\ Free
    /\ UNCHANGED <<session, events, streams, endings, pausing, calls, laptopVars>>

\* refreshItems has the items: it listens again.
Refreshed ==
    /\ refreshing # 0 /\ refreshing = granted
    /\ Listen(generation, refreshing)
    /\ refreshing' = 0
    /\ Free
    /\ UNCHANGED <<link, intent, foreground, generation, session, loops, endings, pausing, calls,
                   laptopVars>>

\* refreshItems fails, which is the loss of the link.
RefreshFails ==
    /\ refreshing # 0
    /\ IF refreshing # granted THEN Free ELSE Spend
    /\ refreshing' = 0
    /\ IF intent THEN \E error \in Errors : LinkLost(streams, error)
                 ELSE UNCHANGED <<link, intent, generation, session, streams, loops>>
    /\ UNCHANGED <<events, foreground, endings, pausing, calls, laptopVars>>

---------------------------------------------------------------------------------
(* Calls on the session: sending, downloading (withSession).                     *)

CallBegins(c) ==
    /\ c \notin DOMAIN calls
    /\ link = "connected" /\ session # 0
    /\ calls' = With(calls, c, session)
    /\ Spend
    /\ UNCHANGED <<link, intent, foreground, generation, session, events, streams, loops,
                   endings, pausing, refreshing, laptopVars>>

\* The call succeeds or fails: nothing of the link changes.
CallEnds(c) ==
    /\ calls' = Without(calls, {c})
    /\ Free
    /\ UNCHANGED <<link, intent, foreground, generation, session, events, streams, loops,
                   endings, pausing, refreshing, laptopVars>>

\* SESSION_EXPIRED: connect, then try once more (which is a call of its own here).
CallExpired(c) ==
    /\ calls[c] # granted /\ standing # "another"
    /\ Overlap \/ endings = EmptyMap
    /\ Connect(foreground)
    /\ calls' = Without(calls, {c})
    /\ Free
    /\ UNCHANGED <<foreground, session, events, streams, endings, pausing, refreshing,
                   laptopVars>>

---------------------------------------------------------------------------------
(* The laptop.                                                                   *)

\* The session expires, or the laptop restarts.
SessionEnds ==
    /\ granted # 0
    /\ granted' = 0
    /\ Spend
    /\ UNCHANGED <<phoneVars, standing, lastToken>>

\* The phone is revoked, or another certificate is served at the laptop's addresses.
StandingChanges ==
    /\ standing = "knows"
    /\ standing' \in {"revoked", "another"}
    /\ granted' = 0
    /\ Spend
    /\ UNCHANGED <<phoneVars, lastToken>>

---------------------------------------------------------------------------------
LoopStep(g) == \/ RaceWon(g) \/ RaceLost(g)
               \/ LaptopOpens(g) \/ SessionRefused(g) \/ SessionOpened(g)
               \/ Remembered(g) \/ Fetched(g) \/ FetchRefused(g) \/ AttemptBreaks(g)
               \/ Caught(g) \/ WaitOver(g)

StreamStep(s) == StreamLost(s) \/ StreamExpired(s)

EndingStep(e) == EndingGoesOn(e) \/ EndingTold(e) \/ EndingDone(e)

CallStep(c) == CallEnds(c) \/ CallExpired(c)

Next == \/ \E g \in DOMAIN loops : LoopStep(g)
        \/ \E s \in DOMAIN streams : StreamStep(s)
        \/ UserConnect \/ UserDisconnect
        \/ \E e \in DOMAIN endings : EndingStep(e)
        \/ Background \/ Paused \/ Foreground \/ Refreshed \/ RefreshFails
        \/ \E c \in CallId : CallBegins(c)
        \/ \E c \in DOMAIN calls : CallStep(c)
        \/ SessionEnds \/ StandingChanges

Spec == Init /\ [][Next]_vars

\* What goes on by itself once nothing fails any more: every await comes to its end.
Progress == /\ Free
            /\ \/ \E g \in DOMAIN loops : LoopStep(g)
               \/ \E s \in DOMAIN streams : StreamStep(s)
               \/ \E e \in DOMAIN endings : EndingStep(e)
               \/ Paused \/ Refreshed \/ RefreshFails

FairSpec == Spec /\ WF_vars(Progress)

---------------------------------------------------------------------------------
(* Whatever overlaps.                                                            *)

\* Abandoned attempts and streams never change what is shown or wanted: a loop or a stream
\* of an earlier generation leaves the state and the intent alone (connection.dart 128, 264,
\* 295).
AbandonedIsSilent ==
    [][/\ \A g \in DOMAIN loops \ {generation} :
             LoopStep(g) => UNCHANGED <<link, intent, generation>>
       /\ \A s \in DOMAIN streams :
             ~Heard(s) /\ StreamStep(s) => UNCHANGED <<link, intent, generation>>]_vars

\* The device secret leaves the phone only while a connection is wanted: an attempt that was
\* still probing addresses when the user disconnected sends nothing (connection.dart 181).
SecretOnlyWhenWanted ==
    [][\A g \in DOMAIN loops :
          loops[g].at = "race" /\ g \in DOMAIN loops' /\ loops'[g].at = "session" => intent]_vars

\* In the background no attempt is started: no connect, no retry, whoever asks
\* (connection.dart 122).
NothingStartsInBackground ==
    [][\A g \in DOMAIN loops' :
          /\ loops'[g].at = "race"
          /\ g \in DOMAIN loops => loops[g].at # "race"
          => foreground']_vars

\* Where the user is told that retrying cannot help, nothing is wanted any more
\* (connection.dart 134, 284, 298).
TerminalIsUnwanted == TypeOK /\ (link \in Terminal => ~intent)

---------------------------------------------------------------------------------
(* When an attempt meets nothing that an earlier one left behind.                *)

Listening == events \in DOMAIN streams

\* A wanted link is connected or being connected: no failure, no return from the
\* background and no interleaving leaves it waiting for nobody.
WantedIsPursued == intent /\ foreground => link = "connected" \/ generation \in DOMAIN loops

\* A link shown as connected has a session and, in the foreground, hears the laptop's
\* events, or is about to when it refreshes.
ConnectedIsReal ==
    intent /\ link = "connected" =>
        session # 0 /\ (foreground => Listening \/ refreshing = session)

\* What the link shows is what it does: connected, it is live; wanted, it is pursued.
StateIsHonest == WantedIsPursued /\ ConnectedIsReal

\* Once nothing fails any more a wanted link gets the session the laptop has and hears its
\* events, or the user is told that it cannot.
WantedIsReached ==
    intent /\ foreground ~>
        ~intent \/ ~foreground \/ (link = "connected" /\ session = granted /\ Listening)

---------------------------------------------------------------------------------
(* What the documentation says.                                                  *)

\* No loop runs, no Disconnect, no pause and no refresh.
AtRest == loops = EmptyMap /\ endings = EmptyMap /\ ~pausing /\ refreshing = 0

\* A link shown as connected has a live session, and in the foreground an event stream.
ConnectedMeansLive ==
    AtRest /\ link = "connected" => session # 0 /\ (foreground => Listening)

\* After Disconnect nothing connects until the user taps the link again.
DisconnectIsFinal ==
    [][link \notin Terminal /\ ~intent /\ intent' => UserConnect]_vars

\* The laptop streams events to this phone only while the link is connected.
StreamOnlyWhileConnected ==
    AtRest => \A s \in DOMAIN streams :
                 ~streams[s].ended /\ streams[s].token = granted => link = "connected"

\* A link shown as merely paired is not wanted.
PairedIsUnwanted == AtRest /\ link = "paired" => ~intent
=================================================================================
