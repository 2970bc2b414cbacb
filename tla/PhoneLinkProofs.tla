----------------------------- MODULE PhoneLinkProofs -----------------------------
(*********************************************************************************)
(* Proofs about the phone's link, for any number of failures, taps, sessions and *)
(* calls, however attempts, Disconnects, pauses and refreshes overlap.           *)
(*********************************************************************************)
EXTENDS PhoneLink, MapTheorems, FiniteSetTheorems

---------------------------------------------------------------------------------
(* The invariant: what is shown and wanted, and the loops; the streams; the rest. *)

\* An attempt that has its session's answer knows the token.
HasToken == \A g \in DOMAIN loops :
               loops[g].at \in {"answer", "remember", "fetch"} => loops[g].token # 0

\* The attempt that is not abandoned and still probes addresses is wanted, or else the
\* certificate has changed, and no address answers.
RaceIsWanted == generation \in DOMAIN loops /\ loops[generation].at = "race"
                   => intent \/ standing = "another"

LinkInv == /\ link \in LinkState
           /\ intent \in BOOLEAN
           /\ generation \in Nat
           /\ IsMap(loops, 1..generation, Loop)
           /\ HasToken
           /\ link \in Terminal => ~intent
           /\ RaceIsWanted

StreamRecord(n) == [generation : 0..n, token : Token, ended : BOOLEAN]

StreamMap(map, n) == IsMap(map, Stream, StreamRecord(n)) /\ IsFiniteSet(DOMAIN map)

StreamInv == events \in Nat /\ StreamMap(streams, generation)

Ending == [at : {"cancel", "call", "told"}, token : Token \cup {0}]

RestInv == /\ foreground \in BOOLEAN /\ pausing \in BOOLEAN
           /\ {session, granted, refreshing} \subseteq Token \cup {0}
           /\ IsMap(endings, 1..generation, Ending)
           /\ IsMap(calls, CallId, Token)
           /\ standing \in {"knows", "revoked", "another"}
           /\ lastToken \in Token \cup {0}
           /\ spent \in 0..Budget

Inv == LinkInv /\ StreamInv /\ RestInv

\* The invariant has the types and what TerminalIsUnwanted adds to them.
LEMMA InvSays ==
  ASSUME Inv
  PROVE  TerminalIsUnwanted
BY DEF Inv, LinkInv, StreamInv, RestInv, TerminalIsUnwanted, TypeOK, StreamMap, StreamRecord,
       Stream, Ending

\* It holds when the app starts.
LEMMA InitInv == Init => Inv
<1> SUFFICES ASSUME Init PROVE Inv
  OBVIOUS
<1>1. DOMAIN EmptyMap = {} /\ IsFiniteSet({})
  BY FS_EmptySet DEF EmptyMap
<1>2. LinkInv
  BY <1>1, EmptyMapIsMap DEF Init, LinkInv, LinkState, Terminal, HasToken, RaceIsWanted
<1>3. StreamInv
  <2>1. \A K, V : IsMap(EmptyMap, K, V)
    BY EmptyMapIsMap
  <2> QED BY <1>1, <2>1 DEF Init, StreamInv, StreamMap
<1>4. RestInv
  <2>1. \A K, V : IsMap(EmptyMap, K, V)
    BY EmptyMapIsMap
  <2>2. 0 \in 0..Budget
    BY LinkAssumption
  <2> QED BY <2>1, <2>2 DEF Init, RestInv
<1> QED BY <1>2, <1>3, <1>4 DEF Inv

---------------------------------------------------------------------------------
(* Loops.                                                                        *)

\* A loop that goes on in a different way is a loop still, and the others do not change.
LEMMA LoopGoesOn ==
  ASSUME LinkInv, NEW g \in DOMAIN loops, NEW loop \in Loop
  PROVE  /\ IsMap([loops EXCEPT ![g] = loop], 1..generation, Loop)
         /\ DOMAIN [loops EXCEPT ![g] = loop] = DOMAIN loops
         /\ [loops EXCEPT ![g] = loop][g] = loop
         /\ \A h \in DOMAIN loops : h # g => [loops EXCEPT ![g] = loop][h] = loops[h]
BY DEF LinkInv, IsMap

\* A loop is a record with these fields.
LEMMA LoopFields ==
  ASSUME LinkInv, NEW g \in DOMAIN loops
  PROVE  /\ loops[g].at \in Waiting /\ loops[g].token \in Token \cup {0}
         /\ loops[g].fast \in 0..MaxImmediateRetries /\ loops[g].outcome \in Outcome
         /\ g \in 1..generation /\ loops[g] \in Loop
BY DEF LinkInv, IsMap, Loop

\* connect() keeps the invariant: what it starts is wanted.
LEMMA ConnectInv ==
  ASSUME LinkInv, NEW ground \in BOOLEAN, Connect(ground)
  PROVE  LinkInv' /\ generation' = generation + 1
<1>1. generation' = generation + 1 /\ generation' \in Nat /\ generation + 1 \in 1..generation'
  BY DEF Connect, LinkInv
<1>2. IsMap(loops, 1..generation', Loop)
  BY <1>1, IsMapMonotonic DEF LinkInv
<1>3. CASE ground
  <2>1. Racing(0) \in Loop
    BY DEF Racing, Loop, Waiting, Outcome, MaxImmediateRetries
  <2>2. loops' = With(loops, generation + 1, Racing(0))
    BY <1>3 DEF Connect
  <2> DEFINE k == generation + 1
             ids == 1..generation'
             new == Racing(0)
  <2> HIDE DEF k, ids, new
  <2>3. /\ IsMap(loops', ids, Loop)
        /\ DOMAIN loops' = DOMAIN loops \cup {k}
        /\ loops'[k] = new
        /\ \A j \in DOMAIN loops : j # k => loops'[j] = loops[j]
    <3>1. k \in ids /\ loops' = With(loops, k, new) /\ IsMap(loops, ids, Loop) /\ new \in Loop
      BY <1>1, <1>2, <2>1, <2>2 DEF k, ids, new
    <3>2. IsMap(loops', ids, Loop)
      BY <3>1, WithProperties
    <3> QED BY <3>1, <3>2 DEF With
  <2>4. HasToken'
    BY <2>3 DEF HasToken, LinkInv, Racing, new
  <2>5. intent' = TRUE /\ link' = "connecting"
    BY <1>3 DEF Connect
  <2>6. RaceIsWanted'
    BY <2>5 DEF RaceIsWanted
  <2> QED BY <1>1, <2>3, <2>4, <2>5, <2>6 DEF LinkInv, LinkState, Terminal, ids
<1>4. CASE ~ground
  BY <1>1, <1>2, <1>4 DEF Connect, LinkInv, LinkState, Terminal, RaceIsWanted, HasToken
<1> QED BY <1>1, <1>3, <1>4

\* A loop that ends leaves the others.
LEMMA LeaveKeeps ==
  ASSUME LinkInv, NEW g \in DOMAIN loops, Leave(g), generation' = generation
  PROVE  /\ IsMap(loops', 1..generation', Loop) /\ HasToken'
         /\ DOMAIN loops' = DOMAIN loops \ {g}
         /\ \A h \in DOMAIN loops' : loops'[h] = loops[h]
<1>1. /\ IsMap(loops', 1..generation, Loop)
      /\ DOMAIN loops' = DOMAIN loops \ {g}
      /\ \A h \in DOMAIN loops \ {g} : loops'[h] = loops[h]
  BY WithoutProperties DEF Leave, LinkInv
<1> QED BY <1>1 DEF HasToken, LinkInv

\* A loop of an earlier generation ends without a trace.
LEMMA LeaveInv ==
  ASSUME LinkInv, NEW g \in DOMAIN loops, Leave(g), g # generation,
         UNCHANGED <<link, intent, generation>>, standing' = standing
  PROVE  LinkInv'
BY LeaveKeeps DEF LinkInv, RaceIsWanted

\* A loop waits for the next thing, and does not begin to probe.
LEMMA ReachInv ==
  ASSUME LinkInv, NEW g \in DOMAIN loops, NEW loop \in Loop, loop.at # "race",
         loop.at \in {"answer", "remember", "fetch"} => loop.token # 0,
         loops' = [loops EXCEPT ![g] = loop],
         link' = link \/ (link' \in LinkState /\ link' \notin Terminal),
         intent' = intent,
         generation' = generation, standing' = standing
  PROVE  LinkInv'
<1>1. /\ IsMap(loops', 1..generation', Loop) /\ DOMAIN loops' = DOMAIN loops
      /\ loops'[g] = loop
      /\ \A h \in DOMAIN loops : h # g => loops'[h] = loops[h]
  BY LoopGoesOn
<1>2. HasToken'
  BY <1>1 DEF HasToken, LinkInv
<1>3. RaceIsWanted'
  BY <1>1 DEF RaceIsWanted, LinkInv
<1> QED BY <1>1, <1>2, <1>3 DEF LinkInv

\* The next turn of a loop: it probes again if that is wanted.
LEMMA TurnInv ==
  ASSUME LinkInv, NEW g \in DOMAIN loops, NEW fast \in 0..MaxImmediateRetries, Turn(g, fast),
         generation' = generation, standing' = standing
  PROVE  LinkInv'
<1>1. CASE g # generation
  <2>1. Leave(g) /\ UNCHANGED <<link, intent>>
    BY <1>1 DEF Turn
  <2> QED BY <1>1, <2>1, LeaveInv
<1>2. CASE g = generation /\ ~intent
  <2>1. Leave(g) /\ UNCHANGED <<link, intent>>
    BY <1>2 DEF Turn
  <2> QED BY <1>2, <2>1, LeaveKeeps DEF LinkInv, RaceIsWanted
<1>3. CASE g = generation /\ intent /\ foreground
  <2>1. Racing(fast) \in Loop /\ Racing(fast).at = "race"
    BY DEF Racing, Loop, Waiting, Outcome, MaxImmediateRetries
  <2>2. loops' = [loops EXCEPT ![g] = Racing(fast)] /\ intent' = intent /\ link' = "connecting"
    BY <1>3 DEF Turn
  <2>3. /\ IsMap(loops', 1..generation', Loop) /\ DOMAIN loops' = DOMAIN loops
        /\ loops'[g] = Racing(fast)
        /\ \A h \in DOMAIN loops : h # g => loops'[h] = loops[h]
    BY <2>1, <2>2, LoopGoesOn
  <2>4. HasToken'
    BY <2>1, <2>3 DEF HasToken, LinkInv
  <2> QED BY <1>3, <2>2, <2>3, <2>4 DEF LinkInv, RaceIsWanted, LinkState, Terminal
<1>4. CASE g = generation /\ intent /\ ~foreground
  <2>1. Leave(g) /\ intent' = intent /\ link' = "unreachable"
    BY <1>4 DEF Turn
  <2> QED BY <1>4, <2>1, LeaveKeeps DEF LinkInv, RaceIsWanted, LinkState, Terminal
<1> QED BY <1>1, <1>2, <1>3, <1>4

\* Whatever an attempt ended with, the loop's next step keeps the invariant.
LEMMA ConcludeInv ==
  ASSUME LinkInv, NEW g \in DOMAIN loops, NEW outcome \in Outcome, Conclude(g, outcome),
         generation' = generation, standing' = standing
  PROVE  LinkInv'
<1>1. CASE g # generation
  BY <1>1, LeaveInv DEF Conclude
<1>2. CASE g = generation /\ outcome \in Terminal
  <2>1. Leave(g) /\ intent' = FALSE /\ link' = outcome
    BY <1>2 DEF Conclude, Terminal
  <2> QED BY <1>2, <2>1, LeaveKeeps DEF LinkInv, RaceIsWanted, LinkState
<1>3. CASE g = generation /\ outcome = "immediate" /\ loops[g].fast < MaxImmediateRetries
  <2>1. Turn(g, loops[g].fast + 1)
    BY <1>3 DEF Conclude, Terminal
  <2>2. loops[g].fast + 1 \in 0..MaxImmediateRetries
    BY <1>3, LoopFields DEF MaxImmediateRetries
  <2> QED BY <2>1, <2>2, TurnInv
<1>4. CASE g = generation /\ outcome \notin Terminal
           /\ ~(outcome = "immediate" /\ loops[g].fast < MaxImmediateRetries)
  <2>1. GiveUpOrWait(g)
    BY <1>4 DEF Conclude
  <2>2. PICK auto \in AutoReconnect : /\ intent' = (intent /\ auto)
                                     /\ IF auto THEN Reach(g, "wait") ELSE Leave(g)
    BY <2>1 DEF GiveUpOrWait
  <2>3. link' = "unreachable" /\ link' \in LinkState /\ link' \notin Terminal
    BY <2>1 DEF GiveUpOrWait, LinkState, Terminal
  <2>4. CASE auto
    <3>1. [loops[g] EXCEPT !.at = "wait"] \in Loop
      BY LoopFields DEF Loop, Waiting
    <3>2. loops' = [loops EXCEPT ![g] = [loops[g] EXCEPT !.at = "wait"]]
      BY <2>2, <2>4 DEF Reach
    <3>3. [loops[g] EXCEPT !.at = "wait"].at = "wait"
      BY LoopFields DEF Loop
    <3>4. intent' = intent
      BY <2>2, <2>4 DEF LinkInv
    <3> QED BY <2>3, <3>1, <3>2, <3>3, <3>4, ReachInv
  <2>5. CASE ~auto
    <3>1. Leave(g) /\ intent' = FALSE
      BY <2>2, <2>5
    <3> QED BY <1>4, <2>3, <3>1, LeaveKeeps DEF LinkInv, RaceIsWanted
  <2> QED BY <2>4, <2>5
<1> QED BY <1>1, <1>2, <1>3, <1>4

\* An attempt waits for the next thing.
LEMMA PointInv ==
  ASSUME LinkInv, NEW g \in DOMAIN loops, NEW point \in Waiting \ {"race"}, Reach(g, point),
         point \in {"answer", "remember", "fetch"} => loops[g].token # 0,
         UNCHANGED <<link, intent, generation>>, standing' = standing
  PROVE  LinkInv'
<1> DEFINE loop == [loops[g] EXCEPT !.at = point]
<1>1. loop \in Loop /\ loop.at = point /\ loop.token = loops[g].token
  BY LoopFields DEF Loop
<1>2. loops' = [loops EXCEPT ![g] = loop]
  BY DEF Reach
<1> HIDE DEF loop
<1> QED BY <1>1, <1>2, ReachInv

---------------------------------------------------------------------------------
(* Streams.                                                                      *)

\* Streams that are not heard any more, or whose client was closed, are streams still.
LEMMA StreamsKept ==
  ASSUME NEW m, NEW n \in Nat, NEW k \in Nat, n <= k, StreamMap(m, n), NEW S, NEW token
  PROVE  StreamMap(m, k) /\ StreamMap(Without(m, S), k) /\ StreamMap(Closed(m, token), k)
<1>1. StreamRecord(n) \subseteq StreamRecord(k)
  BY DEF StreamRecord
<1>2. IsMap(m, Stream, StreamRecord(k)) /\ IsFiniteSet(DOMAIN m)
  BY <1>1, IsMapMonotonic DEF StreamMap
<1>3. IsMap(Without(m, S), Stream, StreamRecord(k)) /\ DOMAIN Without(m, S) \in SUBSET DOMAIN m
  BY <1>2, WithoutProperties
<1>4. IsFiniteSet(DOMAIN Without(m, S))
  BY <1>2, <1>3, FS_Subset
<1>5. IsMap(Closed(m, token), Stream, StreamRecord(k)) /\ DOMAIN Closed(m, token) = DOMAIN m
  BY <1>2 DEF Closed, IsMap, StreamRecord
<1> QED BY <1>2, <1>3, <1>4, <1>5 DEF StreamMap

\* The numbers up to n are n numbers.
LEMMA UpTo ==
  ASSUME NEW n \in Nat
  PROVE  Cardinality(1..n) = n
<1>1. Cardinality(1..n) = IF 1 > n THEN 0 ELSE n - 1 + 1
  BY FS_Interval
<1> QED BY <1>1

\* There is always a number for a new stream.
LEMMA FreeStreamIsFree ==
  ASSUME StreamInv
  PROVE  FreeStream \in Stream /\ FreeStream \notin DOMAIN streams \cup {events}
<1> DEFINE T == DOMAIN streams \cup {events}
           n == Cardinality(DOMAIN streams)
<1>1. IsFiniteSet(DOMAIN streams) /\ n \in Nat
  BY FS_CardinalityType DEF StreamInv, StreamMap
<1>2. IsFiniteSet(T) /\ Cardinality(T) \in Nat /\ Cardinality(T) <= n + 1
  BY <1>1, FS_AddElement, FS_CardinalityType
<1> HIDE DEF n
<1>3. Cardinality(1..n + 2) = n + 2
  <2> DEFINE k == n + 2
  <2>1. k \in Nat
    BY <1>1
  <2> HIDE DEF k
  <2>2. Cardinality(1..k) = k
    BY <2>1, UpTo
  <2> QED BY <2>2 DEF k
<1> HIDE DEF T
<1>4. \E s \in 1..n + 2 : s \notin T
  <2> SUFFICES ASSUME 1..n + 2 \in SUBSET T PROVE FALSE
    OBVIOUS
  <2>1. Cardinality(1..n + 2) <= Cardinality(T)
    BY <1>2, FS_Subset
  <2> QED BY <1>1, <1>2, <1>3, <2>1
<1>5. FreeStream = CHOOSE s \in 1..n + 2 : s \notin T
  BY DEF FreeStream, n, T
<1>6. FreeStream \in 1..n + 2 /\ FreeStream \notin T
  BY <1>4, <1>5
<1> QED BY <1>1, <1>6 DEF T, Stream

\* Listening opens a stream and forgets the one before.
LEMMA ListenInv ==
  ASSUME StreamInv, generation \in Nat, NEW g \in 0..generation, NEW token \in Token,
         Listen(g, token), generation' = generation
  PROVE  StreamInv'
<1> DEFINE new == [generation |-> g, token |-> token, ended |-> FALSE]
           heard == Unheard(streams)
<1>1. FreeStream \in Stream /\ FreeStream \in Nat
  BY FreeStreamIsFree DEF Stream
<1>2. StreamMap(heard, generation)
  BY StreamsKept DEF StreamInv, Unheard
<1>3. new \in StreamRecord(generation)
  BY DEF StreamRecord
<1>4. streams' = With(heard, FreeStream, new) /\ events' = FreeStream
  BY DEF Listen
<1> HIDE DEF new, heard
<1>5. IsMap(streams', Stream, StreamRecord(generation))
  BY <1>1, <1>2, <1>3, <1>4, WithProperties DEF StreamMap
<1>6. DOMAIN streams' = DOMAIN heard \cup {FreeStream}
  BY <1>4 DEF With
<1>7. IsFiniteSet(DOMAIN streams')
  BY <1>2, <1>6, FS_AddElement DEF StreamMap
<1> QED BY <1>1, <1>4, <1>5, <1>7 DEF StreamInv, StreamMap

---------------------------------------------------------------------------------
(* What a step leaves alone.                                                     *)

\* The loops, as long as the certificate does not change back.
LEMMA LinkRests ==
  ASSUME LinkInv, UNCHANGED <<link, intent, generation, loops>>,
         standing = "another" => standing' = "another"
  PROVE  LinkInv'
BY DEF LinkInv, HasToken, RaceIsWanted

\* What is shown changes, and what is wanted only because the certificate did.
LEMMA LinkShows ==
  ASSUME LinkInv, UNCHANGED <<generation, loops, standing>>, NEW wanted \in BOOLEAN,
         intent' = wanted, link' \in LinkState, link' \in Terminal => ~wanted,
         (wanted <=> intent) \/ standing = "another"
  PROVE  LinkInv'
<1>1. HasToken'
  BY DEF LinkInv, HasToken
<1>2. RaceIsWanted'
  BY DEF LinkInv, RaceIsWanted
<1> QED BY <1>1, <1>2 DEF LinkInv

\* connect(), in the foreground or where the app is.
LEMMA ConnectsInv ==
  ASSUME LinkInv, foreground \in BOOLEAN, Connect(TRUE) \/ Connect(foreground)
  PROVE  LinkInv' /\ generation' \in Nat /\ generation <= generation'
<1>1. LinkInv' /\ generation' = generation + 1
  BY ConnectInv, Zenon
<1> QED BY <1>1 DEF LinkInv

\* The streams; those that were cancelled or closed are kept too.
LEMMA StreamsRest ==
  ASSUME LinkInv, StreamInv, NEW S, NEW token, generation' \in Nat, generation <= generation',
         streams' = streams \/ streams' = Without(streams, S) \/ streams' = Closed(streams, token)
             \/ streams' = Without(Closed(streams, token), S),
         events' \in {events, 0}
  PROVE  StreamInv'
<1>1. generation \in Nat /\ StreamMap(streams, generation) /\ events' \in Nat
  BY DEF LinkInv, StreamInv
<1>2. /\ StreamMap(streams, generation') /\ StreamMap(Without(streams, S), generation')
      /\ StreamMap(Closed(streams, token), generation')
  BY <1>1, StreamsKept
<1>3. StreamMap(Without(Closed(streams, token), S), generation')
  BY <1>1, <1>2, StreamsKept
<1> QED BY <1>1, <1>2, <1>3 DEF StreamInv

\* The budget.
LEMMA BudgetKept ==
  ASSUME spent \in 0..Budget, Spend \/ Free
  PROVE  spent' \in 0..Budget
BY LinkAssumption DEF Spend, Free

\* The Disconnects that run, while generations grow.
LEMMA EndingsKept ==
  ASSUME LinkInv, RestInv, generation' \in Nat, generation <= generation'
  PROVE  IsMap(endings, 1..generation', Ending)
<1>1. 1..generation \subseteq 1..generation'
  BY DEF LinkInv
<1> QED BY <1>1, IsMapMonotonic DEF RestInv

\* Everything else, when generations only grow and the calls that end are forgotten.
LEMMA RestRests ==
  ASSUME LinkInv, RestInv, NEW C, generation' \in Nat, generation <= generation',
         UNCHANGED <<foreground, pausing, endings, lastToken>>,
         standing' \in {"knows", "revoked", "another"},
         session' \in Token \cup {0}, granted' \in Token \cup {0}, refreshing' \in Token \cup {0},
         calls' = calls \/ calls' = Without(calls, C),
         Spend \/ Free
  PROVE  RestInv'
<1>1. spent' \in 0..Budget
  BY BudgetKept DEF RestInv
<1>2. IsMap(endings, 1..generation', Ending)
  BY EndingsKept
<1>3. IsMap(calls', CallId, Token)
  <2>1. IsMap(calls, CallId, Token)
    BY DEF RestInv
  <2>2. IsMap(Without(calls, C), CallId, Token)
    BY <2>1, WithoutProperties
  <2> QED BY <2>1, <2>2
<1> QED BY <1>1, <1>2, <1>3 DEF RestInv

\* The tokens in use are tokens.
LEMMA TokensAreTokens ==
  ASSUME RestInv
  PROVE  /\ session \in Token \cup {0} /\ granted \in Token \cup {0}
         /\ refreshing \in Token \cup {0}
         /\ standing \in {"knows", "revoked", "another"}
BY DEF RestInv

---------------------------------------------------------------------------------
(* The steps of the loops.                                                       *)

\* The race for an address is won, or won by an attempt that was abandoned.
LEMMA RaceWonInv ==
  ASSUME Inv, NEW g \in DOMAIN loops, RaceWon(g)
  PROVE  Inv'
<1> USE DEF RaceWon, otherVars, laptopVars
<1>1. LinkInv'
  <2>1. CASE g # generation
    BY <2>1, LeaveInv DEF Inv
  <2>2. CASE g = generation
    BY <2>2, PointInv DEF Inv, Waiting
  <2> QED BY <2>1, <2>2
<1>2. generation' \in Nat /\ generation <= generation'
  BY DEF Inv, LinkInv
<1> QED BY <1>1, <1>2, StreamsRest, RestRests, TokensAreTokens DEF Inv

\* The race is lost.
LEMMA RaceLostInv ==
  ASSUME Inv, NEW g \in DOMAIN loops, RaceLost(g)
  PROVE  Inv'
<1> USE DEF RaceLost, otherVars, laptopVars
<1>1. LinkInv'
  BY ConcludeInv DEF Inv, Outcome, Terminal
<1>2. generation' \in Nat /\ generation <= generation'
  BY DEF Inv, LinkInv
<1> QED BY <1>1, <1>2, StreamsRest, RestRests, TokensAreTokens DEF Inv

\* The laptop opens a session.
LEMMA LaptopOpensInv ==
  ASSUME Inv, NEW g \in DOMAIN loops, LaptopOpens(g)
  PROVE  Inv'
<1> DEFINE loop == [loops[g] EXCEPT !.at = "answer", !.token = lastToken']
<1>1. lastToken' \in Token /\ granted' = lastToken' /\ lastToken' # 0
  BY LinkAssumption DEF LaptopOpens, Inv, RestInv, Token
<1>2. loop \in Loop /\ loop.at = "answer" /\ loop.token = lastToken'
  BY <1>1, LoopFields DEF Inv, Loop, Waiting
<1>3. loops' = [loops EXCEPT ![g] = loop]
  BY DEF LaptopOpens
<1> HIDE DEF loop
<1>4. LinkInv'
  BY <1>1, <1>2, <1>3, ReachInv DEF LaptopOpens, Inv
<1>5. generation' \in Nat /\ generation <= generation'
  BY DEF Inv, LinkInv, LaptopOpens
<1>6. StreamInv'
  BY <1>5, StreamsRest DEF LaptopOpens, Inv
<1>7. spent' \in 0..Budget
  BY BudgetKept DEF LaptopOpens, Inv, RestInv
<1>8. RestInv'
  BY <1>1, <1>7 DEF LaptopOpens, Inv, RestInv, otherVars
<1> QED BY <1>4, <1>6, <1>8 DEF Inv

\* An attempt fails: its stream is not heard any more.
LEMMA FailInv ==
  ASSUME Inv, NEW g \in DOMAIN loops, NEW outcome \in Outcome, Fail(g, outcome), Spend \/ Free
  PROVE  Inv'
<1> DEFINE loop == [loops[g] EXCEPT !.at = "catch", !.outcome = outcome]
<1>1. loop \in Loop /\ loop.at = "catch"
  BY LoopFields DEF Inv, Loop, Waiting
<1>2. loops' = [loops EXCEPT ![g] = loop]
  BY DEF Fail
<1> HIDE DEF loop
<1>3. LinkInv'
  BY <1>1, <1>2, ReachInv DEF Fail, laptopVars, Inv
<1>4. generation' \in Nat /\ generation <= generation'
  BY DEF Inv, LinkInv, Fail
<1>5. StreamInv'
  BY <1>4, StreamsRest DEF Fail, Inv, Unheard
<1>6. RestInv'
  BY <1>4, RestRests, TokensAreTokens DEF Fail, otherVars, laptopVars, Inv
<1> QED BY <1>3, <1>5, <1>6 DEF Inv

\* The laptop refuses, or network or storage fail.
LEMMA FailuresInv ==
  ASSUME Inv, NEW g \in DOMAIN loops, SessionRefused(g) \/ FetchRefused(g) \/ AttemptBreaks(g)
  PROVE  Inv'
<1>1. PICK outcome \in Outcome : Fail(g, outcome) /\ (Spend \/ Free)
  BY DEF SessionRefused, FetchRefused, AttemptBreaks, Outcome, Terminal
<1> QED BY <1>1, FailInv

\* The session's answer arrives.
LEMMA SessionOpenedInv ==
  ASSUME Inv, NEW g \in DOMAIN loops, SessionOpened(g)
  PROVE  Inv'
<1> USE DEF SessionOpened, otherVars, laptopVars
<1>1. loops[g].token # 0 /\ loops[g].token \in Token \cup {0}
  BY LoopFields DEF Inv, LinkInv, HasToken
<1>2. LinkInv'
  BY <1>1, PointInv DEF Inv, Waiting
<1>3. generation' \in Nat /\ generation <= generation'
  BY DEF Inv, LinkInv
<1> QED BY <1>1, <1>2, <1>3, StreamsRest, RestRests, TokensAreTokens DEF Inv

\* The addresses are saved, and the phone listens.
LEMMA RememberedInv ==
  ASSUME Inv, NEW g \in DOMAIN loops, Remembered(g)
  PROVE  Inv'
<1> USE DEF Remembered, otherVars, laptopVars
<1>1. loops[g].token # 0 /\ loops[g].token \in Token /\ generation \in Nat /\ g \in 0..generation
  BY LoopFields DEF Inv, LinkInv, HasToken
<1>2. LinkInv'
  BY <1>1, PointInv DEF Inv, Waiting
<1>3. generation' \in Nat /\ generation <= generation'
  BY DEF Inv, LinkInv
<1>4. StreamInv'
  BY <1>1, ListenInv DEF Inv
<1> QED BY <1>2, <1>3, <1>4, RestRests, TokensAreTokens DEF Inv

\* The items arrive: the link is connected, unless the attempt was abandoned.
LEMMA FetchedInv ==
  ASSUME Inv, NEW g \in DOMAIN loops, Fetched(g)
  PROVE  Inv'
<1> USE DEF Fetched, otherVars, laptopVars
<1>1. LinkInv'
  <2>1. CASE g # generation
    BY <2>1, LeaveInv DEF Inv
  <2>2. CASE g = generation
    BY <2>2, LeaveKeeps DEF Inv, LinkInv, RaceIsWanted, LinkState, Terminal
  <2> QED BY <2>1, <2>2
<1>2. generation' \in Nat /\ generation <= generation'
  BY DEF Inv, LinkInv
<1>3. session' \in Token \cup {0}
  BY TokensAreTokens DEF Inv
<1> QED BY <1>1, <1>2, <1>3, StreamsRest, RestRests, TokensAreTokens DEF Inv

\* The attempt's stream is cancelled, and its client closed.
LEMMA CaughtInv ==
  ASSUME Inv, NEW g \in DOMAIN loops, Caught(g)
  PROVE  Inv'
<1>1. loops[g].outcome \in Outcome
  BY LoopFields DEF Inv
<1>2. LinkInv'
  BY <1>1, ConcludeInv DEF Inv, Caught, laptopVars
<1>3. generation' \in Nat /\ generation <= generation'
  BY DEF Inv, LinkInv, Caught
<1>4. StreamInv'
  BY <1>3, StreamsRest DEF Caught, Inv
<1>5. RestInv'
  BY <1>3, RestRests, TokensAreTokens DEF Caught, CutOff, laptopVars, Inv
<1> QED BY <1>2, <1>4, <1>5 DEF Inv

\* The wait before the next attempt is over.
LEMMA WaitOverInv ==
  ASSUME Inv, NEW g \in DOMAIN loops, WaitOver(g)
  PROVE  Inv'
<1> USE DEF WaitOver, otherVars, laptopVars
<1>1. LinkInv'
  BY TurnInv, LoopFields DEF Inv
<1>2. generation' \in Nat /\ generation <= generation'
  BY DEF Inv, LinkInv
<1> QED BY <1>1, <1>2, StreamsRest, RestRests, TokensAreTokens DEF Inv

---------------------------------------------------------------------------------
(* What the streams bring.                                                       *)

\* The link is lost: it connects again, unless the certificate changed.
LEMMA LinkLostInv ==
  ASSUME LinkInv, RestInv, NEW map, StreamMap(map, generation), events \in Nat, events' = events,
         NEW error \in Errors, LinkLost(map, error), standing' = standing
  PROVE  /\ LinkInv' /\ StreamInv' /\ session' = 0
         /\ generation' \in Nat /\ generation <= generation'
<1>1. streams' = Unheard(map) /\ session' = 0
  BY DEF LinkLost
<1>2. LinkInv' /\ generation' \in Nat /\ generation <= generation'
  <2>1. CASE error = "certChanged"
    <3>1. standing = "another"
      BY <2>1 DEF Errors
    <3>2. intent' = FALSE /\ link' = "certChanged" /\ UNCHANGED <<generation, loops>>
      BY <2>1 DEF LinkLost
    <3>3. LinkInv'
      BY <3>1, <3>2, LinkShows DEF LinkState, Terminal
    <3> QED BY <3>2, <3>3 DEF LinkInv
  <2>2. CASE error # "certChanged" /\ foreground
    <3>1. Connect(TRUE)
      BY <2>2 DEF LinkLost
    <3> QED BY <3>1, ConnectsInv DEF RestInv
  <2>3. CASE error # "certChanged" /\ ~foreground
    <3>1. link' = "unreachable" /\ UNCHANGED <<intent, generation, loops>>
      BY <2>3 DEF LinkLost
    <3> QED BY <3>1 DEF LinkInv, HasToken, RaceIsWanted, LinkState, Terminal
  <2> QED BY <2>1, <2>2, <2>3
<1>3. generation \in Nat
  BY DEF LinkInv
<1>4. StreamMap(Unheard(map), generation')
  BY <1>2, <1>3, StreamsKept DEF Unheard
<1> QED BY <1>1, <1>2, <1>4 DEF StreamInv

\* A stream ends or fails.
LEMMA StreamLostInv ==
  ASSUME Inv, NEW s \in DOMAIN streams, StreamLost(s)
  PROVE  Inv'
<1> DEFINE map == Without(streams, {s})
<1>1. generation \in Nat /\ events \in Nat /\ StreamMap(map, generation)
  BY StreamsKept DEF Inv, LinkInv, StreamInv
<1>2. Spend \/ Free
  BY DEF StreamLost
<1>3. UNCHANGED <<events, otherVars, laptopVars>> /\ standing' = standing
  BY DEF StreamLost, laptopVars
<1>4. CASE Heard(s) /\ intent
  <2>1. PICK error \in Errors : LinkLost(map, error)
    BY <1>4 DEF StreamLost
  <2> HIDE DEF map
  <2>2. /\ LinkInv' /\ StreamInv' /\ session' = 0
        /\ generation' \in Nat /\ generation <= generation'
    BY <1>1, <1>3, <2>1, LinkLostInv DEF Inv
  <2> QED BY <1>2, <1>3, <2>2, RestRests, TokensAreTokens DEF Inv, otherVars, laptopVars
<1>5. CASE ~(Heard(s) /\ intent)
  <2>1. streams' = map /\ UNCHANGED <<link, intent, generation, session, loops>>
    BY <1>5 DEF StreamLost
  <2>2. LinkInv' /\ StreamInv'
    BY <1>1, <1>3, <2>1, LinkRests, StreamsRest DEF Inv
  <2> QED BY <1>1, <1>2, <1>3, <2>1, <2>2, RestRests, TokensAreTokens DEF Inv, otherVars, laptopVars
<1> QED BY <1>4, <1>5

\* The laptop says that the session has ended.
LEMMA StreamExpiredInv ==
  ASSUME Inv, NEW s \in DOMAIN streams, StreamExpired(s)
  PROVE  Inv'
<1> DEFINE token == streams[s].token
<1>1. UNCHANGED <<events, otherVars, laptopVars>> /\ Free /\ standing' = standing
  BY DEF StreamExpired, laptopVars
<1>2. /\ streams' = Closed(streams, token) \/ streams' = Without(Closed(streams, token), {events})
      /\ session' = session \/ session' = 0
  BY DEF StreamExpired, Unheard
<1>3. LinkInv' /\ generation' \in Nat /\ generation <= generation'
  <2>1. CASE UNCHANGED <<link, intent, generation, loops>>
    BY <1>1, <2>1, LinkRests DEF Inv, LinkInv
  <2>2. CASE Connect(foreground)
    BY <2>2, ConnectsInv DEF Inv, RestInv
  <2>3. CASE generation' = generation + 1 /\ intent' = FALSE /\ link' = "unpaired" /\ loops' = loops
    <3>1. generation' \in Nat /\ generation <= generation' /\ generation' \notin 1..generation
          /\ 1..generation \subseteq 1..generation'
      BY <2>3 DEF Inv, LinkInv
    <3>2. IsMap(loops, 1..generation', Loop)
      BY <3>1, IsMapMonotonic DEF Inv, LinkInv
    <3>3. generation' \notin DOMAIN loops
      BY <3>1 DEF Inv, LinkInv, IsMap
    <3> QED BY <2>3, <3>1, <3>2, <3>3
            DEF Inv, LinkInv, HasToken, RaceIsWanted, LinkState, Terminal
  <2> QED BY <2>1, <2>2, <2>3 DEF StreamExpired
<1> HIDE DEF token
<1>4. StreamInv'
  BY <1>1, <1>2, <1>3, StreamsRest DEF Inv
<1> QED BY <1>1, <1>2, <1>3, <1>4, RestRests, TokensAreTokens DEF Inv, otherVars, laptopVars

---------------------------------------------------------------------------------
(* The user, the calls and the laptop.                                           *)

\* The user asks for a connection.
LEMMA UserConnectInv ==
  ASSUME Inv, UserConnect
  PROVE  Inv'
<1>1. LinkInv' /\ generation' \in Nat /\ generation <= generation'
  BY ConnectsInv DEF UserConnect, Inv, RestInv
<1>2. StreamInv'
  BY <1>1, StreamsRest DEF UserConnect, Inv
<1> QED BY <1>1, <1>2, RestRests, TokensAreTokens DEF UserConnect, Inv, otherVars, laptopVars

\* The user disconnects: nothing that runs is of the new generation.
LEMMA UserDisconnectInv ==
  ASSUME Inv, UserDisconnect
  PROVE  Inv'
<1> USE DEF UserDisconnect, laptopVars
<1>1. generation' \in Nat /\ generation <= generation' /\ generation' \notin 1..generation
      /\ 1..generation \subseteq 1..generation' /\ generation' \in 1..generation'
  BY DEF Inv, LinkInv
<1>2. LinkInv'
  <2>1. IsMap(loops, 1..generation', Loop)
    BY <1>1, IsMapMonotonic DEF Inv, LinkInv
  <2>2. generation' \notin DOMAIN loops
    BY <1>1 DEF Inv, LinkInv, IsMap
  <2> QED BY <1>1, <2>1, <2>2 DEF Inv, LinkInv, HasToken, RaceIsWanted
<1>3. StreamInv'
  BY <1>1, StreamsRest DEF Inv, Unheard
<1>4. RestInv'
  <2> DEFINE new == [at |-> "cancel", token |-> 0]
             ids == 1..generation'
             k == generation'
  <2>1. IsMap(endings, ids, Ending)
    BY <1>1, EndingsKept DEF Inv
  <2>2. k \in ids /\ new \in Ending /\ endings' = With(endings, k, new)
    BY <1>1 DEF Ending
  <2> HIDE DEF k, new, ids
  <2>3. IsMap(endings', ids, Ending)
    <3>1. IsMap(With(endings, k, new), ids, Ending)
      BY <2>1, <2>2, WithProperties
    <3> QED BY <2>2, <3>1
  <2>4. spent' \in 0..Budget
    BY BudgetKept DEF Inv, RestInv
  <2> QED BY <2>3, <2>4 DEF Inv, RestInv, ids
<1> QED BY <1>2, <1>3, <1>4 DEF Inv

\* A Disconnect goes on: it drops the session, tells the laptop, closes the client.
LEMMA EndingInv ==
  ASSUME Inv, NEW e \in DOMAIN endings, EndingStep(e)
  PROVE  Inv'
<1>1. IsMap(endings, 1..generation, Ending) /\ generation \in Nat /\ session \in Token \cup {0}
  BY DEF Inv, LinkInv, RestInv
<1>2. /\ UNCHANGED <<intent, foreground, generation, loops, pausing, refreshing, standing, lastToken>>
      /\ link' = link \/ link' \in {"paired", "disconnecting"}
      /\ Spend \/ Free
      /\ session' \in {session, 0} /\ granted' \in {granted, 0} /\ events' \in {events, 0}
      /\ calls' = calls \/ \E C : calls' = Without(calls, C)
      /\ streams' = streams \/ \E token : streams' = Closed(streams, token)
  BY DEF EndingStep, EndingGoesOn, EndingTold, EndingDone, CutOff, laptopVars
<1>3. LinkInv'
  BY <1>2 DEF Inv, LinkInv, HasToken, RaceIsWanted, LinkState, Terminal
<1>4. StreamInv'
  BY <1>1, <1>2, StreamsRest DEF Inv
<1>5. IsMap(endings', 1..generation, Ending)
  <2>1. ASSUME NEW ending \in Ending, endings' = [endings EXCEPT ![e] = ending]
        PROVE  IsMap(endings', 1..generation, Ending)
    BY <1>1, <2>1 DEF IsMap
  <2>2. CASE endings' = Without(endings, {e})
    BY <1>1, <2>2, WithoutProperties
  <2>3. CASE EndingGoesOn(e)
    <3>1. [at |-> "call", token |-> session] \in Ending
      BY <1>1 DEF Ending
    <3> QED BY <2>1, <2>2, <2>3, <3>1 DEF EndingGoesOn
  <2>4. CASE EndingTold(e)
    <3>1. [endings[e] EXCEPT !.at = "told"] \in Ending
      BY <1>1 DEF IsMap, Ending
    <3>2. endings' = [endings EXCEPT ![e] = [endings[e] EXCEPT !.at = "told"]]
      BY <2>4 DEF EndingTold
    <3> QED BY <2>1, <3>1, <3>2
  <2>5. CASE EndingDone(e)
    BY <2>2, <2>5 DEF EndingDone
  <2> QED BY <2>3, <2>4, <2>5 DEF EndingStep
<1>6. IsMap(calls', CallId, Token)
  <2>1. IsMap(calls, CallId, Token)
    BY DEF Inv, RestInv
  <2>2. \A C : IsMap(Without(calls, C), CallId, Token)
    BY <2>1, WithoutProperties
  <2> QED BY <1>2, <2>1, <2>2
<1>7. spent' \in 0..Budget
  BY <1>2, BudgetKept DEF Inv, RestInv
<1>8. RestInv'
  BY <1>2, <1>5, <1>6, <1>7 DEF Inv, RestInv
<1> QED BY <1>3, <1>4, <1>8 DEF Inv

\* The app goes to the background and comes back.
LEMMA GroundInv ==
  ASSUME Inv, Background \/ Paused \/ Foreground
  PROVE  Inv'
<1>1. /\ foreground' \in BOOLEAN /\ pausing' \in BOOLEAN /\ (Spend \/ Free)
      /\ UNCHANGED <<session, endings, calls, granted, lastToken, standing>>
      /\ refreshing' \in Token \cup {0} /\ events' \in {events, 0}
      /\ streams' = streams \/ streams' = Without(streams, {events})
      /\ Connect(TRUE) \/ UNCHANGED <<link, intent, generation, loops>>
  BY DEF Background, Paused, Foreground, laptopVars, Unheard, Inv, RestInv
<1>2. LinkInv' /\ generation' \in Nat /\ generation <= generation'
  <2>1. CASE Connect(TRUE)
    BY <2>1, ConnectsInv DEF Inv, RestInv
  <2>2. CASE UNCHANGED <<link, intent, generation, loops>>
    BY <1>1, <2>2, LinkRests DEF Inv, LinkInv
  <2> QED BY <1>1, <2>1, <2>2
<1>3. StreamInv'
  BY <1>1, <1>2, StreamsRest DEF Inv
<1>4. IsMap(endings', 1..generation', Ending)
  BY <1>1, <1>2, EndingsKept DEF Inv
<1>5. spent' \in 0..Budget
  BY <1>1, BudgetKept DEF Inv, RestInv
<1>6. RestInv'
  BY <1>1, <1>4, <1>5 DEF Inv, RestInv
<1> QED BY <1>2, <1>3, <1>6 DEF Inv

\* The items that the app fetches when it comes back arrive, or fail to.
LEMMA RefreshInv ==
  ASSUME Inv, Refreshed \/ RefreshFails
  PROVE  Inv'
<1>1. generation \in Nat /\ events \in Nat /\ StreamMap(streams, generation)
  BY DEF Inv, LinkInv, StreamInv
<1>2. CASE Refreshed
  <2>1. LinkInv'
    BY <1>2, LinkRests DEF Refreshed, laptopVars, Inv
  <2>2. refreshing \in Token /\ generation \in 0..generation
    BY <1>1, <1>2, TokensAreTokens DEF Refreshed, Inv
  <2>3. StreamInv'
    BY <1>1, <1>2, <2>2, ListenInv DEF Refreshed, Inv
  <2> QED BY <1>1, <1>2, <2>1, <2>3, RestRests, TokensAreTokens DEF Refreshed, laptopVars, Inv
<1>3. CASE RefreshFails /\ intent
  <2>1. PICK error \in Errors : LinkLost(streams, error)
    BY <1>3 DEF RefreshFails
  <2>2. events' = events /\ standing' = standing
    BY <1>3 DEF RefreshFails, laptopVars
  <2>3. /\ LinkInv' /\ StreamInv' /\ session' = 0
        /\ generation' \in Nat /\ generation <= generation'
    BY <1>1, <2>1, <2>2, LinkLostInv DEF Inv
  <2> QED BY <1>3, <2>3, RestRests, TokensAreTokens DEF RefreshFails, laptopVars, Inv
<1>4. CASE RefreshFails /\ ~intent
  <2>1. LinkInv' /\ StreamInv'
    BY <1>1, <1>4, LinkRests, StreamsRest DEF RefreshFails, laptopVars, Inv
  <2> QED BY <1>1, <1>4, <2>1, RestRests, TokensAreTokens DEF RefreshFails, laptopVars, Inv
<1> QED BY <1>2, <1>3, <1>4

\* Calls on the session.
LEMMA CallsInv ==
  ASSUME Inv,
         \/ \E c \in CallId : CallBegins(c)
         \/ \E c \in DOMAIN calls : CallStep(c)
  PROVE  Inv'
<1>1. UNCHANGED <<foreground, session, events, streams, endings, pausing, refreshing,
                  granted, lastToken, standing>> /\ (Spend \/ Free)
  BY DEF CallBegins, CallStep, CallEnds, CallExpired, laptopVars
<1>2. LinkInv' /\ generation' \in Nat /\ generation <= generation'
  <2>1. Connect(foreground) \/ UNCHANGED <<link, intent, generation, loops>>
    BY DEF CallBegins, CallStep, CallEnds, CallExpired
  <2>2. foreground \in BOOLEAN
    BY DEF Inv, RestInv
  <2>3. CASE Connect(foreground)
    BY <2>2, <2>3, ConnectsInv DEF Inv
  <2>4. CASE UNCHANGED <<link, intent, generation, loops>>
    BY <1>1, <2>4, LinkRests DEF Inv, LinkInv
  <2> QED BY <2>1, <2>3, <2>4
<1>3. StreamInv'
  BY <1>1, <1>2, StreamsRest DEF Inv
<1>4. CASE \E c \in DOMAIN calls : calls' = Without(calls, {c})
  BY <1>1, <1>2, <1>3, <1>4, RestRests, TokensAreTokens DEF Inv
<1>5. CASE \E c \in CallId : CallBegins(c)
  <2>1. PICK c \in CallId : CallBegins(c)
    BY <1>5
  <2>2. session \in Token /\ calls' = With(calls, c, session) /\ IsMap(calls, CallId, Token)
    BY <2>1, TokensAreTokens DEF CallBegins, Inv, RestInv
  <2>3. IsMap(calls', CallId, Token)
    BY <2>2, WithProperties
  <2>4. spent' \in 0..Budget
    BY <1>1, BudgetKept DEF Inv, RestInv
  <2>5. RestInv'
    BY <1>1, <2>1, <2>3, <2>4 DEF CallBegins, Inv, RestInv
  <2> QED BY <1>2, <1>3, <2>5 DEF Inv
<1> QED BY <1>4, <1>5 DEF CallStep, CallEnds, CallExpired

\* The laptop ends the session, forgets the phone, or is another one.
LEMMA LaptopInv ==
  ASSUME Inv, SessionEnds \/ StandingChanges
  PROVE  Inv'
<1>1. UNCHANGED phoneVars /\ Spend /\ granted' = 0 /\ lastToken' = lastToken
      /\ standing' \in {"knows", "revoked", "another"} /\ (standing = "another" => standing' = "another")
  BY DEF SessionEnds, StandingChanges, Inv, RestInv
<1>2. generation' \in Nat /\ generation <= generation'
  BY <1>1 DEF Inv, LinkInv, phoneVars
<1>3. LinkInv' /\ StreamInv'
  BY <1>1, <1>2, LinkRests, StreamsRest DEF Inv, phoneVars
<1> QED BY <1>1, <1>2, <1>3, RestRests, TokensAreTokens DEF Inv, phoneVars

\* No step breaks the invariant.
LEMMA StepInv == Inv /\ [Next]_vars => Inv'
<1> SUFFICES ASSUME Inv, [Next]_vars PROVE Inv'
  OBVIOUS
<1>1. CASE UNCHANGED vars
  BY <1>1 DEF vars, phoneVars, laptopVars, Inv, LinkInv, HasToken, RaceIsWanted, StreamInv, RestInv
<1>2. ASSUME NEW g \in DOMAIN loops, LoopStep(g) PROVE Inv'
  BY <1>2, RaceWonInv, RaceLostInv, LaptopOpensInv, FailuresInv, SessionOpenedInv, RememberedInv,
     FetchedInv, CaughtInv, WaitOverInv DEF LoopStep
<1>3. ASSUME NEW s \in DOMAIN streams, StreamStep(s) PROVE Inv'
  BY <1>3, StreamLostInv, StreamExpiredInv DEF StreamStep
<1> QED BY <1>1, <1>2, <1>3, UserConnectInv, UserDisconnectInv, EndingInv, GroundInv, RefreshInv,
           CallsInv, LaptopInv DEF Next

\* The invariant holds in every reachable state.
LEMMA AlwaysInv == Spec => []Inv
<1> QED BY InitInv, StepInv, PTL DEF Spec

---------------------------------------------------------------------------------
(* How an attempt begins, and when it sends the secret.                          *)

\* An attempt begins in the foreground only, and sends the secret only when it is wanted.
AttemptsBehave ==
    /\ \A g \in DOMAIN loops' :
          loops'[g].at = "race" /\ (g \in DOMAIN loops => loops[g].at # "race") => foreground'
    /\ \A g \in DOMAIN loops :
          loops[g].at = "race" /\ g \in DOMAIN loops' /\ loops'[g].at = "session" => intent

\* No loop begins or goes on.
LEMMA LoopsRest ==
  ASSUME loops' = loops
  PROVE  AttemptsBehave
BY DEF AttemptsBehave

\* A loop ends.
LEMMA LeaveBehaves ==
  ASSUME LinkInv, NEW g, Leave(g)
  PROVE  AttemptsBehave
<1>1. DOMAIN loops' = DOMAIN loops \ {g} /\ \A h \in DOMAIN loops \ {g} : loops'[h] = loops[h]
  BY WithoutProperties DEF Leave, LinkInv
<1> QED BY <1>1 DEF AttemptsBehave

\* A loop goes on.
LEMMA LoopBehaves ==
  ASSUME LinkInv, NEW g \in DOMAIN loops, NEW loop \in Loop, loops' = [loops EXCEPT ![g] = loop],
         loop.at = "race" => foreground', loop.at = "session" => intent
  PROVE  AttemptsBehave
<1>1. /\ DOMAIN loops' = DOMAIN loops /\ loops'[g] = loop
      /\ \A h \in DOMAIN loops : h # g => loops'[h] = loops[h]
  BY LoopGoesOn
<1> QED BY <1>1 DEF AttemptsBehave

\* A loop waits for the next thing.
LEMMA PointBehaves ==
  ASSUME LinkInv, NEW g \in DOMAIN loops, NEW point \in Waiting \ {"race"}, Reach(g, point),
         point = "session" => intent
  PROVE  AttemptsBehave
<1> DEFINE loop == [loops[g] EXCEPT !.at = point]
<1>1. loop \in Loop /\ loop.at = point
  BY LoopFields DEF Loop
<1>2. loops' = [loops EXCEPT ![g] = loop]
  BY DEF Reach
<1> HIDE DEF loop
<1> QED BY <1>1, <1>2, LoopBehaves

\* connect() starts a loop, if the app is in the foreground.
LEMMA ConnectBehaves ==
  ASSUME LinkInv, NEW ground, Connect(ground), ground => foreground'
  PROVE  AttemptsBehave
<1>1. CASE ~ground
  BY <1>1, LoopsRest DEF Connect
<1>2. CASE ground
  <2> DEFINE k == generation + 1
             new == Racing(0)
  <2>1. loops' = With(loops, k, new)
    BY <1>2 DEF Connect
  <2>2. k \notin DOMAIN loops
    BY DEF LinkInv, IsMap
  <2> HIDE DEF k, new
  <2>3. DOMAIN loops' = DOMAIN loops \cup {k} /\ \A h \in DOMAIN loops : loops'[h] = loops[h]
    BY <2>1, <2>2 DEF With
  <2> QED BY <1>2, <2>3 DEF AttemptsBehave
<1> QED BY <1>1, <1>2

\* A turn begins an attempt in the foreground.
LEMMA TurnBehaves ==
  ASSUME LinkInv, NEW g \in DOMAIN loops, NEW fast \in 0..MaxImmediateRetries, Turn(g, fast),
         foreground' = foreground
  PROVE  AttemptsBehave
<1>1. CASE Leave(g)
  BY <1>1, LeaveBehaves
<1>2. CASE foreground /\ loops' = [loops EXCEPT ![g] = Racing(fast)]
  <2>1. Racing(fast) \in Loop /\ Racing(fast).at = "race"
    BY DEF Racing, Loop, Waiting, Outcome, MaxImmediateRetries
  <2> QED BY <1>2, <2>1, LoopBehaves
<1> QED BY <1>1, <1>2 DEF Turn

\* So does what follows a failed attempt.
LEMMA ConcludeBehaves ==
  ASSUME LinkInv, NEW g \in DOMAIN loops, NEW outcome \in Outcome, Conclude(g, outcome),
         foreground' = foreground
  PROVE  AttemptsBehave
<1>1. CASE Leave(g)
  BY <1>1, LeaveBehaves
<1>2. CASE loops[g].fast < MaxImmediateRetries /\ Turn(g, loops[g].fast + 1)
  <2>1. loops[g].fast + 1 \in 0..MaxImmediateRetries
    BY <1>2, LoopFields DEF MaxImmediateRetries
  <2> QED BY <1>2, <2>1, TurnBehaves
<1>3. CASE Reach(g, "wait")
  BY <1>3, PointBehaves DEF Waiting
<1>4. Leave(g) \/ (loops[g].fast < MaxImmediateRetries /\ Turn(g, loops[g].fast + 1))
        \/ Reach(g, "wait")
  <2>1. CASE g # generation
    BY <2>1 DEF Conclude
  <2>2. CASE g = generation /\ outcome \in Terminal
    BY <2>2 DEF Conclude, Terminal
  <2>3. CASE g = generation /\ outcome \notin Terminal
    BY <2>3 DEF Conclude, GiveUpOrWait
  <2> QED BY <2>1, <2>2, <2>3
<1> QED BY <1>1, <1>2, <1>3, <1>4

\* The steps of a loop. The race is won for a wanted attempt only: if the certificate had
\* changed, no address would answer.
LEMMA LoopStepBehaves ==
  ASSUME Inv, NEW g \in DOMAIN loops, LoopStep(g)
  PROVE  AttemptsBehave
<1>1. LinkInv /\ g \in 1..generation
  BY LoopFields DEF Inv
<1>2. CASE RaceWon(g)
  <2>1. CASE g # generation
    BY <1>1, <1>2, <2>1, LeaveBehaves DEF RaceWon
  <2>2. CASE g = generation
    <3>1. intent
      BY <1>1, <1>2, <2>2 DEF RaceWon, LinkInv, RaceIsWanted
    <3> QED BY <1>1, <1>2, <2>2, <3>1, PointBehaves DEF RaceWon, Waiting
  <2> QED BY <2>1, <2>2
<1>3. CASE RaceLost(g)
  <2>1. PICK outcome \in Outcome : Conclude(g, outcome)
    BY <1>3 DEF RaceLost, Outcome, Terminal
  <2>2. foreground' = foreground
    BY <1>3 DEF RaceLost, otherVars
  <2> QED BY <1>1, <2>1, <2>2, ConcludeBehaves
<1>4. CASE LaptopOpens(g)
  <2> DEFINE loop == [loops[g] EXCEPT !.at = "answer", !.token = lastToken']
  <2>1. lastToken' \in Token
    BY <1>4, LinkAssumption DEF LaptopOpens, Inv, RestInv, Token
  <2>2. loop \in Loop /\ loop.at = "answer"
    BY <1>1, <2>1, LoopFields DEF Loop, Waiting
  <2>3. loops' = [loops EXCEPT ![g] = loop]
    BY <1>4 DEF LaptopOpens
  <2> HIDE DEF loop
  <2> QED BY <1>1, <2>2, <2>3, LoopBehaves
<1>5. CASE SessionRefused(g) \/ FetchRefused(g) \/ AttemptBreaks(g)
  <2>1. PICK outcome \in Outcome : Fail(g, outcome)
    BY <1>5 DEF SessionRefused, FetchRefused, AttemptBreaks, Outcome, Terminal
  <2> DEFINE loop == [loops[g] EXCEPT !.at = "catch", !.outcome = outcome]
  <2>2. loop \in Loop /\ loop.at = "catch"
    BY <1>1, LoopFields DEF Loop, Waiting
  <2>3. loops' = [loops EXCEPT ![g] = loop]
    BY <2>1 DEF Fail
  <2> HIDE DEF loop
  <2> QED BY <1>1, <2>2, <2>3, LoopBehaves
<1>6. CASE SessionOpened(g) \/ Remembered(g)
  BY <1>1, <1>6, PointBehaves DEF SessionOpened, Remembered, Waiting
<1>7. CASE Fetched(g)
  BY <1>1, <1>7, LeaveBehaves DEF Fetched
<1>8. CASE Caught(g)
  BY <1>1, <1>8, ConcludeBehaves, LoopFields DEF Caught
<1>9. CASE WaitOver(g)
  BY <1>1, <1>9, TurnBehaves, LoopFields DEF WaitOver, otherVars
<1> QED BY <1>2, <1>3, <1>4, <1>5, <1>6, <1>7, <1>8, <1>9 DEF LoopStep

\* No step begins an attempt in the background, or sends the secret unwanted.
LEMMA StepBehaves ==
  ASSUME Inv, [Next]_vars
  PROVE  AttemptsBehave
<1>1. LinkInv /\ foreground \in BOOLEAN
  BY DEF Inv, RestInv
<1>2. CASE loops' = loops
  BY <1>2, LoopsRest
<1>3. ASSUME foreground', Connect(TRUE) PROVE AttemptsBehave
  BY <1>1, <1>3, ConnectBehaves, Zenon
<1>4. ASSUME foreground' = foreground, Connect(foreground) PROVE AttemptsBehave
  BY <1>1, <1>4, ConnectBehaves, Zenon
<1>5. ASSUME foreground' = foreground, NEW map, NEW error, LinkLost(map, error)
      PROVE  AttemptsBehave
  <2>1. CASE foreground /\ Connect(TRUE)
    BY <1>3, <1>5, <2>1
  <2> QED BY <1>2, <1>5, <2>1 DEF LinkLost
<1>6. ASSUME NEW s \in DOMAIN streams, StreamStep(s) PROVE AttemptsBehave
  <2>1. foreground' = foreground
    BY <1>6 DEF StreamStep, StreamLost, StreamExpired, otherVars
  <2>2. \/ loops' = loops \/ Connect(foreground)
        \/ \E error \in Errors : LinkLost(Without(streams, {s}), error)
    BY <1>6 DEF StreamStep, StreamLost, StreamExpired
  <2> QED BY <1>2, <1>4, <1>5, <2>1, <2>2
<1>7. CASE RefreshFails
  <2>1. foreground' = foreground
    BY <1>7 DEF RefreshFails
  <2>2. loops' = loops \/ \E error \in Errors : LinkLost(streams, error)
    BY <1>7 DEF RefreshFails
  <2> QED BY <1>2, <1>5, <2>1, <2>2
<1>8. CASE UserConnect \/ Foreground
  <2>1. loops' = loops \/ Connect(TRUE)
    BY <1>8 DEF UserConnect, Foreground
  <2>2. CASE UserConnect
    BY <1>2, <1>3, <2>1, <2>2, Zenon DEF UserConnect, otherVars
  <2>3. CASE Foreground
    BY <1>2, <1>3, <2>1, <2>3, Zenon DEF Foreground
  <2> QED BY <1>8, <2>2, <2>3
<1>9. ASSUME NEW c \in DOMAIN calls, CallStep(c) PROVE AttemptsBehave
  <2>1. foreground' = foreground /\ (loops' = loops \/ Connect(foreground))
    BY <1>9 DEF CallStep, CallEnds, CallExpired
  <2> QED BY <1>2, <1>4, <2>1
<1>10. \/ loops' = loops
       \/ \E g \in DOMAIN loops : LoopStep(g)
       \/ \E s \in DOMAIN streams : StreamStep(s)
       \/ RefreshFails \/ UserConnect \/ Foreground
       \/ \E c \in DOMAIN calls : CallStep(c)
  BY DEF Next, vars, phoneVars, UserDisconnect, EndingStep, EndingGoesOn, EndingTold, EndingDone,
         Background, Paused, Refreshed, CallBegins, SessionEnds, StandingChanges
<1> QED BY <1>2, <1>6, <1>7, <1>8, <1>9, <1>10, LoopStepBehaves

---------------------------------------------------------------------------------
(* The theorems.                                                                 *)

\* The link keeps its types, and where the user is told that retrying cannot help nothing
\* is wanted any more, whatever overlaps.
THEOREM TerminalIsNeverWanted == Spec => []TerminalIsUnwanted
<1> QED BY AlwaysInv, InvSays, PTL

\* Nobody connects in the background: no connect, no retry, no refresh, whoever asks.
THEOREM NothingEverStartsInBackground == Spec => NothingStartsInBackground
<1>1. Inv /\ [Next]_vars =>
        (\A g \in DOMAIN loops' :
            /\ loops'[g].at = "race"
            /\ g \in DOMAIN loops => loops[g].at # "race"
            => foreground')
  BY StepBehaves DEF AttemptsBehave
<1> QED BY <1>1, AlwaysInv, PTL DEF Spec, NothingStartsInBackground

\* The phone's secret is sent only while a connection is wanted: the attempt that the user
\* or a failure abandoned while it probed addresses sends nothing.
THEOREM SecretSentOnlyWhenWanted == Spec => SecretOnlyWhenWanted
<1>1. Inv /\ [Next]_vars =>
        (\A g \in DOMAIN loops :
            loops[g].at = "race" /\ g \in DOMAIN loops' /\ loops'[g].at = "session" => intent)
  BY StepBehaves DEF AttemptsBehave
<1> QED BY <1>1, AlwaysInv, PTL DEF Spec, SecretOnlyWhenWanted

\* What was abandoned changes neither what is shown nor what is wanted.
THEOREM AbandonedAreSilent == Spec => AbandonedIsSilent
<1>1. [Next]_vars =>
        /\ \A g \in DOMAIN loops \ {generation} :
              LoopStep(g) => UNCHANGED <<link, intent, generation>>
        /\ \A s \in DOMAIN streams :
              ~Heard(s) /\ StreamStep(s) => UNCHANGED <<link, intent, generation>>
  <2>1. ASSUME NEW g \in DOMAIN loops, g # generation, LoopStep(g)
        PROVE  UNCHANGED <<link, intent, generation>>
    BY <2>1 DEF LoopStep, RaceWon, RaceLost, LaptopOpens, SessionRefused, SessionOpened, Remembered,
                Fetched, FetchRefused, AttemptBreaks, Caught, WaitOver, Conclude, Turn, Fail
  <2>2. ASSUME NEW s \in DOMAIN streams, ~Heard(s), StreamStep(s)
        PROVE  UNCHANGED <<link, intent, generation>>
    BY <2>2 DEF StreamStep, StreamLost, StreamExpired
  <2> QED BY <2>1, <2>2
<1> QED BY <1>1, PTL DEF Spec, AbandonedIsSilent

---------------------------------------------------------------------------------
(* What is shown is what is done, when an attempt meets nothing that an earlier   *)
(* one left behind, and the app is not left while it connects.                    *)

\* The events that are heard are those of the stream of this generation.
HearsItself == Listening /\ streams[events].generation = generation

\* In the background too a wanted link is at rest only where a return looks after it.
PursuedInv == /\ WantedIsPursued
              /\ intent => link \in {"connected", "unreachable"} \/ generation \in DOMAIN loops

\* One attempt at a time has gone on from its probes.
AloneInv == \A g, h \in DOMAIN loops : InFlight(g) /\ InFlight(h) => g = h

\* The attempt of a wanted link runs in the foreground, and what it has reached is its own.
AttemptInv ==
    intent /\ generation \in DOMAIN loops =>
        /\ loops[generation].at = "wait" => link = "unreachable"
        /\ loops[generation].at # "wait" => link = "connecting" /\ foreground
        /\ InFlight(generation) => refreshing = 0
        /\ loops[generation].at \in {"remember", "fetch"} => session = loops[generation].token
        /\ loops[generation].at = "fetch" => HearsItself

\* Under a link that is connected no attempt can drop the session or the stream.
ConnectedInv ==
    intent /\ link = "connected" =>
        /\ session # 0
        /\ \A g \in DOMAIN loops : ~InFlight(g)
        /\ Listening => HearsItself
        /\ foreground => Listening \/ refreshing = session

HonestInv == /\ PursuedInv /\ AloneInv /\ AttemptInv /\ ConnectedInv
             /\ endings # EmptyMap => ~intent
             /\ pausing => ~foreground

\* What is not wanted promises little.
LEMMA UnwantedIsHonest ==
  ASSUME ~intent', AloneInv', pausing' => ~foreground'
  PROVE  HonestInv'
BY DEF HonestInv, PursuedInv, WantedIsPursued, AttemptInv, ConnectedInv

\* Nothing of the link changes.
LEMMA SameIsHonest ==
  ASSUME HonestInv, UNCHANGED <<link, intent, foreground, generation, session, events, streams,
                                loops, endings, pausing, refreshing>>
  PROVE  HonestInv'
BY DEF HonestInv, PursuedInv, WantedIsPursued, AloneInv, InFlight, AttemptInv, ConnectedInv, HearsItself,
       Listening

\* A new attempt is begun just when the app is in the foreground.
LEMMA ConnectIsHonest ==
  ASSUME LinkInv, HonestInv, NEW ground \in BOOLEAN, Connect(ground), foreground' = ground,
         endings' = EmptyMap, pausing' => ~foreground'
  PROVE  HonestInv'
<1>1. /\ intent' /\ generation' = generation + 1 /\ generation' \notin DOMAIN loops
      /\ link' \in {"connecting", "unreachable"}
  BY DEF Connect, LinkInv, IsMap
<1>2. CASE ~ground
  <2>1. loops' = loops /\ link' = "unreachable"
    BY <1>2 DEF Connect
  <2> QED BY <1>1, <1>2, <2>1 DEF HonestInv, PursuedInv, WantedIsPursued, AloneInv, InFlight, AttemptInv,
             ConnectedInv
<1>3. CASE ground
  <2>1. link' = "connecting" /\ loops' = With(loops, generation + 1, Racing(0))
    BY <1>3 DEF Connect
  <2>2. /\ DOMAIN loops' = DOMAIN loops \cup {generation'}
        /\ loops'[generation'].at = "race"
        /\ \A h \in DOMAIN loops : loops'[h] = loops[h]
    BY <1>1, <2>1 DEF With, Racing
  <2>3. AloneInv'
    BY <2>2 DEF HonestInv, AloneInv, InFlight
  <2> QED BY <1>1, <1>3, <2>1, <2>2, <2>3 DEF HonestInv, PursuedInv, WantedIsPursued, AttemptInv, InFlight,
             ConnectedInv
<1> QED BY <1>2, <1>3

\* A loop that ends, or goes on to a point that is not in flight or to its next one.
LEMMA OneStaysAlone ==
  ASSUME LinkInv, AloneInv, NEW g \in DOMAIN loops,
         \/ Leave(g)
         \/ \E loop \in Loop : /\ loops' = [loops EXCEPT ![g] = loop]
                               /\ InFlight(g) \/ loop.at \in {"race", "wait"}
  PROVE  AloneInv'
<1>1. CASE Leave(g)
  <2>1. DOMAIN loops' = DOMAIN loops \ {g} /\ \A h \in DOMAIN loops \ {g} : loops'[h] = loops[h]
    BY <1>1, WithoutProperties DEF Leave, LinkInv
  <2> QED BY <2>1 DEF AloneInv, InFlight
<1>2. ASSUME NEW loop \in Loop, loops' = [loops EXCEPT ![g] = loop],
             InFlight(g) \/ loop.at \in {"race", "wait"}
      PROVE  AloneInv'
  <2>1. /\ DOMAIN loops' = DOMAIN loops /\ loops'[g] = loop
        /\ \A h \in DOMAIN loops : h # g => loops'[h] = loops[h]
    BY <1>2, LoopGoesOn
  <2> QED BY <1>2, <2>1 DEF AloneInv, InFlight
<1> QED BY <1>1, <1>2

\* Where a wanted link's attempt is in flight, nothing else is.
LEMMA InFlightAlone ==
  ASSUME LinkInv, HonestInv, NEW g \in DOMAIN loops, InFlight(g), intent
  PROVE  /\ link # "connected" /\ endings = EmptyMap
         /\ generation \in DOMAIN loops /\ g # generation => ~InFlight(generation)
         /\ g = generation => link = "connecting" /\ foreground /\ refreshing = 0
BY DEF HonestInv, AloneInv, AttemptInv, ConnectedInv, InFlight

\* An attempt in flight comes to its next point.
LEMMA AttemptIsHonest ==
  ASSUME LinkInv, HonestInv, NEW g \in DOMAIN loops, InFlight(g),
         UNCHANGED <<link, intent, generation, foreground, endings, pausing, refreshing>>,
         NEW loop \in Loop, loops' = [loops EXCEPT ![g] = loop],
         loop.at \in {"session", "answer", "remember", "fetch", "catch"},
         intent /\ g = generation => /\ loop.at \in {"remember", "fetch"} => session' = loop.token
                                     /\ loop.at = "fetch" => HearsItself'
  PROVE  HonestInv'
<1>1. AloneInv'
  BY OneStaysAlone DEF HonestInv
<1>2. CASE ~intent
  BY <1>1, <1>2, UnwantedIsHonest DEF HonestInv
<1>3. CASE intent
  <2>1. /\ DOMAIN loops' = DOMAIN loops /\ loops'[g] = loop
        /\ \A h \in DOMAIN loops : h # g => loops'[h] = loops[h]
    BY LoopGoesOn
  <2>2. PursuedInv'
    BY <2>1 DEF HonestInv, PursuedInv, WantedIsPursued
  <2>3. AttemptInv'
    <3>1. CASE g = generation
      BY <1>3, <2>1, <3>1, InFlightAlone DEF AttemptInv
    <3>2. CASE g # generation
      BY <1>3, <2>1, <3>2, InFlightAlone DEF HonestInv, AttemptInv, InFlight
    <3> QED BY <3>1, <3>2
  <2>4. ConnectedInv'
    BY <1>3, InFlightAlone DEF ConnectedInv
  <2> QED BY <1>1, <2>2, <2>3, <2>4 DEF HonestInv
<1> QED BY <1>2, <1>3

\* The next turn of a loop.
LEMMA TurnIsHonest ==
  ASSUME LinkInv, HonestInv, NEW g \in DOMAIN loops, NEW fast \in 0..MaxImmediateRetries, Turn(g, fast),
         UNCHANGED <<generation, foreground, endings, pausing, refreshing>>,
         (intent /\ InFlight(g)) \/ UNCHANGED <<session, events, streams>>
  PROVE  HonestInv'
<1>1. AloneInv'
  <2>1. Racing(fast) \in Loop /\ Racing(fast).at = "race"
    BY DEF Racing, Loop, Waiting, Outcome
  <2> QED BY <2>1, OneStaysAlone DEF HonestInv, Turn
<1>2. CASE ~intent
  BY <1>1, <1>2, UnwantedIsHonest DEF HonestInv, Turn
<1>3. CASE intent /\ g # generation
  <2>1. Leave(g) /\ UNCHANGED <<link, intent>>
    BY <1>3 DEF Turn
  <2>2. DOMAIN loops' = DOMAIN loops \ {g} /\ \A h \in DOMAIN loops \ {g} : loops'[h] = loops[h]
    BY <2>1, WithoutProperties DEF Leave, LinkInv
  <2>3. PursuedInv'
    BY <1>3, <2>1, <2>2 DEF HonestInv, PursuedInv, WantedIsPursued
  <2>4. AttemptInv'
    BY <1>3, <2>1, <2>2, InFlightAlone DEF HonestInv, AttemptInv, InFlight, HearsItself, Listening
  <2>5. ConnectedInv'
    BY <1>3, <2>1, <2>2, InFlightAlone DEF HonestInv, ConnectedInv, InFlight, HearsItself, Listening
  <2> QED BY <1>1, <2>1, <2>3, <2>4, <2>5 DEF HonestInv
<1>4. CASE intent /\ g = generation /\ foreground
  <2>1. link' = "connecting" /\ loops' = [loops EXCEPT ![g] = Racing(fast)] /\ intent' = intent
    BY <1>4 DEF Turn
  <2>2. DOMAIN loops' = DOMAIN loops /\ loops'[g].at = "race"
    BY <2>1 DEF LinkInv, IsMap, Racing
  <2>3. PursuedInv' /\ AttemptInv' /\ ConnectedInv'
    BY <1>4, <2>1, <2>2 DEF PursuedInv, WantedIsPursued, AttemptInv, ConnectedInv, InFlight
  <2> QED BY <1>1, <2>1, <2>3 DEF HonestInv
<1>5. CASE intent /\ g = generation /\ ~foreground
  <2>1. link' = "unreachable" /\ Leave(g) /\ intent' = intent
    BY <1>5 DEF Turn
  <2>2. DOMAIN loops' = DOMAIN loops \ {g}
    BY <2>1, WithoutProperties DEF Leave, LinkInv
  <2>3. PursuedInv' /\ AttemptInv' /\ ConnectedInv'
    BY <1>5, <2>1, <2>2 DEF PursuedInv, WantedIsPursued, AttemptInv, ConnectedInv
  <2> QED BY <1>1, <2>1, <2>3 DEF HonestInv
<1> QED BY <1>2, <1>3, <1>4, <1>5

\* An attempt that failed.
LEMMA ConcludeIsHonest ==
  ASSUME LinkInv, HonestInv, NEW g \in DOMAIN loops, NEW outcome \in Outcome, Conclude(g, outcome),
         loops[g].at # "wait",
         UNCHANGED <<generation, foreground, endings, pausing, refreshing>>,
         InFlight(g) \/ UNCHANGED <<session, events, streams>>
  PROVE  HonestInv'
<1>1. CASE g # generation
  <2>1. Leave(g) /\ UNCHANGED <<link, intent>>
    BY <1>1 DEF Conclude
  <2>2. AloneInv'
    BY <2>1, OneStaysAlone DEF HonestInv
  <2>3. CASE ~intent
    BY <2>1, <2>2, <2>3, UnwantedIsHonest DEF HonestInv
  <2>4. CASE intent
    <3>2. DOMAIN loops' = DOMAIN loops \ {g} /\ \A h \in DOMAIN loops \ {g} : loops'[h] = loops[h]
      BY <2>1, WithoutProperties DEF Leave, LinkInv
    <3>3. PursuedInv'
      BY <1>1, <2>1, <3>2 DEF HonestInv, PursuedInv, WantedIsPursued
    <3>4. AttemptInv'
      BY <1>1, <2>1, <2>4, <3>2, InFlightAlone DEF HonestInv, AttemptInv, InFlight, HearsItself, Listening
    <3>5. ConnectedInv'
      BY <2>1, <2>4, <3>2, InFlightAlone DEF HonestInv, ConnectedInv, InFlight, HearsItself, Listening
    <3> QED BY <2>1, <2>2, <3>3, <3>4, <3>5 DEF HonestInv
  <2> QED BY <2>3, <2>4
<1>2. CASE g = generation /\ outcome \in Terminal
  <2>1. intent' = FALSE /\ Leave(g)
    BY <1>2 DEF Conclude, Terminal
  <2> QED BY <2>1, OneStaysAlone, UnwantedIsHonest DEF HonestInv
<1>3. CASE g = generation /\ outcome = "immediate" /\ loops[g].fast < MaxImmediateRetries
  <2>0. Turn(g, loops[g].fast + 1)
    BY <1>3 DEF Conclude, Terminal
  <2>1. Turn(g, loops[g].fast + 1) /\ loops[g].fast + 1 \in 0..MaxImmediateRetries
    BY <1>3, <2>0, LoopFields DEF MaxImmediateRetries
  <2>2. CASE intent
    BY <2>1, <2>2, TurnIsHonest
  <2>3. CASE ~intent
    <3>1. Leave(g) /\ ~intent'
      BY <2>1, <2>3 DEF Turn
    <3> QED BY <3>1, OneStaysAlone, UnwantedIsHonest DEF HonestInv
  <2> QED BY <2>2, <2>3
<1>4. CASE g = generation /\ outcome \notin Terminal
           /\ ~(outcome = "immediate" /\ loops[g].fast < MaxImmediateRetries)
  <2>0. GiveUpOrWait(g)
    BY <1>4 DEF Conclude
  <2>1. /\ link' = "unreachable"
        /\ \/ intent' = intent /\ Reach(g, "wait")
           \/ ~intent' /\ Leave(g)
    <3>1. PICK auto \in AutoReconnect : /\ intent' = (intent /\ auto)
                                        /\ IF auto THEN Reach(g, "wait") ELSE Leave(g)
      BY <2>0 DEF GiveUpOrWait
    <3>2. auto \in BOOLEAN
      BY <3>1, LinkAssumption
    <3>3. CASE auto
      <4>1. intent' = intent /\ Reach(g, "wait")
        BY <3>1, <3>3 DEF LinkInv
      <4> QED BY <2>0, <4>1 DEF GiveUpOrWait
    <3>4. CASE ~auto
      <4>1. ~intent' /\ Leave(g)
        BY <3>1, <3>4
      <4> QED BY <2>0, <4>1 DEF GiveUpOrWait
    <3> QED BY <3>2, <3>3, <3>4
  <2>2. CASE ~intent' /\ Leave(g)
    BY <2>2, OneStaysAlone, UnwantedIsHonest DEF HonestInv
  <2>3. CASE intent' = intent /\ Reach(g, "wait")
    <3> DEFINE loop == [loops[g] EXCEPT !.at = "wait"]
    <3>1. loop \in Loop /\ loop.at = "wait" /\ loops' = [loops EXCEPT ![g] = loop]
      BY <2>3, LoopFields DEF Loop, Waiting, Reach
    <3> HIDE DEF loop
    <3>2. DOMAIN loops' = DOMAIN loops /\ loops'[g] = loop
      BY <3>1, LoopGoesOn
    <3>3. AloneInv'
      BY <3>1, OneStaysAlone DEF HonestInv
    <3>4. PursuedInv' /\ AttemptInv' /\ ConnectedInv'
      BY <1>4, <2>1, <3>1, <3>2 DEF PursuedInv, WantedIsPursued, AttemptInv, ConnectedInv, InFlight
    <3> QED BY <2>3, <3>3, <3>4 DEF HonestInv
  <2> QED BY <2>1, <2>2, <2>3
<1> QED BY <1>1, <1>2, <1>3, <1>4

\* The probes are over.
LEMMA RaceWonIsHonest ==
  ASSUME Inv, HonestInv, ~Overlap, NEW g \in DOMAIN loops, RaceWon(g)
  PROVE  HonestInv'
<1>1. /\ LinkInv /\ loops[g].at = "race"
      /\ UNCHANGED <<link, intent, generation, session, events, streams, foreground, endings, pausing, refreshing>>
  BY DEF RaceWon, otherVars, Inv
<1>2. CASE g # generation
  <2>1. Leave(g)
    BY <1>2 DEF RaceWon
  <2>2. DOMAIN loops' = DOMAIN loops \ {g} /\ \A h \in DOMAIN loops \ {g} : loops'[h] = loops[h]
    BY <1>1, <2>1, WithoutProperties DEF Leave, LinkInv
  <2>3. AloneInv'
    BY <1>1, <2>1, OneStaysAlone DEF HonestInv
  <2>4. PursuedInv'
    BY <1>1, <1>2, <2>2 DEF HonestInv, PursuedInv, WantedIsPursued
  <2>5. AttemptInv'
    BY <1>1, <1>2, <2>2 DEF HonestInv, AttemptInv, InFlight, HearsItself, Listening
  <2>6. ConnectedInv'
    BY <1>1, <2>2 DEF HonestInv, ConnectedInv, InFlight, HearsItself, Listening
  <2> QED BY <1>1, <2>3, <2>4, <2>5, <2>6 DEF HonestInv
<1>3. CASE g = generation
  <2> DEFINE loop == [loops[g] EXCEPT !.at = "session"]
  <2>1. Alone(g) /\ loops' = [loops EXCEPT ![g] = loop]
    BY <1>3 DEF RaceWon, Reach
  <2>2. loop \in Loop /\ loop.at = "session"
    BY <1>1, LoopFields DEF Loop, Waiting
  <2> HIDE DEF loop
  <2>3. /\ DOMAIN loops' = DOMAIN loops /\ loops'[g] = loop
        /\ \A h \in DOMAIN loops : h # g => loops'[h] = loops[h]
    BY <1>1, <2>1, <2>2, LoopGoesOn
  <2>4. AloneInv'
    BY <2>1, <2>3 DEF Alone, AloneInv, InFlight
  <2>5. PursuedInv'
    BY <1>1, <2>3 DEF HonestInv, PursuedInv, WantedIsPursued
  <2>6. AttemptInv'
    BY <1>1, <1>3, <2>1, <2>2, <2>3 DEF HonestInv, AttemptInv, Alone
  <2>7. ConnectedInv'
    BY <1>1, <1>3 DEF HonestInv, AttemptInv, ConnectedInv
  <2> QED BY <1>1, <2>4, <2>5, <2>6, <2>7 DEF HonestInv
<1> QED BY <1>2, <1>3

\* Probes lost, an attempt that ended, a wait that is over.
LEMMA RaceLostIsHonest ==
  ASSUME Inv, HonestInv, NEW g \in DOMAIN loops, RaceLost(g) \/ Caught(g) \/ WaitOver(g)
  PROVE  HonestInv'
<1>1. LinkInv /\ loops[g].outcome \in Outcome /\ loops[g].fast \in 0..MaxImmediateRetries
  BY LoopFields DEF Inv
<1>2. CASE RaceLost(g)
  <2>1. PICK outcome \in {"certChanged", "retry"} : Conclude(g, outcome)
    BY <1>2 DEF RaceLost
  <2>2. outcome \in Outcome
    BY <2>1 DEF Outcome, Terminal
  <2>3. /\ UNCHANGED <<generation, foreground, endings, pausing, refreshing, session, events, streams>>
        /\ loops[g].at # "wait"
    BY <1>2 DEF RaceLost, otherVars
  <2> QED BY <1>1, <2>1, <2>2, <2>3, ConcludeIsHonest
<1>3. CASE Caught(g)
  <2>1. /\ Conclude(g, loops[g].outcome) /\ InFlight(g) /\ loops[g].at # "wait"
        /\ UNCHANGED <<generation, foreground, endings, pausing, refreshing>>
    BY <1>3 DEF Caught, InFlight
  <2> QED BY <1>1, <2>1, ConcludeIsHonest
<1>4. CASE WaitOver(g)
  <2>1. /\ Turn(g, loops[g].fast)
        /\ UNCHANGED <<generation, foreground, endings, pausing, refreshing, session, events, streams>>
    BY <1>4 DEF WaitOver, otherVars
  <2> QED BY <1>1, <2>1, TurnIsHonest
<1> QED BY <1>2, <1>3, <1>4

\* An attempt goes on, or fails.
LEMMA LaptopOpensIsHonest ==
  ASSUME Inv, HonestInv, NEW g \in DOMAIN loops, LaptopOpens(g)
  PROVE  HonestInv'
<1> DEFINE loop == [loops[g] EXCEPT !.at = "answer", !.token = lastToken']
<1>1. /\ LinkInv /\ InFlight(g) /\ loops' = [loops EXCEPT ![g] = loop]
      /\ UNCHANGED <<link, intent, generation, foreground, endings, pausing, refreshing>>
  BY DEF LaptopOpens, otherVars, Inv, InFlight
<1>2. lastToken' \in Token
  BY LinkAssumption DEF LaptopOpens, Inv, RestInv, Token
<1>3. loop \in Loop /\ loop.at = "answer"
  BY <1>1, <1>2, LoopFields DEF Loop, Waiting
<1> HIDE DEF loop
<1> QED BY <1>1, <1>3, AttemptIsHonest

\* The attempt fails: refused, or broken off.
LEMMA FailIsHonest ==
  ASSUME Inv, HonestInv, NEW g \in DOMAIN loops, SessionRefused(g) \/ FetchRefused(g) \/ AttemptBreaks(g)
  PROVE  HonestInv'
<1>1. PICK outcome \in Outcome : Fail(g, outcome)
  BY DEF SessionRefused, FetchRefused, AttemptBreaks, Outcome, Terminal
<1> DEFINE loop == [loops[g] EXCEPT !.at = "catch", !.outcome = outcome]
<1>2. /\ LinkInv /\ InFlight(g)
      /\ UNCHANGED <<link, intent, generation, foreground, endings, pausing, refreshing>>
  BY <1>1 DEF Fail, otherVars, Inv, InFlight, SessionRefused, FetchRefused, AttemptBreaks
<1>3. loop \in Loop /\ loop.at = "catch"
  BY <1>1, <1>2, LoopFields DEF Loop, Waiting
<1>4. loops' = [loops EXCEPT ![g] = loop]
  BY <1>1, <1>2 DEF Fail, LinkInv, IsMap, Loop
<1> HIDE DEF loop
<1> QED BY <1>2, <1>3, <1>4, AttemptIsHonest

\* The laptop's answer opens the session of the attempt's token (_open).
LEMMA SessionOpenedIsHonest ==
  ASSUME Inv, HonestInv, NEW g \in DOMAIN loops, SessionOpened(g)
  PROVE  HonestInv'
<1> DEFINE loop == [loops[g] EXCEPT !.at = "remember"]
<1>1. /\ LinkInv /\ InFlight(g) /\ loops' = [loops EXCEPT ![g] = loop] /\ session' = loops[g].token
      /\ UNCHANGED <<link, intent, generation, foreground, endings, pausing, refreshing>>
  BY DEF SessionOpened, otherVars, Inv, InFlight, Reach
<1>2. loop \in Loop /\ loop.at = "remember" /\ loop.token = loops[g].token
  BY <1>1, LoopFields DEF Loop, Waiting
<1> HIDE DEF loop
<1>3. session' = loop.token /\ loop.at # "fetch"
  BY <1>1, <1>2
<1> QED BY <1>1, <1>2, <1>3, AttemptIsHonest

\* What a new stream is.
LEMMA ListenHears ==
  ASSUME NEW g, NEW token, Listen(g, token)
  PROVE  events' \in DOMAIN streams' /\ streams'[events'].generation = g
BY DEF Listen, With

\* The attempt remembers its address and starts to listen, as the generation it runs in.
LEMMA RememberedIsHonest ==
  ASSUME Inv, HonestInv, NEW g \in DOMAIN loops, Remembered(g)
  PROVE  HonestInv'
<1> DEFINE loop == [loops[g] EXCEPT !.at = "fetch"]
<1>1. /\ LinkInv /\ InFlight(g) /\ loops[g].at = "remember" /\ loops' = [loops EXCEPT ![g] = loop]
      /\ UNCHANGED <<link, intent, generation, foreground, endings, pausing, refreshing, session>>
  BY DEF Remembered, otherVars, Inv, InFlight, Reach
<1>2. loop \in Loop /\ loop.at = "fetch" /\ loop.token = loops[g].token
  BY <1>1, LoopFields DEF Loop, Waiting
<1> HIDE DEF loop
<1>3. intent /\ g = generation => session' = loop.token
  BY <1>1, <1>2 DEF HonestInv, AttemptInv
<1>4. g = generation => HearsItself'
  BY <1>1, ListenHears DEF Remembered, HearsItself, Listening
<1> QED BY <1>1, <1>2, <1>3, <1>4, AttemptIsHonest

\* The items have arrived: the link is connected, or the attempt was abandoned.
LEMMA FetchedIsHonest ==
  ASSUME Inv, HonestInv, NEW g \in DOMAIN loops, Fetched(g)
  PROVE  HonestInv'
<1>1. /\ LinkInv /\ InFlight(g) /\ loops[g].at = "fetch" /\ Leave(g)
      /\ UNCHANGED <<intent, generation, events, streams, foreground, endings, pausing, refreshing>>
      /\ IF g = generation THEN link' = "connected" /\ session' = session
                           ELSE session' = 0 /\ link' = link
  BY DEF Fetched, otherVars, Inv, InFlight
<1>2. DOMAIN loops' = DOMAIN loops \ {g} /\ \A h \in DOMAIN loops \ {g} : loops'[h] = loops[h]
  BY <1>1, WithoutProperties DEF Leave, LinkInv
<1>3. AloneInv'
  BY <1>1, OneStaysAlone DEF HonestInv
<1>4. CASE ~intent
  BY <1>1, <1>3, <1>4, UnwantedIsHonest DEF HonestInv
<1>5. CASE intent /\ g = generation
  <2>1. session # 0 /\ HearsItself
    BY <1>1, <1>5 DEF HonestInv, AttemptInv, LinkInv, HasToken
  <2>2. \A h \in DOMAIN loops : h # g => ~InFlight(h)
    BY <1>1 DEF HonestInv, AloneInv
  <2>3. ConnectedInv'
    BY <1>1, <1>2, <1>5, <2>1, <2>2 DEF ConnectedInv, HearsItself, Listening, InFlight
  <2>4. PursuedInv' /\ AttemptInv'
    BY <1>1, <1>2, <1>5 DEF PursuedInv, WantedIsPursued, AttemptInv
  <2> QED BY <1>1, <1>3, <2>3, <2>4 DEF HonestInv
<1>6. CASE intent /\ g # generation
  <2>1. PursuedInv'
    BY <1>1, <1>2, <1>6 DEF HonestInv, PursuedInv, WantedIsPursued
  <2>2. AttemptInv'
    BY <1>1, <1>2, <1>6, InFlightAlone DEF HonestInv, AttemptInv, InFlight
  <2>3. ConnectedInv'
    BY <1>1, <1>6, InFlightAlone DEF ConnectedInv
  <2> QED BY <1>1, <1>3, <2>1, <2>2, <2>3 DEF HonestInv
<1> QED BY <1>4, <1>5, <1>6

\* Only streams end or close: the one that is heard stays, or was not listened to.
LEMMA StreamsGoAreHonest ==
  ASSUME HonestInv, NEW gone,
         UNCHANGED <<link, intent, generation, session, events, loops, foreground, endings, pausing,
                     refreshing>>,
         DOMAIN streams' = DOMAIN streams \ gone,
         \A s \in DOMAIN streams' : streams'[s].generation = streams[s].generation,
         \A s \in gone \cap DOMAIN streams : streams[s].generation # generation
  PROVE  HonestInv'
<1>1. HearsItself => HearsItself'
  BY DEF HearsItself, Listening
<1>2. Listening' => Listening
  BY DEF Listening
<1>3. PursuedInv' /\ AloneInv'
  BY DEF HonestInv, PursuedInv, WantedIsPursued, AloneInv, InFlight
<1>4. AttemptInv'
  BY <1>1 DEF HonestInv, AttemptInv, InFlight
<1>5. ConnectedInv'
  <2>1. HearsItself' => Listening'
    BY DEF HearsItself
  <2> QED BY <1>1, <1>2, <2>1 DEF HonestInv, ConnectedInv, InFlight
<1> QED BY <1>3, <1>4, <1>5 DEF HonestInv

\* A wanted link is lost: it is connected again, or nothing is wanted any more, or the
\* return from the background will look after it.
LEMMA LinkLostIsHonest ==
  ASSUME Inv, HonestInv, intent, NEW map, NEW error, LinkLost(map, error),
         UNCHANGED <<foreground, pausing, endings>>
  PROVE  HonestInv'
<1>1. LinkInv /\ foreground \in BOOLEAN /\ endings' = EmptyMap /\ (pausing' => ~foreground')
  BY DEF Inv, RestInv, HonestInv
<1>2. CASE error = "certChanged"
  <2>1. ~intent' /\ UNCHANGED <<generation, loops>>
    BY <1>2 DEF LinkLost
  <2>2. AloneInv'
    BY <2>1 DEF HonestInv, AloneInv, InFlight
  <2> QED BY <1>1, <2>1, <2>2, UnwantedIsHonest
<1>3. CASE error # "certChanged" /\ foreground
  <2>1. Connect(TRUE) /\ foreground' = TRUE
    BY <1>1, <1>3 DEF LinkLost
  <2> QED BY <1>1, <2>1, ConnectIsHonest
<1>4. CASE error # "certChanged" /\ ~foreground
  <2>1. link' = "unreachable" /\ UNCHANGED <<intent, generation, loops>>
    BY <1>4 DEF LinkLost
  <2>2. generation \in DOMAIN loops => loops[generation].at = "wait"
    BY <1>4 DEF HonestInv, AttemptInv
  <2>3. PursuedInv' /\ AloneInv' /\ AttemptInv' /\ ConnectedInv'
    BY <1>1, <1>4, <2>1, <2>2 DEF HonestInv, PursuedInv, WantedIsPursued, AloneInv, AttemptInv, InFlight,
                          ConnectedInv
  <2> QED BY <1>1, <2>3 DEF HonestInv
<1> QED BY <1>2, <1>3, <1>4

\* What closing and ending streams does to those that are kept.
LEMMA StreamsKeptAsTheyWere ==
  ASSUME StreamInv, NEW S, NEW token
  PROVE  /\ DOMAIN Closed(streams, token) = DOMAIN streams
         /\ \A s \in DOMAIN streams : Closed(streams, token)[s].generation = streams[s].generation
         /\ DOMAIN Without(streams, S) = DOMAIN streams \ S
         /\ \A s \in DOMAIN streams \ S : Without(streams, S)[s] = streams[s]
<1>1. \A s \in DOMAIN streams : streams[s] \in StreamRecord(generation)
  BY DEF StreamInv, StreamMap, IsMap
<1>2. \A s \in DOMAIN streams : [streams[s] EXCEPT !.ended = TRUE].generation = streams[s].generation
  BY <1>1 DEF StreamRecord
<1>3. /\ DOMAIN Closed(streams, token) = DOMAIN streams
      /\ \A s \in DOMAIN streams : Closed(streams, token)[s].generation = streams[s].generation
  BY <1>2 DEF Closed
<1>4. /\ DOMAIN Without(streams, S) = DOMAIN streams \ S
      /\ \A s \in DOMAIN streams \ S : Without(streams, S)[s] = streams[s]
  BY WithoutProperties DEF StreamInv, StreamMap
<1> QED BY <1>3, <1>4

\* A stream ends, or is told that the session has.
LEMMA StreamIsHonest ==
  ASSUME Inv, HonestInv, NEW s \in DOMAIN streams, StreamStep(s)
  PROVE  HonestInv'
<1>1. LinkInv /\ StreamInv /\ foreground \in BOOLEAN /\ intent \in BOOLEAN
      /\ UNCHANGED <<events, foreground, endings, pausing, refreshing>>
  BY DEF StreamStep, StreamLost, StreamExpired, otherVars, Inv, LinkInv, RestInv
<1>2. CASE intent /\ \E map, error : LinkLost(map, error)
  BY <1>1, <1>2, LinkLostIsHonest
<1>3. CASE ~intent'
  <2>1. loops' = loops
    BY <1>3 DEF StreamStep, StreamLost, StreamExpired, LinkLost, Connect
  <2>2. AloneInv'
    BY <2>1 DEF HonestInv, AloneInv, InFlight
  <2> QED BY <1>1, <1>3, <2>2, UnwantedIsHonest DEF HonestInv
<1>4. CASE StreamLost(s) /\ ~(Heard(s) /\ intent) /\ intent'
  <2>1. streams' = Without(streams, {s}) /\ UNCHANGED <<link, intent, generation, session, loops>>
    BY <1>4 DEF StreamLost
  <2>2. streams[s].generation # generation
    BY <1>4, <2>1 DEF Heard
  <2>3. /\ DOMAIN Without(streams, {s}) = DOMAIN streams \ {s}
        /\ \A t \in DOMAIN streams \ {s} : Without(streams, {s})[t] = streams[t]
    BY <1>1, WithoutProperties DEF StreamInv, StreamMap
  <2>4. /\ DOMAIN streams' = DOMAIN streams \ {s}
        /\ \A t \in DOMAIN streams' : streams'[t].generation = streams[t].generation
    BY <2>1, <2>3
  <2> QED BY <1>1, <2>1, <2>2, <2>4, StreamsGoAreHonest
<1>5. CASE StreamExpired(s) /\ ~Heard(s)
  <2>1. streams' = Closed(streams, streams[s].token) /\ UNCHANGED <<link, intent, generation, session, loops>>
    BY <1>5 DEF StreamExpired
  <2> DEFINE token == streams[s].token
  <2> HIDE DEF token
  <2>3. /\ DOMAIN Closed(streams, token) = DOMAIN streams
        /\ \A t \in DOMAIN streams : Closed(streams, token)[t].generation = streams[t].generation
    BY <1>1, StreamsKeptAsTheyWere
  <2>4. streams' = Closed(streams, token)
    BY <2>1 DEF token
  <2> DEFINE none == {}
  <2>5. none \cap DOMAIN streams = {}
    OBVIOUS
  <2>6. DOMAIN streams' = DOMAIN streams \ none
    BY <2>3, <2>4
  <2>7. \A t \in DOMAIN streams' : streams'[t].generation = streams[t].generation
    BY <2>3, <2>4
  <2> HIDE DEF none
  <2> QED BY <1>1, <2>1, <2>5, <2>6, <2>7, StreamsGoAreHonest
<1>6. CASE StreamExpired(s) /\ Heard(s) /\ intent'
  <2>1. intent /\ Connect(foreground)
    BY <1>6 DEF StreamExpired
  <2>2. endings' = EmptyMap /\ (pausing' => ~foreground') /\ foreground' = foreground
    BY <1>1, <2>1 DEF HonestInv
  <2> QED BY <1>1, <2>1, <2>2, ConnectIsHonest
<1>7. StreamLost(s) /\ Heard(s) /\ intent => \E map, error : LinkLost(map, error)
  BY DEF StreamLost
<1> QED BY <1>2, <1>3, <1>4, <1>5, <1>6, <1>7 DEF StreamStep

\* The user.
LEMMA UserIsHonest ==
  ASSUME Inv, HonestInv, ~Overlap, UserConnect \/ UserDisconnect
  PROVE  HonestInv'
<1>1. LinkInv
  BY DEF Inv
<1>2. CASE UserConnect
  <2>1. /\ Connect(TRUE) /\ endings' = EmptyMap /\ foreground' = TRUE /\ pausing' = pausing /\ foreground
    BY <1>2 DEF UserConnect, otherVars, Inv, RestInv
  <2>2. pausing' => ~foreground'
    BY <2>1 DEF HonestInv
  <2> QED BY <1>1, <2>1, <2>2, ConnectIsHonest
<1>3. CASE UserDisconnect
  <2>1. ~intent' /\ loops' = loops /\ UNCHANGED <<pausing, foreground>>
    BY <1>3 DEF UserDisconnect
  <2>2. AloneInv'
    BY <2>1 DEF HonestInv, AloneInv, InFlight
  <2> QED BY <2>1, <2>2, UnwantedIsHonest DEF HonestInv
<1> QED BY <1>2, <1>3

\* A Disconnect that goes on: nothing is wanted meanwhile.
LEMMA EndingIsHonest ==
  ASSUME Inv, HonestInv, NEW e \in DOMAIN endings, EndingStep(e)
  PROVE  HonestInv'
<1>1. ~intent
  BY DEF HonestInv, EmptyMap
<1>2. UNCHANGED <<intent, foreground, loops, pausing>>
  BY DEF EndingStep, EndingGoesOn, EndingTold, EndingDone
<1>3. AloneInv'
  BY <1>2 DEF HonestInv, AloneInv, InFlight
<1> QED BY <1>1, <1>2, <1>3, UnwantedIsHonest DEF HonestInv

\* The app is left, and opened again.
LEMMA GroundIsHonest ==
  ASSUME Inv, HonestInv, ~Overlap, "connecting" \notin PausesIn, Background \/ Paused \/ Foreground
  PROVE  HonestInv'
<1>1. LinkInv /\ StreamInv
  BY DEF Inv
<1>2. CASE Background
  <2>1. /\ link # "connecting" /\ foreground' = FALSE /\ pausing' = TRUE /\ streams' = Without(streams, {events})
        /\ UNCHANGED <<link, intent, generation, session, events, loops, endings, refreshing>>
    BY <1>2 DEF Background, Unheard
  <2>2. ~Listening'
    BY <1>1, <2>1, StreamsKeptAsTheyWere DEF Listening
  <2>3. PursuedInv' /\ AloneInv'
    BY <2>1 DEF HonestInv, PursuedInv, WantedIsPursued, AloneInv, InFlight
  <2>4. AttemptInv' /\ ConnectedInv'
    BY <2>1, <2>2 DEF HonestInv, AttemptInv, ConnectedInv, InFlight
  <2> QED BY <2>1, <2>3, <2>4 DEF HonestInv
<1>3. CASE Paused
  <2>1. /\ ~foreground /\ pausing' = FALSE /\ events' = 0
        /\ UNCHANGED <<link, intent, foreground, generation, session, streams, loops, endings, refreshing>>
    BY <1>3 DEF Paused, HonestInv
  <2>2. ~Listening'
    BY <1>1, <2>1 DEF Listening, StreamInv, StreamMap, IsMap, Stream
  <2>3. PursuedInv' /\ AloneInv'
    BY <2>1 DEF HonestInv, PursuedInv, WantedIsPursued, AloneInv, InFlight
  <2>4. AttemptInv' /\ ConnectedInv'
    BY <2>1, <2>2 DEF HonestInv, AttemptInv, ConnectedInv, InFlight
  <2> QED BY <2>1, <2>3, <2>4 DEF HonestInv
<1>4. CASE Foreground
  <2>1. /\ ~foreground /\ ~pausing /\ foreground' = TRUE
        /\ refreshing' = (IF intent /\ link = "connected" THEN session ELSE 0)
        /\ UNCHANGED <<session, events, streams, endings, pausing>>
    BY <1>4 DEF Foreground
  <2>2. CASE intent /\ link = "unreachable"
    <3>1. Connect(TRUE) /\ endings' = EmptyMap
      BY <1>4, <2>1, <2>2 DEF Foreground, HonestInv
    <3> QED BY <1>1, <2>1, <3>1, ConnectIsHonest
  <2>3. CASE ~(intent /\ link = "unreachable")
    <3>1. UNCHANGED <<link, intent, generation, loops>>
      BY <1>4, <2>3 DEF Foreground
    <3>2. PursuedInv' /\ AloneInv' /\ AttemptInv'
      BY <2>1, <2>3, <3>1 DEF HonestInv, PursuedInv, WantedIsPursued, AloneInv, InFlight, AttemptInv
    <3>3. ConnectedInv'
      BY <2>1, <3>1 DEF HonestInv, ConnectedInv, InFlight, HearsItself, Listening
    <3> QED BY <2>1, <3>1, <3>2, <3>3 DEF HonestInv
  <2> QED BY <2>2, <2>3
<1> QED BY <1>2, <1>3, <1>4

\* A refresh listens again, or finds that the link is lost.
LEMMA RefreshIsHonest ==
  ASSUME Inv, HonestInv, Refreshed \/ RefreshFails
  PROVE  HonestInv'
<1>1. CASE Refreshed
  <2>1. /\ refreshing # 0 /\ refreshing' = 0 /\ Listen(generation, refreshing)
        /\ UNCHANGED <<link, intent, foreground, generation, session, loops, endings, pausing>>
    BY <1>1 DEF Refreshed
  <2>2. HearsItself'
    BY <2>1, ListenHears DEF HearsItself, Listening
  <2>3. PursuedInv' /\ AloneInv' /\ AttemptInv'
    BY <2>1, <2>2 DEF HonestInv, PursuedInv, WantedIsPursued, AloneInv, InFlight, AttemptInv
  <2>4. ConnectedInv'
    <3>1. Listening'
      BY <2>2 DEF HearsItself
    <3> QED BY <2>1, <2>2, <3>1 DEF HonestInv, ConnectedInv, InFlight
  <2> QED BY <2>1, <2>3, <2>4 DEF HonestInv
<1>2. CASE RefreshFails /\ intent
  <2>1. UNCHANGED <<foreground, pausing, endings>> /\ \E map, error : LinkLost(map, error)
    BY <1>2 DEF RefreshFails
  <2> QED BY <1>2, <2>1, LinkLostIsHonest
<1>3. CASE RefreshFails /\ ~intent
  <2>1. ~intent' /\ UNCHANGED <<loops, pausing, foreground>>
    BY <1>3 DEF RefreshFails
  <2>2. AloneInv'
    BY <2>1 DEF HonestInv, AloneInv, InFlight
  <2> QED BY <2>1, <2>2, UnwantedIsHonest DEF HonestInv
<1> QED BY <1>1, <1>2, <1>3

\* Calls on the session, and the laptop.
LEMMA CallsAreHonest ==
  ASSUME Inv, HonestInv, ~Overlap,
         \/ \E c \in CallId : CallBegins(c)
         \/ \E c \in DOMAIN calls : CallStep(c)
         \/ SessionEnds \/ StandingChanges
  PROVE  HonestInv'
<1>1. CASE \E c \in DOMAIN calls : CallExpired(c)
  <2>1. /\ Connect(foreground) /\ endings' = EmptyMap /\ foreground' = foreground /\ pausing' = pausing
        /\ foreground \in BOOLEAN
    BY <1>1 DEF CallExpired, Inv, RestInv
  <2>2. pausing' => ~foreground'
    BY <2>1 DEF HonestInv
  <2> QED BY <2>1, <2>2, ConnectIsHonest DEF Inv
<1>2. CASE \/ \E c \in CallId : CallBegins(c)
           \/ \E c \in DOMAIN calls : CallEnds(c)
           \/ SessionEnds \/ StandingChanges
  <2>1. UNCHANGED <<link, intent, foreground, generation, session, events, streams, loops, endings, pausing,
                    refreshing>>
    BY <1>2 DEF CallBegins, CallEnds, SessionEnds, StandingChanges, phoneVars
  <2> QED BY <2>1, SameIsHonest
<1> QED BY <1>1, <1>2 DEF CallStep

\* The first state, and every step.
LEMMA HonestFromTheStart == Init => HonestInv
BY DEF Init, HonestInv, PursuedInv, WantedIsPursued, AloneInv, AttemptInv, ConnectedInv, EmptyMap

\* Each kind of step keeps it.
LEMMA StepIsHonest ==
  ASSUME Inv, HonestInv, ~Overlap, "connecting" \notin PausesIn, [Next]_vars
  PROVE  HonestInv'
<1>1. CASE UNCHANGED vars
  BY <1>1, SameIsHonest DEF vars, phoneVars
<1>2. ASSUME NEW g \in DOMAIN loops, LoopStep(g) PROVE HonestInv'
  BY <1>2, RaceWonIsHonest, RaceLostIsHonest, LaptopOpensIsHonest, FailIsHonest, SessionOpenedIsHonest,
     RememberedIsHonest, FetchedIsHonest DEF LoopStep
<1>3. ASSUME NEW s \in DOMAIN streams, StreamStep(s) PROVE HonestInv'
  BY <1>3, StreamIsHonest
<1>4. ASSUME NEW e \in DOMAIN endings, EndingStep(e) PROVE HonestInv'
  BY <1>4, EndingIsHonest
<1>5. CASE UserConnect \/ UserDisconnect
  BY <1>5, UserIsHonest
<1>6. CASE Background \/ Paused \/ Foreground
  BY <1>6, GroundIsHonest
<1>7. CASE Refreshed \/ RefreshFails
  BY <1>7, RefreshIsHonest
<1>8. CASE \/ \E c \in CallId : CallBegins(c)
           \/ \E c \in DOMAIN calls : CallStep(c)
           \/ SessionEnds \/ StandingChanges
  BY <1>8, CallsAreHonest
<1> QED BY <1>1, <1>2, <1>3, <1>4, <1>5, <1>6, <1>7, <1>8 DEF Next

\* A wanted link is connected or being connected, and a connected one has its session and
\* hears its events, as long as an attempt meets nothing that an earlier one left behind
\* and the app is not left while it connects.
THEOREM StateIsAlwaysHonest ==
  ASSUME ~Overlap, "connecting" \notin PausesIn
  PROVE  Spec => []StateIsHonest
<1>1. Init => Inv /\ HonestInv
  BY InitInv, HonestFromTheStart
<1>2. Inv /\ HonestInv /\ [Next]_vars => Inv' /\ HonestInv'
  BY StepInv, StepIsHonest
<1>3. HonestInv => StateIsHonest
  BY DEF HonestInv, PursuedInv, ConnectedInv, StateIsHonest, ConnectedIsReal
<1> QED BY <1>1, <1>2, <1>3, PTL DEF Spec
=================================================================================
