---------------------------- MODULE OperationsProofs ----------------------------
(*********************************************************************************)
(* Proofs about Operations, for any number of items and attempts, any size and   *)
(* lifetime of the cache, and uploads of any length.                             *)
(*********************************************************************************)
EXTENDS Operations, MapTheorems, FiniteSetTheorems

---------------------------------------------------------------------------------
(* What the methods of OperationCache do to the Map.                             *)

\* _entries drops entries and changes none.
LEMMA FreshEntries ==
  ASSUME TypeOK
  PROVE  /\ IsMap(Fresh, Op, Entry)
         /\ DOMAIN Fresh \subseteq DOMAIN entries
         /\ \A op \in DOMAIN Fresh : Fresh[op] = entries[op]
<1>1. IsMap(entries, Op, Entry)
  BY DEF TypeOK
<1>2. {op \in DOMAIN entries : now - entries[op].at < OperationTtl} \in SUBSET DOMAIN entries
  OBVIOUS
<1> QED BY <1>1, <1>2, RestrictProperties DEF Fresh

\* begin adds a pending entry to the fresh ones.
LEMMA BegunEntries ==
  ASSUME TypeOK, NEW op \in Op, Begin(op)
  PROVE  /\ IsMap(entries', Op, Entry)
         /\ DOMAIN entries' = DOMAIN Fresh \cup {op}
         /\ entries'[op].state = "pending"
         /\ \A p \in DOMAIN entries' : p # op => p \in DOMAIN entries /\ entries'[p] = entries[p]
         /\ rank' \in Nat
<1> DEFINE new == [state |-> "pending", result |-> <<>>, at |-> now, rank |-> rank + 1]
<1>1. new \in Entry /\ rank' \in Nat
  BY DEF TypeOK, Entry, Begin
<1>2. entries' = With(Fresh, op, new) /\ new.state = "pending"
  BY DEF Begin
<1> HIDE DEF new
<1>3. /\ IsMap(entries', Op, Entry)
      /\ DOMAIN entries' = DOMAIN Fresh \cup {op}
      /\ entries'[op] = new
      /\ \A p \in DOMAIN Fresh : p # op => entries'[p] = Fresh[p]
  BY <1>1, <1>2, FreshEntries, WithProperties
<1> QED BY <1>1, <1>2, <1>3, FreshEntries

\* complete marks the operation done, if it is there, and may evict done ones; it
\* changes no other entry.
LEMMA CompletedEntries ==
  ASSUME TypeOK, NEW op \in Op, NEW item \in Attempt, Complete(op, item)
  PROVE  /\ IsMap(entries', Op, Entry)
         /\ DOMAIN entries' \subseteq DOMAIN entries
         /\ \A p \in DOMAIN entries' : p # op => entries'[p] = entries[p]
         /\ op \in DOMAIN entries' => entries'[op].state = "done" /\ entries'[op].result = item
         /\ DOMAIN entries \ DOMAIN entries'
               \subseteq (IF op \in DOMAIN entries THEN Evicted(Marked(op, item)) ELSE {})
<1>1. CASE op \notin DOMAIN entries
  BY <1>1 DEF Complete, TypeOK
<1>2. CASE op \in DOMAIN entries
  <2> DEFINE marked == Marked(op, item)
  <2>1. /\ IsMap(marked, Op, Entry) /\ DOMAIN marked = DOMAIN entries
        /\ marked[op].state = "done" /\ marked[op].result = item
        /\ \A p \in DOMAIN entries : p # op => marked[p] = entries[p]
    BY <1>2 DEF Marked, TypeOK, IsMap, Entry
  <2>2. entries' = Without(marked, Evicted(marked))
    BY <1>2 DEF Complete
  <2> HIDE DEF marked
  <2>3. /\ IsMap(Without(marked, Evicted(marked)), Op, Entry)
        /\ DOMAIN Without(marked, Evicted(marked)) = DOMAIN marked \ Evicted(marked)
        /\ \A p \in DOMAIN marked \ Evicted(marked) : Without(marked, Evicted(marked))[p] = marked[p]
    BY <2>1, WithoutProperties
  <2> QED BY <1>2, <2>1, <2>2, <2>3 DEF marked
<1> QED BY <1>1, <1>2

\* fail deletes the operation and changes no other.
LEMMA FailedEntries ==
  ASSUME TypeOK, NEW op, Fail(op)
  PROVE  /\ IsMap(entries', Op, Entry)
         /\ DOMAIN entries' = DOMAIN entries \ {op}
         /\ \A p \in DOMAIN entries' : entries'[p] = entries[p]
<1>1. IsMap(entries, Op, Entry) /\ entries' = Without(entries, {op})
  BY DEF TypeOK, Fail
<1>2. /\ IsMap(Without(entries, {op}), Op, Entry)
      /\ DOMAIN Without(entries, {op}) = DOMAIN entries \ {op}
      /\ \A p \in DOMAIN entries \ {op} : Without(entries, {op})[p] = entries[p]
  BY <1>1, WithoutProperties
<1> QED BY <1>1, <1>2

\* The attempts being worked on, when one of them ends.
LEMMA WorkEnded ==
  ASSUME TypeOK, NEW a, working' = Without(working, {a})
  PROVE  /\ IsMap(working', Attempt, Nat)
         /\ DOMAIN working' = DOMAIN working \ {a}
BY WithoutProperties DEF TypeOK

\* ... and when one begins.
LEMMA WorkBegun ==
  ASSUME TypeOK, NEW a \in Attempt, working' = With(working, a, now)
  PROVE  /\ IsMap(working', Attempt, Nat)
         /\ DOMAIN working' = DOMAIN working \cup {a}
<1>1. IsMap(working, Attempt, Nat) /\ now \in Nat
  BY DEF TypeOK
<1> QED BY <1>1 DEF IsMap, With

---------------------------------------------------------------------------------
(* Types.                                                                        *)

\* The phone's side of a step: a call goes out, is given up, or an answer arrives.
LEMMA SendsType ==
  ASSUME TypeOK, NEW op \in Op,
         \/ \E n \in 1..MaxAttempts : Try(op, n)
         \/ GiveUp(op)
         \/ \E n \in 1..MaxAttempts, state \in {"delivered", "failed"}, item \in Attempt \cup {<<>>} :
               Answer(op, n, state, item)
  PROVE  sends' \in [Op -> SendState]
<1>1. sends \in [Op -> SendState] /\ now \in Nat
  BY DEF TypeOK
<1>2. ASSUME NEW n \in 1..MaxAttempts, Try(op, n)
      PROVE  sends' \in [Op -> SendState]
  <2>1. n \in 0..MaxAttempts
    BY OperationsAssumption
  <2> QED BY <1>1, <1>2, <2>1 DEF Try, SendState
<1>3. CASE GiveUp(op)
  BY <1>1, <1>3 DEF GiveUp, SendState
<1>4. ASSUME NEW n \in 1..MaxAttempts, NEW state \in {"delivered", "failed"},
             NEW item \in Attempt \cup {<<>>}, Answer(op, n, state, item)
      PROVE  sends' \in [Op -> SendState]
  <2>1. CASE UNCHANGED sends
    BY <1>1, <2>1
  <2>2. CASE sends' = [sends EXCEPT ![op].state = state, ![op].item = item]
    BY <1>1, <2>2 DEF SendState
  <2> QED BY <1>4, <2>1, <2>2 DEF Answer
<1> QED BY <1>2, <1>3, <1>4

\* The steps of phone, network and laptop keep the types.
LEMMA StepType ==
  ASSUME TypeOK, [Next]_vars
  PROVE  TypeOK'
<1> USE DEF TypeOK
<1>1. CASE UNCHANGED vars
  BY <1>1 DEF vars
<1>2. ASSUME NEW op \in Op, Phone(op)
      PROVE  TypeOK'
  <2>1. sends[op].attempt \in 0..MaxAttempts
    BY DEF SendState
  <2>2. CASE Send(op)
    <3>1. 1 \in 1..MaxAttempts /\ <<op, 1>> \in Attempt
      BY OperationsAssumption DEF Attempt
    <3> QED BY <2>2, <3>1, SendsType DEF Send, Try
  <2>3. CASE Unanswered(op)
    <3>1. CASE sends[op].attempt < MaxAttempts /\ Try(op, sends[op].attempt + 1)
      <4>1. sends[op].attempt + 1 \in 1..MaxAttempts
        BY <2>1, <3>1, OperationsAssumption
      <4>2. <<op, sends[op].attempt + 1>> \in Attempt
        BY <4>1 DEF Attempt
      <4> QED BY <2>3, <3>1, <4>1, <4>2, SendsType DEF Unanswered, Try
    <3>2. CASE GiveUp(op) /\ UNCHANGED calls
      BY <2>3, <3>2, SendsType DEF Unanswered
    <3> QED BY <2>3, <3>1, <3>2 DEF Unanswered
  <2> QED BY <1>2, <2>2, <2>3 DEF Phone
<1>3. ASSUME NEW op \in Op, NEW n \in 1..MaxAttempts, Network(op, n) \/ Server(op, n)
      PROVE  TypeOK'
  <2>1. <<op, n>> \in Attempt
    BY DEF Attempt
  <2>2. CASE CallLost(op, n)
    BY <2>2 DEF CallLost
  <2>3. CASE ReceiveNew(op, n)
    <3>1. IsMap(working', Attempt, Nat)
      BY <2>1, <2>3, WorkBegun DEF ReceiveNew
    <3>2. IsMap(entries', Op, Entry) /\ rank' \in Nat
      BY <2>3, BegunEntries DEF ReceiveNew
    <3>3. forgotten' \subseteq Op
      BY <2>3 DEF ReceiveNew, Receive, Forget, IsMap
    <3> QED BY <2>3, <3>1, <3>2, <3>3 DEF ReceiveNew, Receive
  <2>4. CASE ReceiveRepeated(op, n)
    <3>1. entries[op].result \in Attempt \cup {<<>>}
      BY <2>4, FreshEntries DEF ReceiveRepeated, DoneIn, IsMap, Entry
    <3>2. sends' \in [Op -> SendState]
      BY <2>4, <3>1, SendsType DEF ReceiveRepeated
    <3>3. forgotten' \subseteq Op
      BY <2>4 DEF ReceiveRepeated, Receive, Forget, IsMap
    <3> QED BY <2>4, <3>2, <3>3, FreshEntries DEF ReceiveRepeated, Receive
  <2>5. CASE ReceivePending(op, n)
    <3>1. forgotten' \subseteq Op
      BY <2>5 DEF ReceivePending, Forget, IsMap
    <3>2. sends' \in [Op -> SendState] /\ calls' \subseteq Attempt
      <4>1. CASE n < MaxAttempts /\ sends' = [sends EXCEPT ![op].attempt = n + 1, ![op].since = now]
                 /\ calls' = (calls \ {<<op, n>>}) \cup {<<op, n + 1>>}
        <5>1. n + 1 \in 1..MaxAttempts /\ n + 1 \in 0..MaxAttempts
          BY <4>1, OperationsAssumption
        <5>2. <<op, n + 1>> \in Attempt
          BY <5>1 DEF Attempt
        <5> QED BY <4>1, <5>1, <5>2 DEF SendState
      <4>2. CASE GiveUp(op) /\ calls' = calls \ {<<op, n>>}
        BY <4>2, SendsType
      <4>3. CASE UNCHANGED sends /\ calls' = calls \ {<<op, n>>}
        BY <4>3
      <4> QED BY <2>5, <4>1, <4>2, <4>3 DEF ReceivePending
    <3> QED BY <2>5, <3>1, <3>2, FreshEntries DEF ReceivePending
  <2>6. CASE Finish(op, n)
    <3>1. IsMap(working', Attempt, Nat) /\ stored' \subseteq Attempt
      BY <2>1, <2>6, WorkEnded DEF Finish
    <3>2. IsMap(entries', Op, Entry)
      BY <2>1, <2>6, CompletedEntries DEF Finish
    <3>3. sends' \in [Op -> SendState]
      BY <2>1, <2>6, SendsType DEF Finish
    <3>4. forgotten' \subseteq Op
      <4>1. op \in DOMAIN entries => DOMAIN Marked(op, <<op, n>>) = DOMAIN entries
        BY DEF Marked
      <4> QED BY <2>6, <4>1 DEF Finish, Forget, Evicted, DoneIn, IsMap
    <3> QED BY <2>6, <3>1, <3>2, <3>3, <3>4 DEF Finish
  <2>7. CASE Abort(op, n)
    <3>1. IsMap(working', Attempt, Nat) /\ stored' \subseteq Attempt
      BY <2>1, <2>7, WorkEnded DEF Abort
    <3>2. IsMap(entries', Op, Entry)
      BY <2>7, FailedEntries DEF Abort
    <3>3. sends' \in [Op -> SendState]
      BY <2>7, SendsType DEF Abort
    <3>4. forgotten' \subseteq Op
      BY <2>7 DEF Abort, Forget
    <3> QED BY <2>7, <3>1, <3>2, <3>3, <3>4 DEF Abort
  <2> QED BY <1>3, <2>2, <2>3, <2>4, <2>5, <2>6, <2>7 DEF Network, Server
<1>4. CASE Restart
  BY <1>4, EmptyMapIsMap DEF Restart, Forget, IsMap
<1>5. CASE TimePasses
  BY <1>5 DEF TimePasses
<1> QED BY <1>1, <1>2, <1>3, <1>4, <1>5 DEF Next

\* Types, for every value of the constants.
THEOREM OperationsTypeCorrect == Spec => []TypeOK
<1>1. Init => TypeOK
  BY OperationsAssumption, EmptyMapIsMap DEF Init, TypeOK, SendState
<1>2. TypeOK /\ [Next]_vars => TypeOK'
  BY StepType
<1> QED BY <1>1, <1>2, PTL DEF Spec

---------------------------------------------------------------------------------
(* A delivered send is stored: the answer to a repeat is the result that the     *)
(* cache remembers, so what it remembers must be stored as well.                 *)

RemembersStored ==
    \A op \in DoneIn(entries) : entries[op].result \in stored /\ entries[op].result[1] = op

Delivered == DeliveredIsStored /\ RemembersStored

\* The phone's sends that are not answered in a step stay as they are, or are not
\* delivered by it; the history never loses an item.
LEMMA UnansweredDelivered ==
  ASSUME TypeOK, DeliveredIsStored, stored \subseteq stored',
         NEW op \in Op,
         \/ UNCHANGED sends
         \/ \E n \in 1..MaxAttempts : Try(op, n)
         \/ GiveUp(op)
         \/ \E n \in 1..MaxAttempts :
               sends[op].state = "sending" /\ sends' = [sends EXCEPT ![op].attempt = n, ![op].since = now]
         \/ \E n \in 1..MaxAttempts : Answer(op, n, "failed", <<>>)
  PROVE  DeliveredIsStored'
<1>1. sends \in [Op -> SendState]
  BY DEF TypeOK
<1>2. \A p \in Op : sends'[p].state = "delivered" =>
         sends[p].state = "delivered" /\ sends'[p].item = sends[p].item
  BY <1>1 DEF Try, GiveUp, Answer, SendState
<1> QED BY <1>2 DEF DeliveredIsStored

\* An answer with an item that is stored.
LEMMA AnsweredDelivered ==
  ASSUME TypeOK, DeliveredIsStored, stored \subseteq stored',
         NEW op \in Op, NEW n, NEW item, item \in stored', item[1] = op,
         Answer(op, n, "delivered", item)
  PROVE  DeliveredIsStored'
<1>1. sends \in [Op -> SendState]
  BY DEF TypeOK
<1>2. \A p \in Op : \/ sends'[p] = sends[p]
                    \/ p = op /\ sends'[p].item = item
  BY <1>1 DEF Answer, SendState
<1> QED BY <1>2 DEF DeliveredIsStored

\* Entries that are dropped, or added as pending, leave what is remembered stored.
LEMMA FewerRemembered ==
  ASSUME RemembersStored, stored \subseteq stored',
         \A op \in DOMAIN entries' :
            \/ entries'[op].state # "done"
            \/ op \in DOMAIN entries /\ entries'[op] = entries[op]
            \/ entries'[op].result \in stored' /\ entries'[op].result[1] = op
  PROVE  RemembersStored'
BY DEF RemembersStored, DoneIn

\* The steps of phone, network and laptop, by what they answer and what they remember.
LEMMA StepDelivered ==
  ASSUME TypeOK, Delivered, [Next]_vars
  PROVE  Delivered'
<1> USE DEF Delivered
<1>1. CASE UNCHANGED <<sends, entries, stored>>
  BY <1>1 DEF DeliveredIsStored, RemembersStored, DoneIn
<1>2. ASSUME NEW op \in Op, Phone(op)
      PROVE  Delivered'
  <2>1. UNCHANGED <<entries, stored>>
    BY <1>2 DEF Phone, Send, Unanswered
  <2>2. \/ \E n \in 1..MaxAttempts : Try(op, n)
        \/ GiveUp(op)
    <3>1. sends[op].attempt \in 0..MaxAttempts
      BY DEF TypeOK, SendState
    <3>2. CASE Send(op)
      <4>1. 1 \in 1..MaxAttempts
        BY OperationsAssumption
      <4> QED BY <3>2, <4>1 DEF Send
    <3>3. CASE sends[op].attempt < MaxAttempts /\ Try(op, sends[op].attempt + 1)
      <4>1. sends[op].attempt + 1 \in 1..MaxAttempts
        BY <3>1, <3>3, OperationsAssumption
      <4> QED BY <3>3, <4>1
    <3> QED BY <1>2, <3>2, <3>3 DEF Phone, Unanswered
  <2>3. DeliveredIsStored'
    BY <2>1, <2>2, UnansweredDelivered
  <2>4. RemembersStored'
    BY <2>1, FewerRemembered
  <2> QED BY <2>3, <2>4
<1>3. ASSUME NEW op \in Op, NEW n \in 1..MaxAttempts, Server(op, n)
      PROVE  Delivered'
  <2>1. CASE ReceiveNew(op, n)
    <3>1. UNCHANGED <<sends, stored>>
      BY <2>1 DEF ReceiveNew, Receive
    <3>2. RemembersStored'
      BY <2>1, <3>1, BegunEntries, FewerRemembered DEF ReceiveNew
    <3> QED BY <3>1, <3>2 DEF DeliveredIsStored
  <2>2. CASE ReceiveRepeated(op, n)
    <3>1. entries[op].result \in stored /\ entries[op].result[1] = op
      BY <2>2, FreshEntries DEF ReceiveRepeated, DoneIn, RemembersStored
    <3>2. DeliveredIsStored'
      BY <2>2, <3>1, AnsweredDelivered DEF ReceiveRepeated, Receive
    <3>3. RemembersStored'
      BY <2>2, FreshEntries, FewerRemembered DEF ReceiveRepeated, Receive
    <3> QED BY <3>2, <3>3
  <2>3. CASE ReceivePending(op, n)
    <3>1. UNCHANGED stored /\ entries' = Fresh
      BY <2>3 DEF ReceivePending
    <3>2. DeliveredIsStored'
      <4>1. n < MaxAttempts => n + 1 \in 1..MaxAttempts
        BY OperationsAssumption
      <4> QED BY <2>3, <3>1, <4>1, UnansweredDelivered DEF ReceivePending, Awaits
    <3>3. RemembersStored'
      BY <3>1, FreshEntries, FewerRemembered
    <3> QED BY <3>2, <3>3
  <2>4. CASE Finish(op, n)
    <3>1. stored' = stored \cup {<<op, n>>} /\ <<op, n>> \in Attempt /\ <<op, n>>[1] = op
      BY <2>4 DEF Finish, Attempt
    <3>2. DeliveredIsStored'
      BY <2>4, <3>1, AnsweredDelivered DEF Finish
    <3>3. RemembersStored'
      BY <2>4, <3>1, CompletedEntries, FewerRemembered DEF Finish
    <3> QED BY <3>2, <3>3
  <2>5. CASE Abort(op, n)
    <3>1. stored \subseteq stored'
      BY <2>5 DEF Abort
    <3>2. DeliveredIsStored'
      BY <2>5, <3>1, UnansweredDelivered DEF Abort
    <3>3. RemembersStored'
      BY <2>5, <3>1, FailedEntries, FewerRemembered DEF Abort
    <3> QED BY <3>2, <3>3
  <2> QED BY <1>3, <2>1, <2>2, <2>3, <2>4, <2>5 DEF Server
<1>4. CASE Restart
  <2>1. UNCHANGED <<sends, stored>> /\ DOMAIN entries' = {}
    BY <1>4 DEF Restart, EmptyMap
  <2> QED BY <2>1 DEF DeliveredIsStored, RemembersStored, DoneIn
<1> QED BY <1>1, <1>2, <1>3, <1>4 DEF Next, Network, CallLost, TimePasses, vars

\* What the phone shows as delivered is in the laptop's history, under the item it was
\* told of, whatever becomes of calls, answers, the cache and the process.
THEOREM DeliveredIsAlwaysStored == Spec => []DeliveredIsStored
<1>1. Init => Delivered
  BY DEF Init, Delivered, DeliveredIsStored, RemembersStored, DoneIn, EmptyMap
<1>2. TypeOK /\ Delivered /\ [Next]_vars => Delivered'
  BY StepDelivered
<1>3. Delivered => DeliveredIsStored
  BY DEF Delivered
<1> QED BY <1>1, <1>2, <1>3, OperationsTypeCorrect, PTL DEF Spec

---------------------------------------------------------------------------------
(* Pending operations are being worked on.                                       *)

\* An operation is pending from the step that begins its work to the one that ends it.
LEMMA StepPending ==
  ASSUME TypeOK, PendingIsWorking, [Next]_vars
  PROVE  PendingIsWorking'
<1>1. CASE UNCHANGED <<entries, working>>
  BY <1>1 DEF PendingIsWorking, DoneIn
<1>2. ASSUME NEW op \in Op, NEW n \in 1..MaxAttempts, Server(op, n)
      PROVE  PendingIsWorking'
  <2>1. CASE ReceiveNew(op, n)
    <3>1. DOMAIN working' = DOMAIN working \cup {<<op, n>>}
      BY <2>1, WorkBegun DEF ReceiveNew, Attempt
    <3> QED BY <2>1, <3>1, BegunEntries DEF ReceiveNew, PendingIsWorking, DoneIn
  <2>2. CASE ReceiveRepeated(op, n) \/ ReceivePending(op, n)
    BY <2>2, FreshEntries DEF ReceiveRepeated, ReceivePending, PendingIsWorking, DoneIn
  <2>3. CASE Finish(op, n)
    <3>1. DOMAIN working' = DOMAIN working \ {<<op, n>>}
      BY <2>3, WorkEnded DEF Finish
    <3>2. /\ DOMAIN entries' \subseteq DOMAIN entries
          /\ \A p \in DOMAIN entries' : p # op => entries'[p] = entries[p]
          /\ op \in DOMAIN entries' => entries'[op].state = "done"
      BY <2>3, CompletedEntries DEF Finish, Attempt
    <3> QED BY <3>1, <3>2 DEF PendingIsWorking, DoneIn
  <2>4. CASE Abort(op, n)
    <3>1. DOMAIN working' = DOMAIN working \ {<<op, n>>}
      BY <2>4, WorkEnded DEF Abort
    <3>2. DOMAIN entries' = DOMAIN entries \ {op} /\ \A p \in DOMAIN entries' : entries'[p] = entries[p]
      BY <2>4, FailedEntries DEF Abort
    <3> QED BY <3>1, <3>2 DEF PendingIsWorking, DoneIn
  <2> QED BY <1>2, <2>1, <2>2, <2>3, <2>4 DEF Server
<1>3. CASE Restart
  <2>1. DOMAIN entries' = {}
    BY <1>3 DEF Restart, EmptyMap
  <2> QED BY <2>1 DEF PendingIsWorking, DoneIn
<1> QED BY <1>1, <1>2, <1>3 DEF Next, Phone, Send, Unanswered, Network, CallLost, TimePasses, vars

\* No operation stays pending for good: whenever a repeat is put off, a handler is
\* awaiting the work of that operation, and its end completes or fails the entry.
THEOREM PendingIsAlwaysWorking == Spec => []PendingIsWorking
<1>1. Init => PendingIsWorking
  BY DEF Init, PendingIsWorking, DoneIn, EmptyMap
<1>2. TypeOK /\ PendingIsWorking /\ [Next]_vars => PendingIsWorking'
  BY StepPending
<1> QED BY <1>1, <1>2, OperationsTypeCorrect, PTL DEF Spec

---------------------------------------------------------------------------------
(* An item is stored once.  While the cache has not lost an operation, its entry *)
(* tells the truth: none before its first attempt or after a failure, pending    *)
(* during the one attempt that works, done once an item is stored.               *)

WorksOn(op) == {n \in 1..MaxAttempts : <<op, n>> \in DOMAIN working}
ItemsOf(op) == {n \in 1..MaxAttempts : <<op, n>> \in stored}

EntryIsTrue(op) ==
    /\ \A m, n \in WorksOn(op) : m = n
    /\ \A m, n \in ItemsOf(op) : m = n
    /\ WorksOn(op) # {} => ItemsOf(op) = {} /\ op \in DOMAIN entries /\ entries[op].state = "pending"
    /\ ItemsOf(op) # {} => op \in DOMAIN entries /\ entries[op].state = "done"

CacheTellsTrue == \A op \in Op \ forgotten : EntryIsTrue(op)

\* A step that touches neither the entry, nor the work, nor the items of an operation.
LEMMA UntouchedEntry ==
  ASSUME NEW op, EntryIsTrue(op), WorksOn(op)' = WorksOn(op), ItemsOf(op)' = ItemsOf(op),
         op \in DOMAIN entries => op \in DOMAIN entries' /\ entries'[op] = entries[op]
  PROVE  EntryIsTrue(op)'
BY DEF EntryIsTrue

\* An attempt of one operation is no attempt of another.
LEMMA OtherAttempts ==
  ASSUME NEW op, NEW n, NEW p, p # op,
         \/ working' = working
         \/ DOMAIN working' = DOMAIN working \cup {<<op, n>>}
         \/ DOMAIN working' = DOMAIN working \ {<<op, n>>},
         stored' = stored \/ stored' = stored \cup {<<op, n>>}
  PROVE  WorksOn(p)' = WorksOn(p) /\ ItemsOf(p)' = ItemsOf(p)
BY DEF WorksOn, ItemsOf

\* The steps of phone, network and laptop, by what they do to entries, work and history.
LEMMA StepTellsTrue ==
  ASSUME TypeOK, CacheTellsTrue, [Next]_vars
  PROVE  CacheTellsTrue'
<1>1. CASE UNCHANGED <<entries, working, stored, forgotten>>
  BY <1>1 DEF CacheTellsTrue, EntryIsTrue, WorksOn, ItemsOf
<1>2. ASSUME NEW op \in Op, NEW n \in 1..MaxAttempts, Server(op, n),
             NEW p \in Op, p \notin forgotten'
      PROVE  EntryIsTrue(p)'
  <2>1. EntryIsTrue(p)
    <3>1. forgotten \subseteq forgotten'
      BY <1>2 DEF Server, ReceiveNew, ReceiveRepeated, ReceivePending, Receive, Finish, Abort, Forget
    <3> QED BY <1>2, <3>1 DEF CacheTellsTrue
  <2>2. CASE ReceiveNew(op, n)
    <3>1. DOMAIN working' = DOMAIN working \cup {<<op, n>>} /\ stored' = stored
      BY <2>2, WorkBegun DEF ReceiveNew, Receive, Attempt
    <3>2. p \in DOMAIN entries => p \in DOMAIN Fresh
      BY <1>2, <2>2 DEF ReceiveNew, Receive, Forget
    <3>3. CASE p # op
      <4>1. p \in DOMAIN entries => p \in DOMAIN entries' /\ entries'[p] = entries[p]
        BY <2>2, <3>2, <3>3, BegunEntries DEF ReceiveNew
      <4> QED BY <2>1, <3>1, <3>3, <4>1, OtherAttempts, UntouchedEntry
    <3>4. CASE p = op
      <4>1. WorksOn(p) = {} /\ ItemsOf(p) = {}
        BY <2>1, <2>2, <3>2, <3>4 DEF EntryIsTrue, ReceiveNew
      <4>2. WorksOn(p)' \subseteq {n} /\ ItemsOf(p)' = {}
        BY <3>1, <3>4, <4>1 DEF WorksOn, ItemsOf
      <4>3. p \in DOMAIN entries' /\ entries'[p].state = "pending"
        BY <2>2, <3>4, BegunEntries DEF ReceiveNew
      <4> QED BY <4>2, <4>3 DEF EntryIsTrue
    <3> QED BY <3>3, <3>4
  <2>3. CASE ReceiveRepeated(op, n) \/ ReceivePending(op, n)
    <3>1. UNCHANGED <<working, stored>> /\ entries' = Fresh
          /\ forgotten' = forgotten \cup (DOMAIN entries \ DOMAIN Fresh)
      BY <2>3 DEF ReceiveRepeated, ReceivePending, Receive, Forget
    <3>2. p \in DOMAIN entries => p \in DOMAIN entries' /\ entries'[p] = entries[p]
      BY <1>2, <3>1, FreshEntries
    <3>3. WorksOn(p)' = WorksOn(p) /\ ItemsOf(p)' = ItemsOf(p)
      BY <3>1 DEF WorksOn, ItemsOf
    <3> QED BY <2>1, <3>2, <3>3, UntouchedEntry
  <2>4. CASE Finish(op, n)
    <3>1. DOMAIN working' = DOMAIN working \ {<<op, n>>} /\ <<op, n>> \in DOMAIN working
          /\ stored' = stored \cup {<<op, n>>}
      BY <2>4, WorkEnded DEF Finish
    <3>2. /\ \A q \in DOMAIN entries' : q # op => entries'[q] = entries[q]
          /\ op \in DOMAIN entries' => entries'[op].state = "done"
          /\ DOMAIN entries \ DOMAIN entries'
                \subseteq (IF op \in DOMAIN entries THEN Evicted(Marked(op, <<op, n>>)) ELSE {})
      BY <2>4, CompletedEntries DEF Finish, Attempt
    <3>3. p \in DOMAIN entries => p \in DOMAIN entries'
      BY <1>2, <2>4, <3>2 DEF Finish, Forget
    <3>4. CASE p # op
      BY <2>1, <3>1, <3>2, <3>3, <3>4, OtherAttempts, UntouchedEntry
    <3>5. CASE p = op
      <4>1. n \in WorksOn(p)
        BY <3>1, <3>5 DEF WorksOn
      <4>2. ItemsOf(p) = {} /\ p \in DOMAIN entries /\ \A m \in WorksOn(p) : m = n
        BY <2>1, <4>1 DEF EntryIsTrue
      <4>3. WorksOn(p)' = {} /\ ItemsOf(p)' \subseteq {n}
        BY <3>1, <3>5, <4>2 DEF WorksOn, ItemsOf
      <4> QED BY <3>2, <3>3, <3>5, <4>2, <4>3 DEF EntryIsTrue
    <3> QED BY <3>4, <3>5
  <2>5. CASE Abort(op, n)
    <3>1. DOMAIN working' = DOMAIN working \ {<<op, n>>} /\ <<op, n>> \in DOMAIN working
          /\ stored' \in {stored, stored \cup {<<op, n>>}}
      BY <2>5, WorkEnded DEF Abort
    <3>2. DOMAIN entries' = DOMAIN entries \ {op} /\ \A q \in DOMAIN entries' : entries'[q] = entries[q]
      BY <2>5, FailedEntries DEF Abort
    <3>3. CASE p # op
      BY <2>1, <3>1, <3>2, <3>3, OtherAttempts, UntouchedEntry
    <3>4. CASE p = op
      <4>1. stored' = stored
        BY <1>2, <2>5, <3>4 DEF Abort, Forget
      <4>2. n \in WorksOn(p)
        BY <3>1, <3>4 DEF WorksOn
      <4>3. ItemsOf(p) = {} /\ \A m \in WorksOn(p) : m = n
        BY <2>1, <4>2 DEF EntryIsTrue
      <4>4. WorksOn(p)' = {} /\ ItemsOf(p)' = {}
        BY <3>1, <3>4, <4>1, <4>3 DEF WorksOn, ItemsOf
      <4> QED BY <4>4 DEF EntryIsTrue
    <3> QED BY <3>3, <3>4
  <2> QED BY <1>2, <2>2, <2>3, <2>4, <2>5 DEF Server
<1>3. CASE Restart
  <2> SUFFICES ASSUME NEW op \in Op, op \notin forgotten' PROVE EntryIsTrue(op)'
    BY DEF CacheTellsTrue
  <2>1. EntryIsTrue(op) /\ op \notin DOMAIN entries
    BY <1>3 DEF Restart, Forget, CacheTellsTrue
  <2>2. WorksOn(op)' = {} /\ ItemsOf(op)' = {}
    BY <1>3, <2>1 DEF Restart, EntryIsTrue, WorksOn, ItemsOf, EmptyMap
  <2> QED BY <2>2 DEF EntryIsTrue
<1>4. ASSUME NEW op \in Op, NEW n \in 1..MaxAttempts, Server(op, n)
      PROVE  CacheTellsTrue'
  BY <1>2, <1>4 DEF CacheTellsTrue
<1> QED BY <1>1, <1>3, <1>4 DEF Next, Phone, Send, Unanswered, Network, CallLost, TimePasses, vars

\* An item is in the history at most once, however its send is repeated, unless the
\* cache lost its operation.
THEOREM AlwaysStoredOnce == Spec => []StoredOnce
<1>1. Init => CacheTellsTrue
  BY DEF Init, CacheTellsTrue, EntryIsTrue, WorksOn, ItemsOf, EmptyMap
<1>2. TypeOK /\ CacheTellsTrue /\ [Next]_vars => CacheTellsTrue'
  BY StepTellsTrue
<1>3. TypeOK /\ CacheTellsTrue => StoredOnce
  <2> SUFFICES ASSUME TypeOK, CacheTellsTrue, NEW a \in stored, NEW b \in stored,
                      a[1] = b[1], a[1] \notin forgotten
               PROVE  a = b
    BY DEF StoredOnce
  <2>1. a \in Attempt /\ b \in Attempt
    BY DEF TypeOK
  <2>2. PICK op \in Op, m \in 1..MaxAttempts : a = <<op, m>>
    BY <2>1 DEF Attempt
  <2>3. PICK n \in 1..MaxAttempts : b = <<op, n>>
    BY <2>1, <2>2 DEF Attempt
  <2>4. m \in ItemsOf(op) /\ n \in ItemsOf(op) /\ EntryIsTrue(op)
    BY <2>2, <2>3 DEF ItemsOf, CacheTellsTrue
  <2> QED BY <2>2, <2>3, <2>4 DEF EntryIsTrue
<1> QED BY <1>1, <1>2, <1>3, OperationsTypeCorrect, PTL DEF Spec

---------------------------------------------------------------------------------
(* The cache is bounded.  Eviction counts: it drops the done entries that have   *)
(* few done ones before them in the Map.  That the ranks of entries differ makes *)
(* the count exact.                                                              *)

RanksDiffer == /\ IsFiniteSet(DOMAIN entries)
               /\ \A p, q \in DOMAIN entries : entries[p].rank = entries[q].rank => p = q
               /\ \A p \in DOMAIN entries : entries[p].rank <= rank

Bounded == RanksDiffer /\ CacheIsBounded

\* Of done entries with different ranks, those that remain after an eviction, together
\* with the entries still pending, are no more than fit: a smallest rank among those
\* that remain has `excess' evicted ones before it.
LEMMA EvictionBounds ==
  ASSUME NEW map, IsFiniteSet(DOMAIN map),
         \A p \in DOMAIN map : map[p].rank \in Nat,
         \A p, q \in DOMAIN map : map[p].rank = map[q].rank => p = q
  PROVE  Cardinality(DoneIn(map) \ Evicted(map)) <= MaxOperations
<1> DEFINE done == DoneIn(map)
           gone == Evicted(map)
           left == done \ gone
           excess == Cardinality(DOMAIN map) - MaxOperations
           Older(op) == {p \in done : map[p].rank <= map[op].rank}
<1>1. /\ done \in SUBSET DOMAIN map
      /\ gone = {op \in done : Cardinality(Older(op)) <= excess}
      /\ left = done \ gone
      /\ \A op \in done : Older(op) = {p \in done : map[p].rank <= map[op].rank}
  BY DEF DoneIn, Evicted
<1>2. \A p \in done : map[p].rank \in Nat
  BY <1>1
<1>3. MaxOperations \in Nat
  BY OperationsAssumption
<1>4. /\ Cardinality(DOMAIN map) \in Nat
      /\ excess = Cardinality(DOMAIN map) - MaxOperations
  BY FS_CardinalityType
<1> HIDE DEF done, gone, left, excess, Older
<1>5. /\ IsFiniteSet(done) /\ Cardinality(done) \in Nat
      /\ Cardinality(done) <= Cardinality(DOMAIN map)
  BY <1>1, FS_Subset, FS_CardinalityType
<1>6. /\ IsFiniteSet(left) /\ Cardinality(left) \in Nat
      /\ IsFiniteSet(gone) /\ Cardinality(gone) \in Nat
  <2>1. left \in SUBSET done /\ gone \in SUBSET done
    BY <1>1
  <2> QED BY <1>5, <2>1, FS_Subset, FS_CardinalityType
<1>7. Cardinality(left) + Cardinality(gone) = Cardinality(done)
  <2>1. left \cup gone = done /\ left \cap gone = {}
    BY <1>1
  <2>2. Cardinality(left \cup gone) = Cardinality(left) + Cardinality(gone) - Cardinality(left \cap gone)
    BY <1>6, FS_Union
  <2>3. Cardinality(left \cap gone) = 0
    BY <2>1, FS_EmptySet
  <2>4. Cardinality(done) = Cardinality(left) + Cardinality(gone) - 0
    BY <2>1, <2>2, <2>3, Zenon
  <2> QED BY <1>6, <2>4
<1>8. CASE left = {}
  <2>1. Cardinality(left) = 0
    BY <1>8, FS_EmptySet
  <2> QED BY <1>3, <2>1 DEF left, done, gone
<1>9. CASE left # {}
  <2>1. PICK op \in left : \A p \in left : ~ (Older(p) \subseteq Older(op) /\ Older(p) # Older(op))
    <3> DEFINE lists == {Older(p) : p \in left}
    <3>1. lists \subseteq FiniteSubsetsOf(done) /\ lists # {}
      <4>1. \A p \in left : Older(p) \in SUBSET done
        BY <1>1
      <4>2. FiniteSubsetsOf(done) = SUBSET done
        BY <1>5, FS_FiniteSubsetsOfFinite
      <4>3. lists \subseteq SUBSET done /\ lists # {}
        BY <1>9, <4>1, Zenon
      <4> QED BY <4>2, <4>3
    <3> HIDE DEF lists
    <3>2. PICK T \in lists : \A U \in lists : ~ (<<U, T>> \in StrictSubsetOrdering(done))
      BY <3>1, FS_StrictSubsetOrderingWellFounded, WFMin
    <3>3. PICK op \in left : T = Older(op)
      BY <3>2 DEF lists
    <3>4. \A p \in left : Older(p) \in lists /\ Older(p) \in SUBSET done
      BY <1>1 DEF lists
    <3>5. \A U, V \in SUBSET done : U \subseteq V /\ U # V => <<U, V>> \in StrictSubsetOrdering(done)
      BY DEF StrictSubsetOrdering
    <3> QED BY <3>2, <3>3, <3>4, <3>5
  <2>2. op \in done /\ op \in Older(op) /\ Older(op) \in SUBSET done
    BY <1>1, <1>2
  <2>3. Older(op) \ {op} \subseteq gone
    <3> SUFFICES ASSUME NEW p \in Older(op), p # op, p \notin gone PROVE FALSE
      OBVIOUS
    <3>1. p \in left /\ p \in done /\ map[p].rank <= map[op].rank
      BY <1>1, <2>2
    <3>2. map[p].rank # map[op].rank
      BY <1>1, <2>2, <3>1
    <3>3. map[p].rank < map[op].rank /\ map[p].rank \in Nat /\ map[op].rank \in Nat
      BY <1>2, <2>2, <3>1, <3>2
    <3>4. op \notin Older(p)
      BY <1>1, <3>1, <3>3
    <3>5. Older(p) \subseteq Older(op)
      <4>1. \A q \in done : map[q].rank <= map[p].rank => map[q].rank <= map[op].rank
        BY <1>2, <3>3
      <4> QED BY <1>1, <2>2, <3>1, <4>1
    <3> QED BY <2>1, <2>2, <3>1, <3>4, <3>5
  <2>4. /\ IsFiniteSet(Older(op)) /\ Cardinality(Older(op)) \in Nat
        /\ Cardinality(Older(op) \ {op}) = Cardinality(Older(op)) - 1
    <3>1. IsFiniteSet(Older(op))
      BY <1>5, <2>2, FS_Subset
    <3> QED BY <2>2, <3>1, FS_CardinalityType, FS_RemoveElement
  <2>5. Cardinality(Older(op) \ {op}) <= Cardinality(gone)
    BY <1>6, <2>3, FS_Subset
  <2>6. ~ Cardinality(Older(op)) <= excess
    BY <1>1, <2>2
  <2>7. excess \in Int /\ excess <= Cardinality(gone)
    BY <1>3, <1>4, <1>6, <2>4, <2>5, <2>6
  <2>8. Cardinality(left) <= MaxOperations
    BY <1>3, <1>4, <1>5, <1>6, <1>7, <2>7
  <2> QED BY <2>8 DEF left, done, gone
<1> QED BY <1>8, <1>9

\* Entries that are dropped, and none that becomes done, keep the cache bounded.
LEMMA FewerBounded ==
  ASSUME TypeOK, Bounded, rank \in Nat, rank' \in Nat, rank <= rank',
         DOMAIN entries' \subseteq DOMAIN entries,
         \A p \in DOMAIN entries' : entries'[p] = entries[p]
  PROVE  Bounded'
<1>1. IsFiniteSet(DOMAIN entries) /\ IsFiniteSet(DOMAIN entries')
  BY FS_Subset DEF Bounded, RanksDiffer
<1>2. \A p \in DOMAIN entries : entries[p].rank \in Nat
  BY DEF TypeOK, IsMap, Entry
<1>3. RanksDiffer'
  BY <1>1, <1>2 DEF Bounded, RanksDiffer
<1>4. DoneIn(entries)' \in SUBSET DoneIn(entries) /\ DoneIn(entries) \in SUBSET DOMAIN entries
  BY DEF DoneIn
<1>5. CacheIsBounded'
  <2>1. IsFiniteSet(DoneIn(entries))
    BY <1>1, <1>4, FS_Subset
  <2>2. /\ Cardinality(DoneIn(entries)') <= Cardinality(DoneIn(entries))
        /\ Cardinality(DoneIn(entries)') \in Nat /\ Cardinality(DoneIn(entries)) \in Nat
    BY <1>4, <2>1, FS_Subset, FS_CardinalityType
  <2>3. Cardinality(DoneIn(entries)) <= MaxOperations /\ MaxOperations \in Nat
    BY OperationsAssumption DEF Bounded, CacheIsBounded
  <2> QED BY <2>2, <2>3 DEF CacheIsBounded
<1> QED BY <1>3, <1>5 DEF Bounded

\* A new operation gets a rank of its own, and is not done.
LEMMA BegunBounded ==
  ASSUME TypeOK, Bounded, NEW op \in Op, op \notin DOMAIN Fresh, Begin(op)
  PROVE  Bounded'
<1>1. /\ DOMAIN entries' = DOMAIN Fresh \cup {op} /\ DOMAIN Fresh \subseteq DOMAIN entries
      /\ entries'[op].state = "pending"
      /\ \A p \in DOMAIN Fresh : entries'[p] = entries[p]
  BY BegunEntries, FreshEntries
<1>2. entries'[op].rank = rank + 1 /\ rank' = rank + 1 /\ rank \in Nat
  BY DEF Begin, With, TypeOK
<1>3. \A p \in DOMAIN entries : entries[p].rank \in Nat
  BY DEF TypeOK, IsMap, Entry
<1>4. IsFiniteSet(DOMAIN entries) /\ IsFiniteSet(DOMAIN entries')
  <2>1. IsFiniteSet(DOMAIN entries)
    BY DEF Bounded, RanksDiffer
  <2>2. IsFiniteSet(DOMAIN Fresh)
    BY <1>1, <2>1, FS_Subset
  <2> QED BY <1>1, <2>1, <2>2, FS_AddElement
<1>5. RanksDiffer'
  <2>1. \A p \in DOMAIN Fresh : entries'[p].rank <= rank /\ entries'[p].rank \in Nat
    BY <1>1, <1>3 DEF Bounded, RanksDiffer
  <2> QED BY <1>1, <1>2, <1>4, <2>1 DEF Bounded, RanksDiffer
<1>6. DoneIn(entries)' \in SUBSET DoneIn(entries) /\ DoneIn(entries) \in SUBSET DOMAIN entries
  BY <1>1 DEF DoneIn
<1>7. CacheIsBounded'
  <2>1. IsFiniteSet(DoneIn(entries))
    BY <1>4, <1>6, FS_Subset
  <2>2. /\ Cardinality(DoneIn(entries)') <= Cardinality(DoneIn(entries))
        /\ Cardinality(DoneIn(entries)') \in Nat /\ Cardinality(DoneIn(entries)) \in Nat
    BY <1>6, <2>1, FS_Subset, FS_CardinalityType
  <2>3. Cardinality(DoneIn(entries)) <= MaxOperations /\ MaxOperations \in Nat
    BY OperationsAssumption DEF Bounded, CacheIsBounded
  <2> QED BY <2>2, <2>3 DEF CacheIsBounded
<1> QED BY <1>5, <1>7 DEF Bounded

\* Completing an operation evicts what is too much.
LEMMA CompletedBounded ==
  ASSUME TypeOK, Bounded, NEW op \in DOMAIN entries, NEW item \in Attempt, Complete(op, item),
         UNCHANGED rank
  PROVE  Bounded'
<1> DEFINE marked == Marked(op, item)
<1>1. IsMap(entries, Op, Entry) /\ op \in Op
  BY DEF TypeOK, IsMap
<1>2. /\ DOMAIN marked = DOMAIN entries /\ IsMap(marked, Op, Entry)
      /\ \A p \in DOMAIN entries : marked[p].rank = entries[p].rank /\ entries[p].rank \in Nat
  <2>1. now \in Nat /\ item \in Attempt \cup {<<>>}
    BY DEF TypeOK
  <2> QED BY <1>1, <2>1 DEF Marked, IsMap, Entry
<1>3. entries' = Without(marked, Evicted(marked))
  BY DEF Complete
<1>4. IsFiniteSet(DOMAIN marked) /\ \A p, q \in DOMAIN marked : marked[p].rank = marked[q].rank => p = q
  BY <1>2 DEF Bounded, RanksDiffer
<1> HIDE DEF marked
<1>5. /\ DOMAIN entries' = DOMAIN marked \ Evicted(marked)
      /\ \A p \in DOMAIN entries' : entries'[p] = marked[p]
  <2>1. /\ DOMAIN Without(marked, Evicted(marked)) = DOMAIN marked \ Evicted(marked)
        /\ \A p \in DOMAIN marked \ Evicted(marked) : Without(marked, Evicted(marked))[p] = marked[p]
    BY <1>2, WithoutProperties
  <2> QED BY <1>3, <2>1
<1>6. Cardinality(DoneIn(marked) \ Evicted(marked)) <= MaxOperations
  BY <1>2, <1>4, EvictionBounds
<1>7. DoneIn(entries)' = DoneIn(marked) \ Evicted(marked)
  BY <1>5 DEF DoneIn
<1>8. RanksDiffer'
  <2>1. DOMAIN entries' \in SUBSET DOMAIN marked
    BY <1>5
  <2>2. IsFiniteSet(DOMAIN entries')
    BY <1>4, <2>1, FS_Subset
  <2>3. \A p \in DOMAIN entries' : p \in DOMAIN entries /\ entries'[p].rank = entries[p].rank
    BY <1>2, <1>5
  <2> QED BY <2>2, <2>3 DEF Bounded, RanksDiffer
<1> QED BY <1>6, <1>7, <1>8 DEF Bounded, CacheIsBounded

\* The steps of phone, network and laptop, by what they do to the cache.
LEMMA StepBounded ==
  ASSUME TypeOK, Bounded, [Next]_vars
  PROVE  Bounded'
<1>0. rank \in Nat /\ rank <= rank
  BY DEF TypeOK
<1>1. CASE UNCHANGED <<entries, rank>>
  BY <1>0, <1>1, FewerBounded
<1>2. ASSUME NEW op \in Op, NEW n \in 1..MaxAttempts, Server(op, n)
      PROVE  Bounded'
  <2>1. CASE ReceiveNew(op, n)
    BY <2>1, BegunBounded DEF ReceiveNew
  <2>2. CASE ReceiveRepeated(op, n) \/ ReceivePending(op, n)
    BY <1>0, <2>2, FreshEntries, FewerBounded DEF ReceiveRepeated, ReceivePending
  <2>3. CASE Finish(op, n)
    <3>1. <<op, n>> \in Attempt /\ Complete(op, <<op, n>>) /\ UNCHANGED rank
      BY <2>3 DEF Finish, Attempt
    <3>2. CASE op \in DOMAIN entries
      BY <3>1, <3>2, CompletedBounded
    <3>3. CASE op \notin DOMAIN entries
      BY <1>0, <3>1, <3>3, FewerBounded DEF Complete
    <3> QED BY <3>2, <3>3
  <2>4. CASE Abort(op, n)
    BY <1>0, <2>4, FailedEntries, FewerBounded DEF Abort
  <2> QED BY <1>2, <2>1, <2>2, <2>3, <2>4 DEF Server
<1>3. CASE Restart
  <2>1. DOMAIN entries' = {} /\ UNCHANGED rank
    BY <1>3 DEF Restart, EmptyMap
  <2> QED BY <1>0, <2>1, FewerBounded
<1> QED BY <1>1, <1>2, <1>3 DEF Next, Phone, Send, Unanswered, Network, CallLost, TimePasses, vars

\* The cache never holds more finished operations than it may, in whatever order they
\* began, ended and were repeated, and what it calls pending is being worked on.
THEOREM CacheIsAlwaysSound == Spec => []CacheIsSound
<1>1. Init => Bounded
  <2> SUFFICES ASSUME Init PROVE Bounded
    OBVIOUS
  <2>1. DOMAIN entries = {} /\ DoneIn(entries) = {}
    BY DEF Init, EmptyMap, DoneIn
  <2>2. RanksDiffer
    BY <2>1, FS_EmptySet DEF RanksDiffer
  <2>3. Cardinality(DoneIn(entries)) = 0
    BY <2>1, FS_EmptySet
  <2> QED BY <2>2, <2>3, OperationsAssumption DEF Bounded, CacheIsBounded
<1>2. TypeOK /\ Bounded /\ [Next]_vars => Bounded'
  BY StepBounded
<1>3. TypeOK /\ PendingIsWorking /\ Bounded => CacheIsSound
  BY DEF Bounded, CacheIsSound
<1> QED BY <1>1, <1>2, <1>3, OperationsTypeCorrect, PendingIsAlwaysWorking, PTL DEF Spec
=================================================================================
