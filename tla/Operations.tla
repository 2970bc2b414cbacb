------------------------------- MODULE Operations -------------------------------
(*********************************************************************************)
(* Sending an item from a phone to the laptop, over a network that loses calls   *)
(* and answers: the phone repeats a send under the same operation id             *)
(* (transfer.dart), the laptop remembers the ids (OperationCache, withOperation).*)
(*                                                                               *)
(* One phone: the laptop keeps a Map of operations for each.  Attempt n of       *)
(* operation op is <<op, n>>; so is the item that the work of this attempt       *)
(* stores.  A text is work that ends in the step that follows its beginning.     *)
(*********************************************************************************)
EXTENDS Integers, FiniteSets, Maps

CONSTANTS Op,             \* operation ids, one for each item the phone sends
          MaxAttempts,    \* _maxAttempts
          MaxOperations,  \* ops max
          OperationTtl,   \* ops ttlMs
          MaxUpload,      \* bound on the time an upload, or a phone's wait, takes
          MaxTime,        \* bound of the clock
          MayRestart,     \* whether the laptop's process may end while phones send
          DiskMayFail     \* whether store.add may throw after it changed the history

ASSUME OperationsAssumption ==
    /\ MaxAttempts \in Nat \ {0} /\ MaxOperations \in Nat \ {0}
    /\ OperationTtl \in Nat \ {0} /\ MaxUpload \in Nat /\ MaxTime \in Nat
    /\ MayRestart \in BOOLEAN /\ DiskMayFail \in BOOLEAN

VARIABLES now,
          sends,    \* the phone: state, attempt and its start, of each operation
          calls,    \* attempts on their way to the laptop
          working,  \* Map: attempt whose handler awaits work() -> when it began
          entries,  \* the phone's Map of operations, each with its rank in the Map
          rank,     \* ranks 1..rank were given to entries: a Map keeps its order
          stored,   \* the history
          forgotten \* history variable: operations that the cache dropped, and those that it
                    \* takes for failed though their item is stored

vars == <<now, sends, calls, working, entries, rank, stored, forgotten>>

Attempt == Op \X (1..MaxAttempts)

Entry == [state : {"pending", "done"}, result : Attempt \cup {<<>>}, at : Nat, rank : Nat]

SendState == [state : {"idle", "sending", "delivered", "failed"},
              attempt : 0..MaxAttempts, since : Nat, item : Attempt \cup {<<>>}]

Init == /\ now = 0
        /\ sends = [op \in Op |-> [state |-> "idle", attempt |-> 0, since |-> 0, item |-> <<>>]]
        /\ calls = {}
        /\ working = EmptyMap
        /\ entries = EmptyMap
        /\ rank = 0
        /\ stored = {} /\ forgotten = {}

---------------------------------------------------------------------------------
(* OperationCache.                                                               *)

\* _entries: an entry that is too old goes, pending or done.
Fresh == Restrict(entries, {op \in DOMAIN entries : now - entries[op].at < OperationTtl})

Forget(ops) == forgotten' = forgotten \cup ops

DoneIn(map) == {op \in DOMAIN map : map[op].state = "done"}

\* The first done entries of a Map that holds too many, in its order, which is the
\* order of begin.
Evicted(map) ==
    LET excess == Cardinality(DOMAIN map) - MaxOperations
        Older(op) == {p \in DoneIn(map) : map[p].rank <= map[op].rank}
    IN  {op \in DoneIn(map) : Cardinality(Older(op)) <= excess}

Begin(op) == /\ entries' = With(Fresh, op, [state |-> "pending", result |-> <<>>,
                                            at |-> now, rank |-> rank + 1])
             /\ rank' = rank + 1

Marked(op, item) == [entries EXCEPT ![op].state = "done", ![op].result = item, ![op].at = now]

\* Mutant: the operation is forgotten when it ends, however it ends.
Complete_Forgets(op, item) == entries' = Without(entries, {op})

\* complete: nothing to do when the entry is gone.
Complete(op, item) ==
    IF op \in DOMAIN entries
    THEN entries' = Without(Marked(op, item), Evicted(Marked(op, item)))
    ELSE UNCHANGED entries

\* Mutant: a failed operation stays pending.
Fail_Forgotten(op) == UNCHANGED entries

Fail(op) == entries' = Without(entries, {op})

---------------------------------------------------------------------------------
(* The phone (_sendWithRetry, with the outcomes of withSession).                 *)

Awaits(op, n) == sends[op].state = "sending" /\ sends[op].attempt = n

Try(op, n) == /\ sends' = [sends EXCEPT ![op].state = "sending", ![op].attempt = n, ![op].since = now]
              /\ calls' = calls \cup {<<op, n>>}

Send(op) == /\ sends[op].state = "idle"
            /\ Try(op, 1)
            /\ UNCHANGED <<now, working, entries, rank, stored, forgotten>>

GiveUp(op) == sends' = [sends EXCEPT ![op].state = "failed"]

\* The phone hears nothing: it tries again, or gives up because these were all its
\* attempts or the link is not connected any more.
Unanswered(op) ==
    /\ sends[op].state = "sending"
    /\ \/ sends[op].attempt < MaxAttempts /\ Try(op, sends[op].attempt + 1)
       \/ GiveUp(op) /\ UNCHANGED calls
    /\ UNCHANGED <<now, working, entries, rank, stored, forgotten>>

\* A final answer for attempt n: it counts while the phone awaits this attempt, and
\* may be lost on its way.
Answer(op, n, state, item) ==
    \/ UNCHANGED sends
    \/ /\ Awaits(op, n)
       /\ sends' = [sends EXCEPT ![op].state = state, ![op].item = item]

CallLost(op, n) == /\ <<op, n>> \in calls
                   /\ calls' = calls \ {<<op, n>>}
                   /\ UNCHANGED <<now, sends, working, entries, rank, stored, forgotten>>

---------------------------------------------------------------------------------
(* The laptop (withOperation).                                                   *)

Receive(op, n) == /\ <<op, n>> \in calls
                  /\ calls' = calls \ {<<op, n>>}
                  /\ Forget(DOMAIN entries \ DOMAIN Fresh)
                  /\ UNCHANGED <<now, stored>>

ReceiveNew(op, n) ==
    /\ Receive(op, n)
    /\ op \notin DOMAIN Fresh
    /\ Begin(op)
    /\ working' = With(working, <<op, n>>, now)
    /\ UNCHANGED sends

\* Mutant: a repeat is taken for done while the first is in progress.
ReceiveRepeated_Early(op, n) ==
    /\ Receive(op, n)
    /\ op \in DOMAIN Fresh
    /\ entries' = Fresh
    /\ Answer(op, n, "delivered", entries[op].result)
    /\ UNCHANGED <<working, rank>>

\* The first attempt is done: its item is the answer.
ReceiveRepeated(op, n) ==
    /\ Receive(op, n)
    /\ op \in DoneIn(Fresh)
    /\ entries' = Fresh
    /\ Answer(op, n, "delivered", entries[op].result)
    /\ UNCHANGED <<working, rank>>

\* It is still in progress: RATE_LIMITED, and the phone tries again (or gives up).
ReceivePending(op, n) ==
    /\ <<op, n>> \in calls
    /\ op \in DOMAIN Fresh \ DoneIn(Fresh)
    /\ entries' = Fresh
    /\ Forget(DOMAIN entries \ DOMAIN Fresh)
    /\ \/ Awaits(op, n) /\ n < MaxAttempts
          /\ sends' = [sends EXCEPT ![op].attempt = n + 1, ![op].since = now]
          /\ calls' = (calls \ {<<op, n>>}) \cup {<<op, n + 1>>}
       \/ Awaits(op, n) /\ n = MaxAttempts /\ GiveUp(op) /\ calls' = calls \ {<<op, n>>}
       \/ UNCHANGED sends /\ calls' = calls \ {<<op, n>>}
    /\ UNCHANGED <<now, working, rank, stored>>

\* work() is done: the item is in the history, and the cache knows it.
Finish(op, n) ==
    /\ <<op, n>> \in DOMAIN working
    /\ working' = Without(working, {<<op, n>>})
    /\ stored' = stored \cup {<<op, n>>}
    /\ Complete(op, <<op, n>>)
    /\ Forget(IF op \in DOMAIN entries THEN Evicted(Marked(op, <<op, n>>)) ELSE {})
    /\ Answer(op, n, "delivered", <<op, n>>)
    /\ UNCHANGED <<now, calls, rank>>

\* work() throws: an interrupted upload stores nothing, but store.add throws after it
\* changed the history when items.json cannot be written.
Abort(op, n) ==
    /\ <<op, n>> \in DOMAIN working
    /\ working' = Without(working, {<<op, n>>})
    /\ stored' \in {stored} \cup (IF DiskMayFail THEN {stored \cup {<<op, n>>}} ELSE {})
    /\ Fail(op)
    /\ Forget(IF stored' = stored THEN {} ELSE {op})
    /\ Answer(op, n, "failed", <<>>)
    /\ UNCHANGED <<now, calls, rank>>

\* Another process: it has the history, but no operations.
Restart == /\ MayRestart
           /\ working' = EmptyMap /\ entries' = EmptyMap
           /\ Forget(DOMAIN entries)
           /\ UNCHANGED <<now, sends, calls, rank, stored>>

\* Calls arrive or are lost at once; work and waits take at most MaxUpload.
TimePasses ==
    /\ now < MaxTime
    /\ calls = {}
    /\ \A a \in DOMAIN working : now - working[a] < MaxUpload
    /\ \A op \in Op : sends[op].state = "sending" => now - sends[op].since < MaxUpload
    /\ now' = now + 1
    /\ UNCHANGED <<sends, calls, working, entries, rank, stored, forgotten>>

Phone(op) == Send(op) \/ Unanswered(op)

Network(op, n) == CallLost(op, n)

Server(op, n) == \/ ReceiveNew(op, n) \/ ReceiveRepeated(op, n) \/ ReceivePending(op, n)
                 \/ Finish(op, n) \/ Abort(op, n)

Next == \/ \E op \in Op : Phone(op) \/ \E n \in 1..MaxAttempts : Network(op, n) \/ Server(op, n)
        \/ Restart \/ TimePasses

Spec == Init /\ [][Next]_vars

---------------------------------------------------------------------------------
\* Type correctness of the phone's sends, the laptop's cache and its history.
TypeOK == /\ now \in Nat /\ rank \in Nat
          /\ sends \in [Op -> SendState]
          /\ calls \subseteq Attempt /\ stored \subseteq Attempt
          /\ IsMap(working, Attempt, Nat)
          /\ IsMap(entries, Op, Entry)
          /\ forgotten \subseteq Op

\* However calls and answers are lost, delayed and repeated, an item is in the history
\* once at most (transfer.dart:10, protocol.md:114), unless the cache has dropped its
\* operation: by age, for want of room, in a restart, or after a failed write.
StoredOnce == \A a, b \in stored : a[1] = b[1] => a = b \/ a[1] \in forgotten

\* A send the phone shows as delivered is in the history, under the item the phone
\* was given.
DeliveredIsStored ==
    \A op \in Op : sends[op].state = "delivered" => sends[op].item \in stored /\ sends[op].item[1] = op

\* A repeated send is put off only while an upload of the operation goes on: no
\* operation stays pending for good.
PendingIsWorking ==
    \A op \in DOMAIN entries \ DoneIn(entries) : \E n \in 1..MaxAttempts : <<op, n>> \in DOMAIN working

\* The cache holds no more finished operations than it may.
CacheIsBounded == Cardinality(DoneIn(entries)) <= MaxOperations

\* Types, and the cache: what it calls pending is being worked on, and what is finished
\* does not fill it (idempotency.js:14-48).
CacheIsSound == TypeOK /\ PendingIsWorking /\ CacheIsBounded

\* What protocol.md:115 and idempotency.js:6 say: a repeat while the first is still
\* uploading is put off.  (Broken when an upload takes longer than the entry lives.)
OneUploadPerOperation == \A a, b \in DOMAIN working : a[1] = b[1] => a = b

\* What idempotency.js:45 says: the newest completed operations are the ones kept; so
\* the one that completes is.  (Broken: the order is that of begin.)
NewestIsKept ==
    [][\A a \in DOMAIN working \ DOMAIN working' :
          (a \in stored' /\ a[1] \in DOMAIN entries) => a[1] \in DOMAIN entries']_vars
=================================================================================
