-------------------------------- MODULE PhoneList --------------------------------
(*********************************************************************************)
(* The list of items that a phone shows, kept by fetches of the laptop's history *)
(* and by the events of a stream, with no replay (LaptopConnection: _attempt,    *)
(* _fetchItems, _listen, _onEvent, refreshItems; the device API: listItems,      *)
(* openEvents, broadcast).                                                       *)
(*                                                                               *)
(* The laptop's side is History with texts.  A fetch is asked for, answered with *)
(* what the history is then, and shown later; the stream is asked for, and opens *)
(* later: these are two requests, on connections of their own.  A fetch outlives *)
(* the link it was asked over, and the attempt it was part of.                   *)
(*********************************************************************************)
EXTENDS History

CONSTANTS Self,     \* the phone whose list this is
          Call      \* calls of _fetchItems that may be under way at a time

ASSUME PhoneListAssumption == Self \in Phone

VARIABLES list,     \* the ids the phone shows, in order
          stream,   \* the event stream whose events it handles
          queue,    \* events the laptop has written into the open stream
          fetch,    \* its calls of _fetchItems
          up,       \* whether it has a session (_api, _token)
          missed    \* history variable: a change that neither the answer shown last nor the
                    \* events handled since it, or still on their way, tell

phoneVars == <<list, stream, queue, fetch, up, missed>>

allVars == <<vars, phoneVars>>

Event == [event : {"item-added", "item-deleted"}, id : Nat]

\* A call: current, if no attempt was begun after it; valid, while the laptop knows the
\* session it was made with; late, if its answer (ids) misses a change, as missed says.
Fetch == [status : {"none", "asked", "answered", "shown"}, part : {"connect", "refresh"},
          current : BOOLEAN, valid : BOOLEAN, ids : Seq(Nat), late : BOOLEAN]

NoFetch == [status |-> "none", part |-> "connect", current |-> FALSE, valid |-> FALSE,
            ids |-> <<>>, late |-> FALSE]

\* listItems: the ids of the phone's own items, oldest first.
Own(history) == LET mine == Only(history, {it \in ToSet(history) : it.device = Self})
                IN  [i \in DOMAIN mine |-> mine[i].id]

\* _onEvent: what an event makes of the list.
Applied(ids, e) ==
    IF e.event = "item-deleted" THEN Only(ids, ToSet(ids) \ {e.id})
    ELSE IF e.id \in ToSet(ids) THEN ids ELSE Append(ids, e.id)

InitList == /\ Init
            /\ list = <<>> /\ stream = "closed" /\ queue = <<>>
            /\ fetch = [c \in Call |-> NoFetch]
            /\ up = FALSE /\ missed = FALSE

---------------------------------------------------------------------------------
(* What is missed: changes that are not told, events that are dropped, and events *)
(* that were handled before an older answer is shown.                            *)

\* What these events tell is news to the list.
NewTo(ids, events) == \E e \in ToSet(events) : Applied(ids, e) # ids

\* An answer on its way that will not be followed by these events, or by some change.
After(f, events, untold) ==
    [f EXCEPT !.late = @ \/ (f.status = "answered" /\ (untold \/ NewTo(f.ids, events)))]

\* The events on their way are never handled.
Dropped == /\ queue' = <<>>
           /\ missed' = (missed \/ NewTo(list, queue))

\* What the events on their way tell of an item in the end is not what the answer tells.
Contradicts(ids, events) ==
    \E i \in DOMAIN events : /\ \A j \in DOMAIN events : events[j].id = events[i].id => j <= i
                            /\ (events[i].event = "item-added") # (events[i].id \in ToSet(ids))

---------------------------------------------------------------------------------
(* The laptop: the history changes, and the streams of the phone concerned hear   *)
(* of it.                                                                         *)

\* Mutant: every stream hears of every item.
Concerns_All(e) == TRUE

Concerns(e) == e.device = Self

\* The events that ItemStore emits in a step, for all phones.
Broadcast(emitted) ==
    LET mine == Only(emitted, {e \in ToSet(emitted) : Concerns(e)})
        events == [i \in DOMAIN mine |-> [event |-> mine[i].event, id |-> mine[i].id]]
        old == ToSet(Own(items))
        new == ToSet(Own(items'))
        changed == (old \ new) \cup (new \ old)
        untold == ~(changed \subseteq IF stream = "open" THEN {e.id : e \in ToSet(events)} ELSE {})
    IN  /\ queue' = IF stream = "open" THEN queue \o events ELSE queue
        /\ missed' = (missed \/ untold)
        /\ fetch' = [c \in Call |-> After(fetch[c], <<>>, untold)]
        /\ UNCHANGED <<list, stream, up>>

Deletions(doomed) ==
    [i \in DOMAIN doomed |-> [event |-> "item-deleted", id |-> doomed[i].id, device |-> doomed[i].device]]

\* Nothing is emitted for an entry that is pruned, or when _save throws.
HistoryChanges ==
    \/ \E d \in Phone, ok \in BOOLEAN :
          /\ sendText(d, "laptop", ok)
          /\ Broadcast(IF ok THEN <<[event |-> "item-added", id |-> lastId', device |-> d]>> ELSE <<>>)
    \/ \E it \in ToSet(items), ok \in BOOLEAN :
          /\ deleteItem("laptop", it, ok)
          /\ Broadcast(IF ok THEN Deletions(<<it>>) ELSE <<>>)
    \/ \E whose \in {{d} : d \in Phone} \cup {Phone}, n \in 0..MaxHistory :
          /\ clearHistory(whose, n)
          /\ Broadcast(SubSeq(Deletions(Doomed(whose)), 1, n))

StreamOpens == /\ stream = "opening"
               /\ stream' = "open"
               /\ UNCHANGED <<vars, list, queue, fetch, up, missed>>

Answer(c) ==
    /\ fetch[c].status = "asked" /\ fetch[c].valid
    /\ fetch' = [fetch EXCEPT ![c] = [@ EXCEPT !.status = "answered", !.ids = Own(items),
                                               !.late = Contradicts(Own(items), queue)]]
    /\ UNCHANGED <<vars, list, stream, queue, up, missed>>

---------------------------------------------------------------------------------
(* The phone.                                                                     *)

\* An attempt has its session: it listens, then it fetches.  An attempt that was abandoned
\* for a newer one does the same: the events of its stream are not handled.
Connect(c, current, valid) ==
    /\ fetch[c].status = "none" /\ (current => valid)
    /\ up' = TRUE
    /\ stream' = (IF current THEN "opening" ELSE "closed") /\ Dropped
    /\ fetch' = [d \in Call |->
                    IF d = c THEN [NoFetch EXCEPT !.status = "asked", !.current = current, !.valid = valid]
                    ELSE [After(fetch[d], queue, FALSE) EXCEPT !.current = @ /\ ~current,
                                                               !.valid = @ /\ ~valid]]
    /\ UNCHANGED <<vars, list>>

\* refreshItems, when the app is back in the foreground or the user pulls the list.
Refresh(c, valid) ==
    /\ up /\ fetch[c].status = "none"
    /\ fetch' = [fetch EXCEPT ![c] = [NoFetch EXCEPT !.status = "asked", !.part = "refresh", !.valid = valid]]
    /\ UNCHANGED <<vars, list, stream, queue, up, missed>>

\* The answer replaces the list, whatever has become of the link; it is saved then.
ShowFetched(c) ==
    /\ fetch[c].status = "answered"
    /\ list' = fetch[c].ids /\ missed' = fetch[c].late
    /\ fetch' = [fetch EXCEPT ![c] = [@ EXCEPT !.status = "shown", !.ids = <<>>, !.late = FALSE]]
    /\ UNCHANGED <<vars, stream, queue, up>>

\* A refresh listens now, and cancels the stream there was; an abandoned attempt drops the
\* session, whosever it is.
FetchEnds(c) ==
    /\ fetch[c].status = "shown"
    /\ IF fetch[c].part = "refresh"
       THEN /\ stream' = (IF fetch[c].valid THEN "opening" ELSE "closed") /\ Dropped
            /\ fetch' = [d \in Call |-> IF d = c THEN NoFetch ELSE After(fetch[d], queue, FALSE)]
            /\ up' = up
       ELSE /\ up' = (up /\ fetch[c].current)
            /\ fetch' = [fetch EXCEPT ![c] = NoFetch]
            /\ UNCHANGED <<stream, queue, missed>>
    /\ UNCHANGED <<vars, list>>

\* The request fails, or the answer cannot be saved.  Nothing comes of a refresh that is
\* not wanted any more; otherwise the stream and the session are dropped, whosever they are.
FetchFails(c) ==
    /\ fetch[c].status # "none"
    /\ \/ /\ up' = FALSE /\ stream' = "closed" /\ Dropped
          /\ fetch' = [d \in Call |-> IF d = c THEN NoFetch ELSE After(fetch[d], queue, FALSE)]
       \/ /\ fetch[c].part = "refresh"
          /\ fetch' = [fetch EXCEPT ![c] = NoFetch]
          /\ UNCHANGED <<stream, queue, up, missed>>
    /\ UNCHANGED <<vars, list>>

OnEvent == /\ queue # <<>>
           /\ list' = Applied(list, Head(queue))
           /\ queue' = Tail(queue)
           /\ fetch' = [c \in Call |-> After(fetch[c], <<Head(queue)>>, FALSE)]
           /\ UNCHANGED <<vars, stream, up, missed>>

\* The app is left, and its stream cancelled; or the link is lost, or given up.  Fetches go on.
Unlinked(session) ==
    /\ up' = session
    /\ stream' = "closed" /\ Dropped
    /\ fetch' = [c \in Call |-> After(fetch[c], queue, FALSE)]
    /\ UNCHANGED <<vars, list>>

Pause == stream # "closed" /\ Unlinked(up)

Lost == (up \/ stream # "closed") /\ Unlinked(FALSE)

\* The laptop's process ends, and comes up with what it had saved.
LaptopRestarts ==
    LET untold == Own(items') # Own(items)
    IN  /\ Restart
        /\ up' = FALSE /\ stream' = "closed" /\ queue' = <<>>
        /\ missed' = (missed \/ untold \/ NewTo(list, queue))
        /\ fetch' = [c \in Call |-> [After(fetch[c], queue, untold) EXCEPT !.valid = FALSE]]
        /\ UNCHANGED list

NextList == \/ HistoryChanges \/ StreamOpens \/ OnEvent \/ Pause \/ Lost \/ LaptopRestarts
            \/ \E c \in Call : \/ Answer(c) \/ ShowFetched(c) \/ FetchEnds(c) \/ FetchFails(c)
                               \/ \E valid \in BOOLEAN : Refresh(c, valid)
                               \/ \E current, valid \in BOOLEAN : Connect(c, current, valid)

SpecList == InitList /\ [][NextList]_allVars

---------------------------------------------------------------------------------
\* Types of the phone's side.
ListTypeOK == /\ list \in Seq(Nat)
              /\ stream \in {"closed", "opening", "open"}
              /\ queue \in Seq(Event) /\ (stream # "open" => queue = <<>>)
              /\ fetch \in [Call -> Fetch]
              /\ up \in BOOLEAN /\ missed \in BOOLEAN

\* The phone shows the laptop's items for it, each once and in its order, as soon as it has
\* handled the events on their way, however fetches, old and new, and events overtook each
\* other; except for changes that the laptop told nobody (pruned, not saved, no stream open),
\* that were told in a stream that was dropped, or that an older answer undid: the next
\* answer makes these good.
ListAgrees == ListTypeOK /\ (queue = <<>> /\ ~missed => list = Own(items))

\* What the comment at connection.dart:192 says of listening before fetching: the other
\* order could miss a change, this one does not.  (Broken: the answer that is shown late
\* undoes an event, and the fetch may be answered before the stream is open.)
NothingIsMissed ==
    [][\A c \in Call : /\ ShowFetched(c) /\ fetch[c].part = "connect" /\ fetch[c].current
                       /\ stream # "closed"
                       => ~missed']_allVars
=================================================================================
