------------------------------- MODULE AdminViews --------------------------------
(*********************************************************************************)
(* What the laptop's admin page makes of the state it fetched: the helpers of    *)
(* model.js and the four views (views/*.js), each of which redraws only when the *)
(* key of what it has drawn changes.                                             *)
(*                                                                               *)
(* A state is what GET /admin/state tells, as far as it differs here:            *)
(* [devices, items, pending], sequences of records.  The history is in the order *)
(* of time.  Layout and scrolling are left out, and the day separators between   *)
(* bubbles: their labels tell the date when they were drawn, which no key tells. *)
(*********************************************************************************)
EXTENDS Integers, Sequences, SequencesExt, Maps

CONSTANTS Phone,
          OldName,    \* what the phones are called at first
          Name,       \* what they call themselves when they pair again
          None

DeviceSet == [id : Phone, name : Name \cup {OldName}]

\* What createMessages and createDashboard compare.
MessagesKey == [phone : Phone \cup {None}, name : Name \cup {OldName, None}, ids : Seq(Nat)]
FilesKey == Seq(Nat) \X Seq(DeviceSet)

\* None is null: no string, number, array or object.
ASSUME AdminViewsAssumption ==
    /\ None \notin Phone \cup Name \cup {OldName}
    /\ None \notin Nat /\ None \notin Seq(DeviceSet)
    /\ None \notin MessagesKey /\ None \notin FilesKey

ViewName == {"dashboard", "messages", "approvals", "devices"}

Ids(seq) == [i \in DOMAIN seq |-> seq[i].id]

---------------------------------------------------------------------------------
(* model.js.                                                                      *)

IsIncomingText(item) == item.kind = "text" /\ item.from = "phone"

unreadCount(items, lastSeen) ==
    Len(Only(items, {it \in ToSet(items) : IsIncomingText(it) /\ it.time > lastSeen}))

\* Mutant: the marker is the newest message there is.
nextLastSeen_Newest(items, lastSeen, viewing) ==
    IF lastSeen # None /\ ~viewing THEN lastSeen
    ELSE Max({0} \cup {it.time : it \in {i \in ToSet(items) : IsIncomingText(i)}})

\* Everything is read at the first load and while Messages is open.
nextLastSeen(items, lastSeen, viewing) ==
    IF lastSeen # None /\ ~viewing THEN lastSeen
    ELSE Max({0, IF lastSeen = None THEN 0 ELSE lastSeen}
             \cup {it.time : it \in {i \in ToSet(items) : IsIncomingText(i)}})

\* Mutant: the chosen phone is not looked for.
chatTarget_First(devices, selected) ==
    IF devices = <<>> THEN [id |-> None, name |-> None] ELSE Head(devices)

\* The chosen phone if it is still paired, else the first.
chatTarget(devices, selected) ==
    LET candidates == Only(devices, {d \in ToSet(devices) : d.id = selected}) \o devices
    IN  IF candidates = <<>> THEN [id |-> None, name |-> None] ELSE Head(candidates)

\* The bubbles of a conversation: a phone's name is written where it starts to talk.
groupMessages(items, target) ==
    LET texts == Only(items, {it \in ToSet(items) : it.kind = "text" /\ it.device = target.id})
        StartsRun(i) == i = 1 \/ texts[i - 1].from # texts[i].from
    IN  [i \in DOMAIN texts |->
            [id |-> texts[i].id,
             name |-> IF texts[i].from = "phone" /\ StartsRun(i) THEN target.name ELSE None]]

\* Whom a file came from or goes to: named only where there are several.
itemChip(item, devices) ==
    [id |-> item.id, from |-> item.from,
     phone |-> IF Len(devices) > 1
               THEN chatTarget(Only(devices, {d \in ToSet(devices) : d.id = item.device}), None).name
               ELSE None]

---------------------------------------------------------------------------------
(* The views.  A view is made anew whenever it is opened; selected is the chosen *)
(* phone, options what there is to choose, key what it has drawn, rows what it   *)
(* shows; draft and sending are the compose box's.                               *)

Opened(name) == [view |-> name, selected |-> None, options |-> None, key |-> None,
                 rows |-> <<>>, draft |-> 0, sending |-> FALSE]

\* createMessages.update: bubbles are appended where only new ones came.
UpdateMessages(shown, state) ==
    LET target == chatTarget(state.devices, shown.selected)
        flat == groupMessages(state.items, target)
        key == [phone |-> target.id, name |-> target.name, ids |-> Ids(flat)]
        appendOnly == /\ shown.key # None
                      /\ shown.key.phone = key.phone /\ shown.key.name = key.name
                      /\ shown.key.ids # <<>> /\ IsPrefix(shown.key.ids, key.ids)
        drawn == IF shown.key = key THEN shown.rows
                 ELSE IF appendOnly
                      THEN shown.rows \o SubSeq(flat, Len(shown.key.ids) + 1, Len(flat))
                      ELSE flat
    IN  [shown EXCEPT !.selected = target.id, !.options = state.devices, !.key = key, !.rows = drawn]

\* Mutant: the names of the phones are not part of the key.
itemKey_Ids(files, devices) == Ids(files)

itemKey(files, devices) == <<Ids(files), devices>>

\* createDashboard.update: the files, newest first, and the phones to send to.
UpdateDashboard(shown, state) ==
    LET files == Only(state.items, {it \in ToSet(state.items) : it.kind = "file"})
        key == itemKey(files, state.devices)
        drawn == [i \in DOMAIN files |-> itemChip(Reverse(files)[i], state.devices)]
    IN  [shown EXCEPT
            !.options = state.devices,
            !.selected = IF shown.options = state.devices THEN @
                         ELSE chatTarget(state.devices, @).id,
            !.key = key,
            !.rows = IF shown.key = key THEN @ ELSE drawn]

\* buildCard: a request, and whose pairing it would renew: what that phone is called.
Card(request, devices) ==
    [request |-> request,
     repairOf |-> IF ~request.isRepair THEN None
                  ELSE IF request.phone \in ToSet(Ids(devices))
                       THEN chatTarget(devices, request.phone).name
                       ELSE request.name]

\* createApprovals.update: a card for every request that waits, built once.
UpdateApprovals(shown, state) ==
    LET old == {card \in ToSet(shown.rows) : card.request.id \in ToSet(Ids(state.pending))}
        new == Only(state.pending, {r \in ToSet(state.pending) : r.id \notin {c.request.id : c \in old}})
    IN  [shown EXCEPT !.rows = Only(shown.rows, old)
                                  \o [i \in DOMAIN new |-> Card(new[i], state.devices)]]

\* createDevices.update.
UpdateDevices(shown, state) ==
    [shown EXCEPT !.key = state.devices,
                  !.rows = IF shown.key = state.devices THEN @ ELSE state.devices]

Updated(shown, state) ==
    CASE shown.view = "messages"  -> UpdateMessages(shown, state)
      [] shown.view = "dashboard" -> UpdateDashboard(shown, state)
      [] shown.view = "approvals" -> UpdateApprovals(shown, state)
      [] shown.view = "devices"   -> UpdateDevices(shown, state)

\* targetId: the phone a dropped file goes to.
targetId(shown, state) ==
    IF Len(state.devices) > 1 THEN shown.selected ELSE chatTarget(state.devices, None).id
=================================================================================
