-------------------------------- MODULE AdminPage --------------------------------
(*********************************************************************************)
(* The laptop's admin page (app.js, live.js, api.js and its views): it fetches   *)
(* the whole state whenever the laptop says that something changed, and after    *)
(* everything the user does.  Fetches overlap, and are answered in any order.    *)
(*                                                                               *)
(* The laptop is what adminApi.js shows of it: its state, the 'changed' signal *)
(* of its event stream, its two files, which it may fail to write, and its end *)
(* and restart, which keeps what is in the files, but no pairing request.      *)
(*********************************************************************************)
EXTENDS AdminViews, FiniteSets, FiniteSetsExt

CONSTANTS Budget,     \* things that phones and the user do, and ends of the laptop
          MaxDiskErrors, \* writes of the laptop that fail
          MaxFetches, \* requests for the state at a time
          MaxPosts,   \* other requests at a time
          MaxDrafts   \* messages that the user types

ItemSet == [id : Nat, device : Phone, kind : {"text", "file"}, from : {"phone", "laptop"}, time : Nat]
RequestSet == [id : Nat, phone : Phone, name : Name, isRepair : BOOLEAN]
State == [rev : Nat, devices : Seq(DeviceSet), items : Seq(ItemSet), pending : Seq(RequestSet)]

ASSUME AdminPageAssumption ==
    /\ {Budget, MaxDiskErrors, MaxFetches, MaxPosts, MaxDrafts} \subseteq Nat
    /\ IsFiniteSet(Phone) /\ None \notin State

VARIABLES laptop,   \* what it would answer: state(); rev counts its changes
          up,       \* whether it runs
          clock,    \* the time of the newest item
          added,    \* items so far: their ids
          savedDevices, savedItems, \* devices.json, items.json
          diskErrors, \* writes that have failed
          state,    \* app.js: state
          shown,    \* app.js: current, currentName
          lastSeen, unread,
          fetches,  \* getState: asked, answered with a state, or failed, oldest first
          posts,    \* send, uploadFile: what was asked for, and what came of it
          live,     \* live.js: the event source
          offline,  \* live.js: offline
          banner,   \* whether the page says that it cannot reach the laptop
          heard,    \* 'changed' events in the open stream
          typed,    \* messages typed so far
          spent,
          announced, \* history variable: the change that the page has been told of last
          overtaken, \* history variable: the last fetch to end was asked before another that ended
          read,      \* history variable: messages that the page loaded with, or showed
          stored,    \* history variable: the messages that the laptop has taken, in order
          lost,      \* history variable: those whose answer was lost, or told of a failing write
          cards      \* history variable: the cards of requests, as they were right at some time

savedVars == <<savedDevices, savedItems, diskErrors>>
laptopVars == <<laptop, up, clock, added, savedVars, announced, stored, cards>>
pageVars == <<state, shown, lastSeen, unread, read>>
liveVars == <<live, offline, heard>>
adminVars == <<laptopVars, pageVars, liveVars, fetches, posts, banner, typed, spent, overtaken, lost>>

\* The page is loaded while the phones are paired.
PairedAtFirst == LET seq == SetToSeq(Phone)
                 IN  [i \in DOMAIN seq |-> [id |-> seq[i], name |-> OldName]]

PageInit ==
    /\ laptop = [rev |-> 0, devices |-> PairedAtFirst, items |-> <<>>, pending |-> <<>>]
    /\ up = TRUE /\ clock = 1 /\ added = 0 /\ announced = 0 /\ stored = <<>> /\ cards = {}
    /\ savedDevices = PairedAtFirst /\ savedItems = <<>> /\ diskErrors = 0
    /\ state = None /\ lastSeen = None /\ unread = 0 /\ read = {}
    /\ shown \in {Opened(name) : name \in ViewName}
    /\ fetches = <<[status |-> "asked", state |-> None, forSend |-> FALSE, late |-> FALSE]>>
    /\ posts = <<>>
    /\ live = "opening" /\ offline = FALSE /\ banner = FALSE /\ heard = 0
    /\ typed = 0 /\ spent = 0 /\ overtaken = FALSE /\ lost = {}

Spend == spent < Budget /\ spent' = spent + 1

---------------------------------------------------------------------------------
(* The laptop.                                                                   *)

\* Every open page is told, after the change.
Announce == /\ announced' = laptop'.rev
            /\ heard' = IF live = "open" THEN heard + 1 ELSE heard

Changed(next) == /\ laptop' = [next EXCEPT !.rev = laptop.rev + 1]
                 /\ cards' = cards \cup {Card(r, next.devices) : r \in ToSet(next.pending)}

NewItem(device, kind, from, time) ==
    [id |-> added + 1, device |-> device, kind |-> kind, from |-> from, time |-> time]

WithItem(item) == [laptop EXCEPT !.items = Append(@, item)]

Paired == ToSet(Ids(laptop.devices))

SaveItems == savedItems' = laptop'.items /\ UNCHANGED <<savedDevices, diskErrors>>
SaveDevices == savedDevices' = laptop'.devices /\ UNCHANGED <<savedItems, diskErrors>>

\* A file cannot be written: memory keeps what was done, and nobody is told.
WriteFails == diskErrors < MaxDiskErrors /\ diskErrors' = diskErrors + 1

NotSaved == WriteFails /\ UNCHANGED <<savedDevices, savedItems, announced, heard>>

Phones == UNCHANGED <<up, stored, pageVars, live, offline, fetches, posts, banner, typed, overtaken, lost>>

PhoneSends(p, kind, time) ==
    /\ Spend /\ up /\ p \in Paired
    /\ Changed(WithItem(NewItem(p, kind, "phone", time)))
    /\ added' = added + 1 /\ clock' = time
    /\ (SaveItems /\ Announce) \/ NotSaved
    /\ Phones

\* A request is shown once its code is known; a phone has one at a time.  It was a paired
\* phone's, or not, when it was made.
RequestWaits(p, name, isRepair) ==
    /\ Spend /\ up
    /\ p \notin {r.phone : r \in ToSet(laptop.pending)}
    /\ p \in Paired => isRepair
    /\ Changed([laptop EXCEPT !.pending = Append(@, [id |-> laptop.rev + 1, phone |-> p, name |-> name,
                                                     isRepair |-> isRepair])])
    /\ Announce /\ Phones /\ UNCHANGED <<added, clock, savedVars>>

\* Nobody is told that a request runs out.
RequestRunsOut ==
    /\ Spend /\ up /\ laptop.pending # <<>>
    /\ Changed([laptop EXCEPT !.pending = Tail(@)])
    /\ Phones /\ UNCHANGED <<added, clock, savedVars, announced, heard>>

Replaced(devices, r) ==
    IF r.phone \in ToSet(Ids(devices))
    THEN [i \in DOMAIN devices |-> IF devices[i].id = r.phone THEN [id |-> r.phone, name |-> r.name]
                                   ELSE devices[i]]
    ELSE Append(devices, [id |-> r.phone, name |-> r.name])

WithoutId(seq, id) == Only(seq, {x \in ToSet(seq) : x.id # id})

\* What the laptop makes of a request of the page, and whether it takes it.
Taken(post) ==
    CASE post.act \in {"text", "upload"} -> post.device \in Paired
      [] post.act \in {"approve", "deny"} -> post.arg \in ToSet(Ids(laptop.pending))
      [] post.act = "revoke" -> post.device \in Paired
      [] OTHER -> TRUE

Approved(id) == LET r == CHOOSE r \in ToSet(laptop.pending) : r.id = id
                IN  [laptop EXCEPT !.devices = Replaced(@, r)]

Outcome(post) ==
    CASE post.act = "text" -> WithItem(NewItem(post.device, "text", "laptop", clock))
      [] post.act = "upload" -> WithItem(NewItem(post.device, "file", "laptop", clock))
      [] post.act = "approve" -> [Approved(post.arg) EXCEPT !.pending = WithoutId(@, post.arg)]
      [] post.act = "deny" -> [laptop EXCEPT !.pending = WithoutId(@, post.arg)]
      [] post.act = "revoke" -> [laptop EXCEPT !.devices = WithoutId(@, post.device)]
      [] post.act = "delete" -> [laptop EXCEPT !.items = WithoutId(@, post.arg)]
      [] post.act = "clear" -> [laptop EXCEPT !.items = <<>>]

\* What an act adds.
Counts(post) ==
    /\ added' = IF post.act \in {"text", "upload"} THEN added + 1 ELSE added
    /\ stored' = IF post.act = "text" THEN Append(stored, post.arg) ELSE stored

Answers(i, status) ==
    /\ up /\ posts[i].status = "asked"
    /\ posts' = [posts EXCEPT ![i].status = status]
    /\ UNCHANGED <<up, clock, pageVars, live, offline, fetches, banner, typed, overtaken>>

HandleRefuses(i) ==
    /\ ~Taken(posts[i])
    /\ Answers(i, "refused")
    /\ UNCHANGED <<laptop, cards, added, stored, savedVars, announced, heard, spent, lost>>

\* To delete what is not there changes nothing, and nobody is told.
Handle(i) ==
    LET post == posts[i]
    IN  /\ Taken(post)
        /\ Answers(i, "taken")
        /\ Counts(post)
        /\ IF post.act \in {"delete", "clear"} /\ Outcome(post) = laptop
           THEN UNCHANGED <<laptop, cards, savedVars, announced, heard>>
           ELSE /\ Changed(Outcome(post))
                /\ CASE post.act \in {"approve", "revoke"} -> SaveDevices
                     [] post.act = "deny" -> UNCHANGED savedVars
                     [] OTHER -> SaveItems
                /\ Announce
        /\ UNCHANGED <<spent, lost>>

\* What was done in memory when its write failed: a request that was approved waits on.
Unsaved(post) == IF post.act = "approve" THEN Approved(post.arg) ELSE Outcome(post)

\* clear removes and saves one item after the other; the write after the nth fails.
ClearFails(n) ==
    /\ Changed([laptop EXCEPT !.items = SubSeq(@, n + 1, Len(@))])
    /\ IF n = 1 THEN NotSaved
       ELSE /\ WriteFails /\ Announce
            /\ savedItems' = SubSeq(laptop.items, n, Len(laptop.items)) /\ UNCHANGED savedDevices

\* The file cannot be written: the page is told that its request failed.
HandleFails(i) ==
    LET post == posts[i]
    IN  /\ Taken(post)
        /\ Answers(i, "refused")
        /\ Counts(post)
        /\ \/ /\ post.act \notin {"deny", "clear"}
              /\ post.act = "delete" => Outcome(post) # laptop
              /\ Changed(Unsaved(post)) /\ NotSaved
           \/ post.act = "clear" /\ \E n \in DOMAIN laptop.items : ClearFails(n)
        /\ lost' = IF post.act = "text" THEN lost \cup {post.arg} ELSE lost
        /\ UNCHANGED spent

\* state().
AnswerState(i) ==
    /\ up /\ fetches[i].status = "asked"
    /\ fetches' = [fetches EXCEPT ![i].status = "answered", ![i].state = laptop]
    /\ UNCHANGED <<laptopVars, pageVars, liveVars, posts, banner, typed, spent, overtaken, lost>>

\* What the laptop starts with again: what was not saved is gone.
Saved == [rev |-> 0, devices |-> savedDevices, items |-> savedItems, pending |-> <<>>]

\* The process ends: requests under way fail; answers on their way may be lost.
Ends == /\ Spend /\ up
        /\ up' = FALSE
        /\ Changed(Saved)
        /\ live' = IF live = "open" THEN "cut" ELSE live
        /\ \E cut \in BOOLEAN :
              LET Fails(status) == status = "asked" \/ cut
              IN  /\ fetches' = [i \in DOMAIN fetches |->
                                    IF Fails(fetches[i].status)
                                    THEN [fetches[i] EXCEPT !.status = "failed", !.state = None]
                                    ELSE fetches[i]]
                  /\ posts' = [i \in DOMAIN posts |->
                                  IF Fails(posts[i].status)
                                  THEN [posts[i] EXCEPT !.status = "failed"]
                                  ELSE posts[i]]
                  /\ lost' = lost \cup {p.arg : p \in {q \in ToSet(posts) :
                                            cut /\ q.act = "text" /\ q.status = "taken"}}
        /\ UNCHANGED <<clock, added, savedVars, announced, stored, pageVars, offline, heard, banner, typed, overtaken>>

Restarts == /\ ~up /\ up' = TRUE
            /\ UNCHANGED <<laptop, clock, added, savedVars, announced, stored, cards, pageVars, liveVars,
                           fetches, posts, banner, typed, spent, overtaken, lost>>

---------------------------------------------------------------------------------
(* app.js.                                                                       *)

\* refresh, up to its await; what cannot be reached fails at once.
Asked(forSend) == Append(fetches, [status |-> IF up THEN "asked" ELSE "failed",
                                   state |-> None, forSend |-> forSend, late |-> FALSE])

MayAsk == Len(fetches) < MaxFetches

\* refreshUnread: what is unread, once the state is next.
RefreshUnread(next, name) ==
    LET viewing == name = "messages"
        texts == {it \in ToSet(next.items) : IsIncomingText(it)}
    IN  /\ lastSeen' = nextLastSeen(next.items, lastSeen, viewing)
        /\ unread' = unreadCount(next.items, lastSeen')
        /\ read' = IF viewing \/ lastSeen = None THEN read \cup texts ELSE read

\* The compose box waits for the refresh after its message.
Sent(view, forSend) == IF forSend THEN [view EXCEPT !.sending = FALSE] ELSE view

\* applyState, and the end of refresh: the newest answer is shown, whenever it was asked for.
RefreshEnds(i) ==
    LET fetch == fetches[i]
    IN  /\ fetch.status # "asked"
        /\ fetches' = RemoveAt([j \in DOMAIN fetches |->
                                   [fetches[j] EXCEPT !.late = @ \/ j < i]], i)
        /\ overtaken' = fetch.late
        /\ banner' = (fetch.status = "failed")
        /\ IF fetch.status = "answered"
           THEN /\ state' = fetch.state
                /\ RefreshUnread(state', shown.view)
                /\ shown' = Sent(Updated(shown, state'), fetch.forSend)
           ELSE /\ shown' = Sent(shown, fetch.forSend)
                /\ UNCHANGED <<state, lastSeen, unread, read>>
        /\ UNCHANGED <<laptopVars, liveVars, posts, typed, spent, lost>>

\* route: another view; a message under way loses its compose box.
Route(name) ==
    /\ name # shown.view
    /\ posts' = [i \in DOMAIN posts |-> [posts[i] EXCEPT !.mine = FALSE]]
    /\ fetches' = [i \in DOMAIN fetches |-> [fetches[i] EXCEPT !.forSend = FALSE]]
    /\ IF state = None
       THEN shown' = Opened(name) /\ UNCHANGED <<lastSeen, unread, read>>
       ELSE shown' = Updated(Opened(name), state) /\ RefreshUnread(state, name)
    /\ UNCHANGED <<laptopVars, state, liveVars, banner, typed, spent, overtaken, lost>>

---------------------------------------------------------------------------------
(* live.js.                                                                      *)

Rest == UNCHANGED <<up, laptop, clock, added, savedVars, stored, cards, pageVars, posts, typed, spent, overtaken, lost>>

\* Mutant: the state is not fetched when the stream opens.
OnOpen_Waits == UNCHANGED fetches

\* What changed while there was no stream was not told.
OnOpen == MayAsk /\ fetches' = Asked(FALSE)

SourceOpens == /\ live = "opening" /\ up
               /\ live' = "open" /\ offline' = FALSE /\ banner' = FALSE
               /\ OnOpen
               /\ announced' = laptop.rev
               /\ heard' = 0 /\ Rest

OnChanged == /\ live \in {"open", "cut"} /\ heard > 0
             /\ MayAsk
             /\ heard' = heard - 1
             /\ fetches' = Asked(FALSE)
             /\ UNCHANGED <<live, offline, banner, announced>> /\ Rest

\* Mutant: the page does not open a stream that the browser has given up.
Retries_Browser == {"browser"}

Retries == {"browser", "timer"}

\* onerror: the browser will try again, or has given up and the page will.
SourceFails == /\ live = "cut" \/ (live = "opening" /\ ~up)
               /\ live' \in {"browser", "timer"}
               /\ offline' = TRUE
               /\ banner' = (banner \/ ~offline)
               /\ heard' = 0
               /\ UNCHANGED <<fetches, announced>> /\ Rest

SourceRetries == /\ live \in Retries
                 /\ live' = "opening"
                 /\ UNCHANGED <<offline, banner, heard, fetches, announced>> /\ Rest

---------------------------------------------------------------------------------
(* The user, in the views.                                                       *)

Post(act, arg, device) ==
    /\ Len(posts) < MaxPosts
    /\ posts' = Append(posts, [act |-> act, arg |-> arg, device |-> device, mine |-> TRUE,
                               status |-> IF up THEN "asked" ELSE "failed"])

UserOnly == UNCHANGED <<laptopVars, state, lastSeen, unread, read, liveVars, fetches, banner, overtaken, lost>>

Type == /\ Spend /\ shown.view = "messages" /\ shown.selected # None
        /\ typed < MaxDrafts
        /\ typed' = typed + 1
        /\ shown' = [shown EXCEPT !.draft = typed + 1]
        /\ UserOnly /\ UNCHANGED posts

\* Mutant: a message under way does not keep it from being sent again.
MaySend_Again == shown.draft # 0 /\ shown.selected # None

MaySend == shown.draft # 0 /\ ~shown.sending /\ shown.selected # None

SendText == /\ shown.view = "messages"
            /\ MaySend
            /\ Post("text", shown.draft, shown.selected)
            /\ shown' = [shown EXCEPT !.sending = TRUE]
            /\ UserOnly /\ UNCHANGED <<typed, spent>>

PickPhone(p) ==
    /\ Spend /\ shown.view \in {"messages", "dashboard"}
    /\ shown.options # None /\ Len(shown.options) > 1
    /\ p \in ToSet(Ids(shown.options)) \ {shown.selected}
    /\ shown' = IF shown.view = "messages" THEN Updated([shown EXCEPT !.selected = p], state)
                                           ELSE [shown EXCEPT !.selected = p]
    /\ UserOnly /\ UNCHANGED <<typed, posts>>

\* A card's buttons wait for the answer.
Decide(act, card) ==
    /\ Spend /\ shown.view = "approvals" /\ card \in ToSet(shown.rows)
    /\ ~\E p \in ToSet(posts) : p.mine /\ p.arg = card.request.id
    /\ Post(act, card.request.id, None)
    /\ UserOnly /\ UNCHANGED <<typed, shown>>

Revoke(d) == /\ Spend /\ shown.view = "devices" /\ d \in ToSet(shown.rows)
             /\ Post("revoke", 0, d.id)
             /\ UserOnly /\ UNCHANGED <<typed, shown>>

FileActs == /\ Spend /\ shown.view = "dashboard" /\ state # None
            /\ \/ \E row \in ToSet(shown.rows) : Post("delete", row.id, None)
               \/ state.items # <<>> /\ Post("clear", 0, None)
               \/ state.devices # <<>> /\ Post("upload", 0, targetId(shown, state))
            /\ UserOnly /\ UNCHANGED <<typed, shown>>

\* The answer: the box is emptied, and the state is fetched.
PostTaken(i) ==
    LET post == posts[i]
        composed == post.act = "text" /\ post.mine
    IN  /\ post.status = "taken"
        /\ MayAsk
        /\ fetches' = Asked(composed)
        /\ posts' = RemoveAt(posts, i)
        /\ shown' = IF composed THEN [shown EXCEPT !.draft = 0] ELSE shown
        /\ UNCHANGED <<laptopVars, state, lastSeen, unread, read, liveVars, banner, typed, spent,
                       overtaken, lost>>

Freed(post) == Sent(shown, post.act = "text" /\ post.mine)

\* The error is shown, and the box keeps its text.
PostFails(i) ==
    /\ posts[i].status \in {"refused", "failed"}
    /\ posts' = RemoveAt(posts, i)
    /\ shown' = Freed(posts[i])
    /\ UNCHANGED <<laptopVars, state, lastSeen, unread, read, liveVars, fetches, banner, typed, spent,
                   overtaken, lost>>

---------------------------------------------------------------------------------
Goes == \/ SourceRetries \/ SourceFails \/ OnChanged \/ SourceOpens
        \/ \E i \in DOMAIN fetches : AnswerState(i)
        \/ \E i \in DOMAIN posts : PostFails(i) \/ HandleRefuses(i) \/ PostTaken(i) \/ Handle(i)
        \/ \E i \in DOMAIN fetches : RefreshEnds(i)

Others == \/ \E p \in Phone : \/ \E time \in {clock, clock + 1} :
                                     PhoneSends(p, "text", time) \/ PhoneSends(p, "file", clock)
                              \/ \E name \in Name, isRepair \in BOOLEAN : RequestWaits(p, name, isRepair)
          \/ \E i \in DOMAIN posts : HandleFails(i)
          \/ RequestRunsOut \/ Ends \/ Restarts

User == \/ \E name \in ViewName : Route(name)
        \/ Type \/ SendText \/ FileActs
        \/ \E p \in Phone : PickPhone(p)
        \/ \E r \in ToSet(shown.rows) : Decide("approve", r) \/ Decide("deny", r) \/ Revoke(r)

PageNext == Goes \/ Others \/ User

PageSpec == PageInit /\ [][PageNext]_adminVars

---------------------------------------------------------------------------------
\* Types; and the compose box is busy exactly while its message, or the refresh after it,
\* is under way.
PageTypeOK ==
    /\ laptop \in State /\ state \in State \cup {None}
    /\ \A f \in ToSet(fetches) : /\ f.status \in {"asked", "answered", "failed"}
                                 /\ f.state \in IF f.status = "answered" THEN State ELSE {None}
    /\ \A p \in ToSet(posts) : p.status \in {"asked", "taken", "refused", "failed"}
    /\ live \in {"opening", "open", "cut", "browser", "timer"}
    /\ heard \in Nat /\ unread \in Nat /\ lastSeen \in Nat \cup {None}
    /\ shown.view \in ViewName /\ shown.draft \in 0..typed
    /\ shown.sending <=> \/ \E p \in ToSet(posts) : p.act = "text" /\ p.mine
                         \/ \E f \in ToSet(fetches) : f.forSend

\* What a view shows is what it would show if it were drawn anew: no key misses a change of
\* what it draws (messages.js:150-161, dashboard.js:162, devices.js:55).  Only whose pairing
\* a request would renew is drawn with its card and not again: that was right at some time
\* while the request waited (approvals.js:18, 66).
Drawn(view) ==
    [view EXCEPT !.rows = IF view.view = "approvals" THEN {card.request : card \in ToSet(@)} ELSE @]

ViewShowsState ==
    /\ PageTypeOK
    /\ state # None =>
          Drawn(shown) = Drawn(Updated([Opened(shown.view) EXCEPT !.selected = shown.selected,
                                                                  !.draft = shown.draft,
                                                                  !.sending = shown.sending], state))
    /\ shown.view = "approvals" => ToSet(shown.rows) \subseteq cards

\* A card names the phone as the phones' list does.  (Broken: a phone is revoked, or has its
\* name changed, while its request waits, approvals.js:66.)
CardsAreCurrent ==
    state # None /\ shown.view = "approvals" =>
        \A card \in ToSet(shown.rows) : card = Card(card.request, state.devices)

\* When nothing is under way the page shows every change that the laptop told of, and no
\* banner, unless the last fetch to end was overtaken by a later one (app.js:56).
Quiet == up /\ live = "open" /\ heard = 0 /\ fetches = <<>>

PageCatchesUp ==
    Quiet /\ ~overtaken => state # None /\ state.rev >= announced /\ ~banner

\* Where a step of Goes can be taken: what its guards ask for.
CanGoOn ==
    \/ \E f \in ToSet(fetches) : up \/ f.status # "asked"
    \/ \E p \in ToSet(posts) : \/ up /\ p.status = "asked"
                               \/ p.status = "taken" /\ MayAsk
                               \/ p.status \in {"refused", "failed"}
    \/ live = "opening" /\ (up => MayAsk)
    \/ live \in {"open", "cut"} /\ heard > 0 /\ MayAsk
    \/ live = "cut" \/ live \in Retries

GuardsSuffice == CanGoOn => ENABLED Goes

\* While the laptop runs, the page is on its way there, whatever broke before: it waits for
\* nothing that nobody will do (live.js:24).
NeverStuck == up => Quiet \/ ENABLED Goes

\* The badge counts no message that was there at the first load or that Messages has shown,
\* and all others, except those as old as one of these (model.js:153).
UnreadIsHonest ==
    state # None =>
        LET new == {it \in ToSet(state.items) : IsIncomingText(it) /\ it \notin read}
        IN  unread \in Cardinality({it \in new : \A r \in read : it.time > r.time})
                       .. Cardinality(new)

\* A message that the user sends once is stored once; twice only where the answer was lost,
\* or told of a failing write that memory outlives (store.js:49-51), and the user sends it
\* again (messages.js:73, 84).
SentOnce ==
    \A i, j \in DOMAIN stored : stored[i] = stored[j] => i = j \/ stored[i] \in lost

\* The conversation stays with the phone that the user chose, until that is revoked.
ConversationIsKept ==
    [][shown.view = "messages" /\ shown'.view = "messages" /\ shown.selected # None =>
          \/ shown'.selected = shown.selected /\ \A p \in Phone : ~PickPhone(p)
          \/ PickPhone(shown'.selected)
          \/ shown.selected \notin ToSet(Ids(state'.devices))]_adminVars

\* What docs/admin-ui.md:33 says: "if the event stream or a refetch fails, a banner reads".
\* (Broken: a refresh takes the banner away while the stream is down, and live.js reports
\* only the first failure.)
BannerShowsFailure == [][SourceFails => banner']_adminVars

\* What docs/protocol.md:147 says: "event `changed` whenever `state` may have changed".
\* (Broken by a request that runs out, and by what could not be saved.)
ChangesAreTold == [][laptop' # laptop /\ live' = "open" => announced' = laptop'.rev]_adminVars

\* Whatever is asked last is shown last.  (Broken: answers are shown as they come.)
NeverOvertaken == ~overtaken

\* What is typed while a message is under way stays in the box.  (Broken, messages.js:80.)
TypedIsKept ==
    [][shown'.draft = 0 /\ shown.draft # 0 => shown.view # shown'.view \/ shown.draft \in ToSet(stored)]_adminVars

\* What docs/admin-ui.md:45 says: the badge counts the "messages that arrived while another
\* view was open".  (Broken by two messages of the same millisecond.)
UnreadIsExact ==
    state # None => unread = Cardinality({it \in ToSet(state.items) : IsIncomingText(it) /\ it \notin read})
=================================================================================
