# FlashPush: specifications, model checking and proofs

FlashPush sends texts, links and files between an Android phone and a Windows laptop over the
local network.  The laptop runs a Node server (`server/src`) with an API for phones (HTTPS), an
admin web UI on loopback (`server/public`) and a tray icon; the phone runs a Flutter app
(`app/lib`).  This directory models the parts of it that decide something: who may talk to the
laptop, when, and what happens to what they send.

## Inventory

| Component | State | Operations | Hard because | Correct when |
|---|---|---|---|---|
| Pairing manager (`pairing.js`) | requests by id, limiter | request, reveal, status, approve, deny, sweep | phones, user, timer and restarts act in any order; deadlines move twice; the secret's answer may be lost | limits hold; decisions are in time and about the right phone; the secret can be fetched again; every request is forgotten |
| Paired phones (`devices.js`) | Map, devices.json | add, remove, verify, load | the Map changes before the file, the write may throw, the process may end | limit holds; revoked trust never returns |
| Sessions (`sessions.js`) | two Maps of one set of sessions | create, verify, end, isConnected | one session per phone, two deadlines, expiry noticed lazily | indexes agree; sessions end with the trust they rest on |
| Device API (`deviceApi.js`) | event streams, failed authentications | one handler per route | handlers that await a body or an upload; streams closed from elsewhere | streams belong to the present session; limits hold |
| Operation cache (`idempotency.js`, `withOperation`) with the phone's retries (`transfer.dart`) | operations of each phone | begin, complete, fail | lost answers, late calls, uploads longer than the memory, eviction, restarts | an item is stored once |
| Rate limiter (`ratelimit.js`) | hit times per address | attempt, isBlocked, record | pruned at different times, at the front only | no window holds too many calls; waits are exact |
| History and uploads (`store.js`, `transfers.js`) | items, items.json, files | add, remove, clear, upload, sweep | check-then-act around awaits, crash between file and entry, writes that fail | what was acknowledged is kept, what was deleted stays away; entries have their files; quota |
| Admin API and UI (`adminApi.js`, `public/assets`) | SSE streams, page state, drafts, unread marker | approve, deny, revoke, sends, state, refresh, redraw | refreshes overlap, events are not replayed, views redraw by key, answers are lost | the page catches up, redraws what changed, sends once |
| Wiring and lifecycle (`index.js`, `lifecycle.js`, `cli.js`) | status, open requests, listeners | start, stop, shutdown | stop during work, failures half way, a tray that does not exit | running work gets its grace; every shutdown ends with everything closed |
| Tray (`shell.js`, `tray.js`, `itemNotifier.js`, `tray-protocol.js`) | menu, batches, last target, line buffer | refresh, notify, flush, click, decode | timers, two notices, events that nobody emits | the menu follows the app; every arrival is announced |
| Phone link (`connection.dart`) | state, intent, generation, api, token, stream, items | connect, disconnect, forget, setForeground, refresh | every await may be overtaken by another call | the abandoned attempt changes nothing; intent decides; list complete |
| Phone pairing, addresses, app (`pairing.dart`, `address_race.dart`, `app_controller.dart`) | pairing step, race, laptops | pair, race, connect | polling over a lossy network; pages closed and opened again; late calls; losers finish late | the saved secret is the trusted one; the page tells the truth; every flow ends |

Phones call the laptop over HTTPS; the laptop answers and pushes events over one stream for each
open screen.  Inside the server, components call each other and listen to each other's events
(`index.js:60-66`, `deviceApi.js:73-83`, `shell.js`).  Node runs one handler at a time: a handler, up to
its first `await`, is one action here, and what follows an `await` is another one.

`PROJECT.json` lists every component, hazard, run, mutant and theorem, and the source lines
behind each definition.

## Modules

    Maps                 JavaScript Maps as functions      MapTheorems  (lemmas, proved)
    RateLimit            ratelimit.js, as operators
      Limiter            one address calling it            ServerProofs
    Laptop               phones, addresses, the clock
      Devices            devices.js and its file
        Pairing          pairing.js
          PairingService requests, user, file, restarts    MCPairing, PairingTheorems
            PhonePairing the phone's flow and page (pairing.dart)   PairingProofs
          LaptopAccess   + Sessions + streams              MCAccess, AccessProofs
      Sessions           sessions.js
    AccessPolicy         what LaptopAccess implements
    Operations           idempotency.js, withOperation, transfer.dart   MCOperations,
                                                           OperationsProofs
    PhoneLink            connection.dart                   MCPhoneLink, PhoneLinkProofs
    History              store.js, transfers.js            MCHistory, HistoryProofs
      PhoneList          the list a phone shows (connection.dart, deviceApi.js)   HistoryProofs
    Lifecycle            index.js, lifecycle.js
      App                cli.js, shell.js, tray.js, itemNotifier.js   ServerProofs
    AdminViews           model.js, views/*.js, as operators
      AdminPage          app.js, live.js, api.js, with adminApi.js   ServerProofs

* **Devices.**  `devices` is the Map of the process and `devicesFile` what is on disk.  `Add` and
  `RemoveDevice` change the Map, then `Save` writes the file or throws (`DiskMayFail`), as the code does.
  A secret is named by the request whose approval made it.  An approval that throws leaves a
  secret no phone will ever get (`LostSecret`).
* **Pairing.**  One operator for each method.  A commitment is modelled by the nonce it commits to,
  a proof by the nonce it is made from: both are hashes of it.  `DropExpired` is the expired branch
  of `_get`; `StatusDrops` are the branches of `status` that forget the request.
* **Sessions.**  `byToken` and `byDevice` are the two Maps; a session object is known by its token.
* **PairingService** composes Pairing and Devices and lets phones, the user, the sweep timer and
  restarts act.  It is also what LaptopAccess and PhonePairing promise of pairing: both implement
  it (`PairingIsImplemented`, `PhoneIsServed`).
* **LaptopAccess** composes everything about access as `index.js` and `deviceApi.js` wire it: an
  action is a handler with the listeners it triggers ('device-replaced' ends the session, 'end'
  closes streams).  A stream is named by the token it was opened with.  `known` and `openedWith`
  are history variables: the secrets each phone has been given, and the secret each session was
  opened with.  Phones connect with any secret they were ever given and call with any token.
* **AccessPolicy** is the abstract promise: the user grants and withdraws access; a phone is inside
  under the grant that stands, and is put out when it is replaced or withdrawn.  LaptopAccess
  implements it (`PolicyHolds`) with the sessions seen as phones inside.
* **Operations** follows an item from the phone's send to the laptop's history: attempts of one
  operation id, calls that are late or lost, answers that are lost, the cache in the order of
  JavaScript's Map (the rank of an entry), uploads that end or break, a restart.  It has one phone;
  the laptop keeps one Map for each.  `forgotten` is a history variable: the operations whose entry
  the cache lost, or holds as failed although the item is stored.
* **PhonePairing** puts the phone's `PairingFlow` and its page at the other end of PairingService.
  `flow` is the flow of the open page: its step is the await it has reached, or how it ended;
  `reply` is an answer on its way.  `late` holds calls that were given up, by a time-out or a closed
  page, and may still reach the laptop; nobody hears their answers.  A flow whose page is closed
  during the request goes on to the reveal (`goesOn`): only the polling loop looks at `_cancelled`.
  `saved` is the secret the phone keeps and `grant` a history variable: the last approval of the
  phone, and whether it was revoked or the laptop restarted since.  Which of the laptop's answers
  the page treats alike is `After`.  Answers that cannot be parsed are left out.
* **History** is `ItemStore` with `saveUpload` and the handlers that send, delete and clear.  An
  upload is one action when its checks are passed and another when its last byte is there or it
  breaks: these are its awaits.  `items` is memory, `saved` is items.json, `disk` the finished
  files.  Writing items.json may fail after memory has changed.  A process may end between any two
  of the synchronous file operations of a handler: `DisksAtEnd` lists what the disk may hold then,
  and `Restart` sweeps and loads.  `promised`, `deleted` and `unsaved` are history variables: what
  senders and deleters were told.
* **PhoneList**, which implements History (`ListIsOfHistory`), composes it with the list that
  `LaptopConnection` keeps.  A call of `_fetchItems` is a record of `fetch`: asked, answered, shown,
  ended are four steps, and neither a lost link nor a newer attempt takes it away (`_onLost` and
  `_fetchItems` do not ask for each other): an attempt that was abandoned and refreshes that overlap
  set the list whenever their answers come, and what follows their await then drops the session, or
  the stream, whosever it is.  The stream is asked for and opens in two steps, its events wait in
  `queue`.  `missed` is a history variable: a change that neither the answer shown last nor the
  events after it tell.  That is what nobody told (pruned, not saved, no stream open), what was in a
  stream that was dropped (`Dropped`), and what an answer undoes that is shown after newer events
  or a newer answer: each call carries in `late` what would be missed if its answer were shown now
  (`After`, `Contradicts`).
* **Lifecycle** is `start` and `stop` with the tracker of running requests; a step of `start` or
  `stop` runs to its next await.  **App** adds the shell around it: the tray process (external), its
  menu, the batches of notices, and `shutdown` up to the end of the process.
* **AdminViews** has the pure helpers of `model.js` and the four views, each as what it draws and
  the key by which it decides to redraw.  **AdminPage** is the page that uses them: refreshes that
  overlap (`fetches`), sends and decisions (`posts`), the event source with its two ways of
  reconnecting (`live`), the badge and the chosen conversation, against a laptop that changes, fails
  to write its files, stops, and restarts with what they hold.  `store.add` pushes an entry before
  its write throws, and `devices` does likewise: in `HandleFails` the change stays in memory, nobody
  is told of it but the page that asked, with an error, and the next write that works saves it.  A
  card of a request is built once, with the name of the phone it would renew (`Card`); `cards` is a
  history variable, the cards that were right at some time.
* **PhoneLink** is `LaptopConnection`.  The code is one thread that is interrupted only where it
  awaits, so an action is what runs between two awaits, and what has begun and waits is a record:
  `loops` (the connect loops, by generation, with the await each has reached), `endings` (the
  Disconnects), `pausing`, `refreshing`, `calls`.  `streams` are the event streams not cancelled,
  each with the generation and the token it was opened with; `events` is the one the code can still
  cancel.  `Connect` is `connect()` with the first turn of its loop, `Conclude` the switch over the
  outcome of an attempt, `LinkLost` is `_onLost`.  The laptop is three variables: whether it knows
  the phone, the session it has for it, the tokens given.  A request and its answer are two
  steps where the order matters (opening and ending a session) and one elsewhere.  The answer
  RATE_LIMITED is `AttemptBreaks`: the length of a wait is left out.

Definitions named `X_Something` beside a definition `X` and marked *Mutant* are the same
definition with a plausible bug.  They are used by no specification: each shows that a property
notices the bug.

## Runs

| Run | Checks | Instance, and why it is enough |
|---|---|---|
| `limiter` | `WindowIsExact` | limit 2, window 3, 8 ticks: several windows overlap, calls at every edge |
| `pairing` | `WithinLimits`, `MovesInTime`, `AnswerSurvives`, `PairedOnlyByUser` | three phones, two open requests, room for one phone, three requests, failing writes, restarts |
| `phone_pairing` | `SavedIsTrusted`, `ToldTruly`, `FlowEnds`, `EventuallyForgotten` | two flows of one phone, another phone that competes for the one open request and the one place, two requests, three ticks, two failed polls: a late request can replace a new one, a second pairing an earlier one |
| `access` | `OneSessionPerPhone`, `SessionsAreTrusted`, `StreamsAgree`, `SessionLifetime`, `TrustIsFresh`, `PolicyHolds` | two phones, two requests, two tokens, two streams each: a re-pair, a replacement and a revoke can meet |
| `operations` | `StoredOnce`, `DeliveredIsStored`, `CacheIsSound` | two items, three attempts, a cache of one entry that lives two ticks, uploads of one tick and more in waits, failing writes, restarts: entries expire during uploads, are evicted, and the first attempt may arrive after the third |
| `phone_link` | `AbandonedIsSilent`, `SecretOnlyWhenWanted`, `NothingStartsInBackground`, `TerminalIsUnwanted` | everything may overlap; three things done by user, network or laptop, two calls: three attempts run at once |
| `phone_settles` | `StateIsHonest`, `WantedIsReached` | five things done, a call, pauses except while connecting; what was begun earlier ends before the race of a later attempt does |
| `history` | `AcknowledgedIsKept`, `DeletedIsGone`, `EntriesHaveTheirFiles`, `QuotaExceededOnlyByOverlap`, `OrphansOnlyByCrash` | two phones, two file names (one ending in `.part`), a history of two, room for one file, three items, two uploads at a time: pruning, equal names and an overfull outbox all happen |
| `phone_list` | `ListAgrees` | two phones, three items, a history of two, restarts, two calls of `_fetchItems` at a time and any number of them in turn: an abandoned attempt's answer may come after its successor's, and two refreshes pass each other. Writes do not fail in this run, to keep it small: with `DiskMayFail = TRUE` and one call at a time TLC finds no error either (0.36 million states), and in the theorem they may fail |
| `app` | `AppIsConsistent`, `NoCutWithinGrace`, `ShutdownEnds`, `ArrivalsAreAnnounced` | two requests at a time, one phone, one open pairing request; nothing else is bounded |
| `admin_page` | `ViewShowsState`, `PageCatchesUp`, `UnreadIsHonest`, `SentOnce`, `NeverStuck`, `ConversationIsKept` | two phones, two fetches and two posts at a time, a message typed, a write that fails, and two things that phones, the user or the laptop's end do: each view has something to redraw, and two refreshes can pass each other |
| `phone_stale_attempt` | `ConnectedMeansLive`, which fails | the smallest instance that breaks it |

The type invariant of a module is a conjunct of one property of its run: `WindowIsExact`,
`WithinLimits`, `StreamsAgree`, `CacheIsSound`, `AppIsConsistent`, `SavedIsTrusted`,
`TerminalIsUnwanted`, `QuotaExceededOnlyByOverlap`, `ListAgrees`, `ViewShowsState`.  Properties that
belong together are named parts of one: `WithinLimits` has the limits of requests and of phones,
`StreamsAgree` the session and the number of streams, `CacheIsSound` has `PendingIsWorking` and
`CacheIsBounded`, `StateIsHonest` has `WantedIsPursued` and `ConnectedIsReal`, and `AppIsConsistent`
has `MenuFollowsEvents` and `EndIsClean`.

Bounds of the models, not of the code: `MaxTime` (the clock), `MaxRequests` and `MaxTokens` (ids
drawn), `MaxCalls` (calls admitted; in `PhoneLink` calls at the same time), `MaxUpload` (the time an
upload or a wait takes), `Budget` (in `PhoneLink`, taps, failures and what the laptop does by
itself: each may come at any moment; likewise in `AdminPage`), `MaxFlows` (in `PhonePairing`, pages
opened), `MaxItems` and `MaxUploads` (in `History`), `MaxFetches`, `MaxPosts`, `MaxDrafts` and
`MaxDiskErrors` (in `AdminPage`), `Call` (in `PhoneList`, the calls of `_fetchItems` under way at a
time).  A bound of `PhoneLink` too: one pause and one refresh at a time.  What `MCAdminPage.cfg`
does not reach is a clear whose second write fails (`ClearFails`): with one phone, `Budget = 3`,
`MaxFetches = 1` and `MaxPosts = 1` TLC reaches it and finds no error (1.6 million states).  Windows
and lifetimes are one to three ticks: what matters is which of two deadlines comes first and what
happens exactly at one.  Phones and nonces are symmetric; symmetry is used in safety runs only.
Deadlock is not checked where the system may come to rest: in `Operations` when everything was sent
and the clock is at its bound, in `PhoneLink` and `AdminPage` when the budget is spent, in `History`
and `PhoneList` when all items are used, in `App` when the process has ended.

`PhoneLink` has two constants that narrow it, because its stronger promises hold only then:
`Overlap = FALSE` lets an abandoned attempt, Disconnect, pause or refresh end before a later
attempt's race of addresses does (and Disconnect before the next connect), and `PausesIn` says in
which states the app is left.  `phone_link` has neither restriction.

**Fairness.**  `FairPhoneSpec` (`PhonePairing`) assumes that time passes, that the 10 s sweep timer
fires (`index.js:141`), that a call of the phone is answered or fails (15 s, `http_laptop_api.dart:13`)
and that a flow that waits polls again (`pairing.dart:113`).  No call has to succeed and no user has
to decide.  In `App` it assumes that the timers of the server, of the batches and of the tray's
kill fire, and that sockets that are cut close: the tray need not do what it is told.
In `PhoneLink` it assumes that every await comes to its end (`Progress`): requests and streams
have timeouts (`http_laptop_api.dart:13-14`), waits are timers.  Failures and taps are not fair,
and the budget makes them end.

## What the violation shows

`phone_stale_attempt`: the catch of an attempt drops `_api`, `_token` and `_events` without asking
whether it was abandoned.  A stream lost while the items are fetched starts a second attempt; its
session ends the first one's; the first one's fetch fails late and drops the second one's session.
The link is shown as connected (`ConnectedMeansLive`), sends fail, nothing reconnects.

These statements of documents, comments and tests also fail, and have no run of their own; the
definitions are in the modules:

| Property | Instance | What happens |
|---|---|---|
| `ExpiredStreamsClose` (`docs/protocol.md:66`, `:100`) | `MCAccess.cfg` with `FairSpec`, one phone, one request, no symmetry | expiry is noticed only when the token is used or the admin UI reads the state: an open stream goes on receiving items |
| `OneUploadPerOperation` (`docs/protocol.md:115`) | `MCOperations.cfg` with `MaxUpload = 4` | `_entries` drops pending entries too: a repeat after ten minutes starts a second upload |
| `StoredOnce` without its exception `forgotten` (`transfer.dart:10`) | `MCOperations.cfg` | the cache is in memory, the history on disk; an entry can be evicted or expire before the repeat arrives |
| `NewestIsKept` (`idempotency.js:45`) | `MCOperations.cfg` with `MaxAttempts = 2`, `OperationTtl = 3`, `MaxTime = 2`, no faults | eviction follows the order of `begin`: the operation that has just completed can be the first one to go, and its repeat is stored again |
| `RevokedHasNoSession` (`docs/security.md:22`) | `MCAccess.cfg` with one phone, `DiskMayFail = TRUE` | `remove` (`devices.js:90`) changes the Map before its write throws, and `revoke` (`adminApi.js:80`) never ends the session |
| `CancelLeavesPairing` (`app_controller.dart:181`, `docs/connection-state.md:76`) | `MCPhonePairing.cfg` | a second pairing whose page is closed may have been approved, or be approved later (a closed page still reveals): the laptop has replaced the secret the phone keeps |
| `ReceivedFilesStay` (`test/transfers.test.js:123`) | `MCHistory.cfg` | the sweep at start removes a received file whose own name ends in `.part` (`transfers.js:74`) |
| `RepeatedDeleteIsFinal` (`docs/protocol.md:115`) | `MCHistory.cfg` | a delete that could not be saved is answered with an error; its repeat finds nothing, is answered 200, and a restart brings the entry back |
| `QuotaHolds` (`docs/transfers.md:21`) | `MCHistory.cfg` | the quota is checked before uploads are received: two pass together |
| `NothingIsMissed` (`connection.dart:191`) | `MCPhoneList.cfg` | an answer that is shown late undoes an event, also that of the newest attempt; the fetch may be answered before the stream is open |
| `MenuIsCurrent` (`docs/architecture.md:107`) | `MCApp.cfg` | a request that runs out emits no event |
| `ClickOpensItsPage` (`test/tray.test.js:81`) | `MCApp.cfg` | only the target of the last balloon is kept |
| `BannerShowsFailure` (`docs/admin-ui.md:33`) | `MCAdminPage.cfg`, `Budget = 3` | a refresh takes the banner away while the stream is down; `live.js` reports only the first failure |
| `ChangesAreTold` (`docs/protocol.md:147`) | `MCAdminPage.cfg`, `Budget = 3` | nobody is told of a request that runs out, nor of what could not be saved |
| `CardsAreCurrent` (`approvals.js:66`) | `MCAdminPage.cfg`, `Budget = 3` | a card is built once: when the phone is revoked while its request waits, the card keeps the name the phone had |
| `NeverOvertaken` (`app.js:56`) | `MCAdminPage.cfg`, `Budget = 3` | answers to overlapping refreshes are shown as they come |
| `TypedIsKept` (`messages.js:80`) | `MCAdminPage.cfg`, `MaxDrafts = 2`, `Budget = 3` | what is typed while a message is under way is emptied with it |
| `UnreadIsExact` (`docs/admin-ui.md:45`) | `MCAdminPage.cfg`, `Budget = 3` | a message of the same millisecond as one that was read is not counted |
| `ConnectedMeansLive` (`docs/connection-state.md:23`) | `MCPhoneStale.cfg` with `PausesIn = {"connecting"}`, `Overlap = FALSE` | the app is left and opened again while the items are fetched: its stream was cancelled, the state is `connecting`, nothing listens again |
| `StreamOnlyWhileConnected` (`docs/connection-state.md:72`) | `MCPhoneStale.cfg` | an attempt that Disconnect abandoned opens its stream and drops its session; nobody closes them |
| `DisconnectIsFinal` (`docs/connection-state.md:42`) | `MCPhoneStale.cfg` with `Budget = 3`, `MaxCalls = 1` | a call that finds its session ended by Disconnect connects again (`connection.dart:418`) |
| `PairedIsUnwanted` (`docs/connection-state.md:21`) | `MCPhoneStale.cfg` with `Budget = 3` | a Disconnect answered late sets `paired` over a link that was connected again |

## Proofs

The theorems hold for any number of phones, addresses, requests, tokens, streams and attempts and
for any windows, sizes and lifetimes, under the assumptions that the modules name: positive limits,
a reveal window not longer than a request's lifetime.  Writes may fail and the process may be
restarted at any moment, except where `~DiskMayFail` is a hypothesis.  There it is needed: a
removal that could not be written leaves the session open (`RevokedHasNoSession` above) and the
phone in the file, which the next start reads.

`AccessProofs`, about `LaptopAccess`:

* `TypeCorrect`: `Spec => []TypeOK`, one lemma for each action.
* `SessionsAlwaysAgree`: `Spec => [](OneSessionPerPhone /\ StreamsBelongToSession)`.  The two
  invariants are inductive together and with `TypeOK`: ending a session closes the streams of the
  phone that `byToken` names, which are that session's own only because the indexes agree.
* `StreamsAlwaysAgree`: `Spec => []StreamsAgree`.  The number of streams is inductive with
  `TypeOK`: the oldest streams are closed until one more fits.
* `LifetimeHolds`: `Spec => []SessionLifetime`: `verify` compares with the age before it sets
  `lastUsed`.
* `TrustHolds`: `~DiskMayFail => (Spec => []SessionsAreTrusted)`.  The invariant, `Trust`, adds to
  `SessionsAgree` that the history knows every token in use.
* `TrustIsAlwaysFresh`: `~DiskMayFail => (Spec => TrustIsFresh)`.  A restart needs
  `FileIsCurrent` (the file holds what the Map holds), an approval needs `Handed` (a secret that was
  given out is one of an approved request, and the one decided now is not), which rests on what a
  step may do to a request (`RequestLives`).
* `PolicyIsImplemented`: `~DiskMayFail => (Spec => PolicyHolds)`.  Under `Mapped` (`Trust`,
  `FileIsCurrent`) each action is a step of `AccessPolicy` or leaves pairings and phones inside
  alone: an approval is a grant, a removal a withdrawal, connecting is entering, and everything
  that ends sessions is phones leaving.
* `PairingIsImplemented`: `Spec => ServiceSpec`.  Whatever an action does to sessions, streams and
  limiters, to the variables of `PairingService` it does one of its steps or nothing
  (`PairingCallServes`, `SessionCallServes`, `UserActionServes`).  So `LaptopPairsAsPromised`: the
  laptop has every safety property proved of the service alone.

`PairingTheorems`, about `PairingService`, with the lemmas about the limiter and pairing that
`AccessProofs` and `PairingProofs` use too, among them the life of a request (a step keeps it, forgets
it, or moves it to the next state):

* `PairingTypeCorrect`, `MovesAreInTime`, `AnswersSurvive`, `PairedByUserOnly`: the action
  properties.  `MovesAreInTime` needs the invariant `Deadlines`: a deadline is that of the reveal
  window while a request is requested and that of its lifetime while it is pending.
* `AlwaysWithinLimits`: `ServiceSpec => []WithinLimits`.  A request is counted before it is added, so the
  invariant has the count of open requests with the finiteness of `requests`, and for the phones the
  limit of the file too, because a restart reads it.
* `DeadlinesHold`: no move takes a deadline past `createdAt + PairExpiry + SecretWindow`
  (`LastDeadline`), because an approval, which sets it last, is in time.

`PairingProofs`, about `PhonePairing`:

* `PhoneIsServed`: `PhoneSpec => ServiceSpec`, and `PhonePairsAsPromised` as above: what the network
  loses or delivers late, and what the page then does, makes the laptop do nothing new.
* `PhoneTypeCorrect`: types, with the answers each call of the flow can have (`FlowRuns`).
* `AlwaysToldTruly`: `PhoneSpec => []ToldTruly`.  From its answer on, the flow's request is its own,
  and from the reveal on a revealed one (`OwnRequest`), so a refusal of a poll or a denial means that
  the request is gone; ids are never drawn again, so it stays gone (`OverIsOver`).
* `SavedIsAlwaysTrusted`: `~DiskMayFail => (PhoneSpec => []SavedIsTrusted)`.  An approval can be asked
  for until its window ends or the process does (`GrantLasts`); the laptop trusts the phone as it was
  approved last, and the file says so too (`GrantStands`).
* `AlwaysForgotten`: `[]SweepCanRun /\ ClockRuns => (FairPhoneSpec => EventuallyForgotten)`.  A record
  keeps its last deadline until it goes; from when the clock has passed that, the record has
  expired for good, and the next sweep takes it.  (The hypotheses: *What the provers cannot do*,
  below.)

`OperationsProofs`, about `Operations`:

* `OperationsTypeCorrect`, `PendingIsAlwaysWorking`.
* `DeliveredIsAlwaysStored`: `Spec => []DeliveredIsStored`.  The invariant, `RemembersStored`, says
  the same of answers on their way and of what the cache remembers.
* `AlwaysStoredOnce`: `Spec => []StoredOnce`.  The invariant, `CacheTellsTrue`, relates history and
  cache: an operation that is not in `forgotten` has one upload at work at most and one item at most,
  an upload only under a pending entry and before there is an item, an item only under a finished
  entry.
* `CacheIsAlwaysSound`: `Spec => []CacheIsSound`.  Ranks differ, so evicting the first of the order
  is evicting one, and what is left has the size the code computes (`EvictionBounds`).

`ServerProofs`, about `Limiter`, `App` and `AdminPage`:

* `WindowIsAlwaysExact`: `LimiterSpec => []WindowIsExact`.  The invariant,
  `WindowInv`, says that the pruned list is the end of the history of admitted calls, in order, that
  what it no longer has is out of the window (`IsRecent`), and that the last caller who was refused
  was told the end of the oldest call of a full window, or a call got in since (`Told`).
  `PruneProperties` says what a `while` loop at the front of a list drops.
* `AppIsAlwaysConsistent`: `Spec => []AppIsConsistent`.  That everything is closed at the end is not
  inductive: the invariant, `AppInv`, says how far a stop has come at each of its awaits (`StopInv`:
  it begins when the start is over, and after its cut nothing is open and nothing opens again), that
  the tray and its batches exist only around a running app (`TrayInv`), and which of these stages
  each stage of `shutdown` implies (`EndInv`).  The tracker's counter is the number of running
  requests (`CallsOK`).
* `NothingIsCutWithinGrace`: the action property, from the same invariant.
* `ShutdownAlwaysEnds`: `[]TimersCanFire => (FairSpec => ShutdownEnds)`.  An end passes through three
  stages, each left for the next and for no other (`StagesInOrder`): the server waits for requests
  in their grace, it closes, the tray is given its time.  `EndsInv` adds to `AppInv` that an end
  which waits for the server has one that stops, so no step of the server, not even a start
  that was interrupted or a request that ends late, takes it out of the order.
* `ArrivalsAreAlwaysAnnounced`: `[]TimersCanFire => (FairSpec => ArrivalsAreAnnounced)`.  Whoever is
  owed a balloon has a batch, and every batch a timer (`Owed`): no flush, click or end of the tray
  leaves one without.
* `PageIsAlwaysConsistent`: `PageSpec => []PageInv`, for any number of phones, names, fetches, posts
  and messages.  None of the page's properties is inductive.  `PageInv` has what they rest on: every
  state that the page shows, or has on its way, is a state the laptop was in, and an id names the
  same entry in all of them, and in what the laptop's files would bring back, which may lag behind
  its memory (`Known`, `KnownInv`: only then does a key that lists ids tell what rows show);
  the compose box is busy exactly while one message, or the refresh after it, is under way
  (`BusyInv`); a message that is stored is under way again only if its answer was lost or told of a failing
  write (`SendInv`);
  of what the laptop told of, a signal is still to be heard, or the fetch that was asked last will
  tell it (`CatchInv`); what has been read is no later than the marker, which is the time of
  something read (`ReadInv`); and each view shows what it would draw of the state (`ShowInv`).
* `ViewAlwaysShowsState`, `PageAlwaysCatchesUp`, `UnreadIsAlwaysHonest`, `MessagesAreSentOnce`,
  `ConversationIsAlwaysKept` follow from it.  For the first, `UpdatedShows` says that updating a view
  that shows one state makes it show another, whichever branch its key takes: `IdsTellBubbles` and
  `IdsTellEntries` show that rows with the same ids are the same rows, so the view that appends only
  new bubbles shows what a new one would.  Of the cards of requests it says less, as the code does:
  the requests are those that wait, and the name on a card is one it was right to show at some time
  (`cards`); that it is the present one is `CardsAreCurrent`, which fails.
* `PageIsNeverStuck`: `MaxFetches > 0 /\ []GuardsSuffice => (PageSpec => []NeverStuck)`.  With no fetch
  under way there is room for one, so a page that is not at rest has a stream to open, to hear, to
  lose or to retry (`SomethingGoesOn`).  `CanGoOn` is what the guards of `Goes` ask for
  (`GoesWithinGuards`).

`HistoryProofs`, about `History`, for any number of phones, names, items and overlapping uploads,
with failing writes and a crash at any moment:

* `HistoryTypes`, `AcknowledgedIsAlwaysKept`, `DeletedIsAlwaysGone`, `EntriesAlwaysHaveTheirFiles`,
  `QuotaIsExceededOnlyByOverlap`: one invariant, `HistoryInv`, for all of them, since each rests on the
  others.  It adds to the properties that an id names one entry of memory and file, and no upload
  that still runs (`IdsInv`); that what the file lists and memory does not is `unsaved` (`SavedInv`:
  a start brings such entries back); that no two entries of a list share a file of the outbox,
  where disposing of one would take the other's (`PathsInv`); and the quota of the list in the file,
  which a restart loads (`QuotaInv`).
* `OrphansAreLeftByCrashOnly`: the action property, from the same invariant.

  The handlers are proved in two steps: what `add` and `remove` do to memory, file and disk as sets
  (`AddEffect`, `RemoveEffect`), and that any change of this form keeps the invariant (`AddKeeps`,
  `RemoveKeeps`).  What `filter` returns is `OnlyInOrder`: an entry's rank among those kept is a
  bijection.  (`Only` is `filter` written without recursion; `MCHistory` compares it with the
  recursive `SelectSeq`.)  That `uniquePath` finds a free name is `UniquePathIsFree`: there is one
  name more than there are files, and the free ones have a least.

and about `PhoneList`, for any number of phones and items, any limit of the history, failing writes
and restarts:

* `ListAlwaysAgrees`: `SpecList => []ListAgrees`.  What a phone shows is a fold over the events it has
  handled, which the provers could only follow by induction over data.  The invariant, `ListInv`,
  looks ahead instead: `Becomes` says which list the shown one becomes when the events on their way
  have come, as a set (without what they delete, with what they add and nothing deletes) and its
  order (ids ascend, in the list and in what is to come).  An answer on its way is a list of its own,
  which gets the same events as the shown one would: while it is not `late` it becomes the laptop's
  list too, so it may be shown at any moment, whatever attempt or refresh it belongs to.  An event
  that is handled keeps what a list becomes (`EventKeepsBecoming`) or makes the answers that it is
  news to `late`, one that is written moves it with the history (`OneMoreComes`, `DeletionsCome`), and
  an answer that the events do not contradict stays what it is whichever of them come after it
  (`AnswerStays`).  That needs the history's own invariant, that
  it and items.json list ids in ascending order (`OrderInv`), and that the stream tells of each item
  once, added before deleted, and of no deletion that did not happen (`EventsInv`).  At the end two
  ascending lists of the same ids are the same (`SameOrder`).
* `ListIsOfHistory`: `SpecList => Spec`, and `ListKeepsHistory`: broadcasts, fetches and lost links
  take nothing from what is proved of the history.

`PhoneLinkProofs`, about `PhoneLink`; the first three whatever overlaps (`Overlap` may be either):

* `TerminalIsNeverWanted`: `Spec => []TerminalIsUnwanted`, one lemma for each action.  Streams are
  numbered without a bound: there is always a number that is free (`FreeStreamIsFree`).
* `SecretSentOnlyWhenWanted`, `NothingEverStartsInBackground`: the invariant has `RaceIsWanted`: the
  attempt of the current generation that still probes addresses is wanted, or else the certificate
  has changed (a stream that was left over may find that and end the intent without a new
  generation), and then no address answers the probe.
* `AbandonedAreSilent`: every step of a loop or stream asks for its generation.
* `StateIsAlwaysHonest`: `ASSUME ~Overlap, "connecting" \notin PausesIn PROVE Spec => []StateIsHonest`.
  The two hypotheses are the ones the run has, and they are needed: without either the code violates
  the property (`ConnectedMeansLive` above).  That a wanted link is pursued and a connected one hears
  its events is inductive only with what every attempt will find at its end, so the invariant,
  `HonestInv`, has: a wanted link is up, waits to try again, or is pursued by the attempt of the
  current generation (`PursuedInv`); one attempt at most has gone on from its probes (`AloneInv`); what
  the current attempt has established at each of its awaits, up to the session that it opened and the
  stream that it listens to (`AttemptInv`); that nothing can take either from a connected link
  unnoticed (`ConnectedInv`); nothing that ended the link is under way while it is wanted, and no pause
  in the foreground.  The steps of an attempt share one lemma, `AttemptIsHonest`: each changes where
  the attempt is, and establishes what that place asks for.

`MapTheorems` states what `With`, `Without`, `Restrict` and `Only` return (and where the entries that
`Only` keeps were: `OnlyInOrder`), and what appending to a
list, removing from it, cutting it and concatenating lists does to its entries; that the newest of
finitely many times is one of them (`MaxProperties`) is a well-founded choice among the sets of later
ones.

The assumptions on constants are those that give the constants their types, with the ones above.
`AdminPage` adds that there are finitely many phones and that `None`, which stands for JavaScript's
null, is none of the values beside it.

**What the provers cannot do.**  They take ENABLED for a predicate that they know nothing of, so a
theorem about what must happen says where it needs a step to be possible, and has that as a
hypothesis: `TimersCanFire` (`App`), `SweepCanRun` (`PhonePairing`), `GuardsSuffice` (`AdminPage`).  Each
says that a step whose guard holds can be done as a whole; the theorem shows the rest, that the
guard keeps holding and that the step leads where it should.  `ClockRuns`, that the clock gets to
`MaxTime`, follows from the clock's fairness by an induction over it that the library's
theorems cannot be used for.  TLC finds all four true when they are added to `MCApp.cfg`,
`MCPhonePairing.cfg` and `MCAdminPage.cfg`, the first three as invariants, the last as a property.

Model-checked only: `FlowEnds`, which needs an induction over the polls that failed and the clock,
and `WantedIsReached`, which needs one over the budget.

## Plan

1. Forget and dispose of a link, the active laptop of `AppController`, image downloads.
2. `AddressRace`, the line decoder of the tray, address classification and backoff as operators
   against reference definitions.

## Not modelled

* Cryptography and TLS: secrets, tokens and ids never repeat and cannot be guessed.
* Discovery and addresses: discovery answers each probe by itself and keeps only a rate limiter;
  that its port may be taken is part of `Lifecycle`.  The race of addresses is one step of
  `PhoneLink`, won or lost.
* The commands of `cli.js`, the configuration, autostart and the lock between two instances.
* The tray's line protocol and PowerShell script, texts, formatting, themes, focus and
  announcements of the page.
* The phone's preferences, cache files, screens other than the pairing page, Android's activity,
  and the development scripts: they keep no state that other parts depend on, or are platform
  calls.
* A clock that steps back (`Date.now`).  So in `PhoneList` the order of the history stands for the sort
  by time (`connection.dart:241`), which keeps it where times differ and do not fall.
* In `PhoneList`: the list that is loaded from the cache before the first connect
  (`app_controller.dart:87`), a restart of the app, and Forget, which empties the list.  A stream that
  is cancelled tells nothing more from then on.
* In `PhoneLink`, the await between receiving the items and saving them (`connection.dart:240-243`): it
  is part of the fetch.
* In `History`, a file that cannot be removed (`_dispose`, `store.js:42`).
* In `Lifecycle`, an event stream that is opened over a kept connection while `stop` waits.
* In `AdminPage`, the labels of days between bubbles (`messages.js:114-118`), which say "today" until the
  next redraw; the pruning of the history, which only `History` and `PhoneList` have; signals that
  tell of nothing that is modelled (a phone connects), and that a step may signal more than once.
