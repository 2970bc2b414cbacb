----------------------------------- MODULE App -----------------------------------
(*********************************************************************************)
(* The laptop's program: its server with the tray icon (cli.js, shell.js,        *)
(* tray.js, itemNotifier.js), from the start of the process to its end.          *)
(*                                                                               *)
(* The tray is a process of its own (external): it shows the menu and balloons   *)
(* it was sent, and may end at any time.  What phones and admin pages do happens *)
(* in calls that are running.                                                    *)
(*********************************************************************************)
EXTENDS Lifecycle

CONSTANTS Device,
          MaxPending    \* limits.maxPendingPairings

ASSUME AppAssumption == MaxPending \in Nat

VARIABLES tray,       \* its process: not started yet, never, running, or gone
          attached,   \* whether the shell listens to the app
          menu,       \* the menu it sent last
          pending,    \* pairing requests that wait for the user
          batches,    \* createItemNotifier: Map phone -> kinds that arrived, timer
          balloons,   \* what the balloons that the user can still click are about
          lastTarget, \* what the last one was about
          opened,     \* the page that the last click on a balloon opened
          ending,     \* how far shutdown has come
          quiet,      \* history variable: requests that ran out since the last menu
          unseen      \* history variable: phones with an item that arrived while no
                      \* admin page was open and that no balloon has told of

trayVars == <<tray, attached, menu, pending, batches, balloons, lastTarget, opened, ending,
              quiet, unseen>>

vars == <<lifecycleVars, trayVars>>

Target == {"approvals", "messages", "items"}

siteOpen == "page" \in streams

\* buildMenu.
Menu(state, count) == [state |-> state, pending |-> count]

Init == /\ LifecycleInit
        /\ tray = "unset" /\ attached = FALSE
        /\ menu = Menu("starting", 0)
        /\ pending = 0 /\ batches = EmptyMap
        /\ balloons = {} /\ lastTarget = "approvals" /\ opened = "none"
        /\ ending = "no" /\ quiet = 0 /\ unseen = {}

---------------------------------------------------------------------------------
(* shell.js and tray.js.                                                         *)

\* refresh, on every 'changed'.
Refresh(count) == menu' = IF attached THEN Menu(status, count) ELSE menu

\* Every event that refresh hears is such a moment.
Heard == quiet' = 0

\* notify, as long as the tray runs; its target is kept in any case.
Notify(target) == /\ lastTarget' = target
                  /\ balloons' = IF tray = "running" THEN balloons \cup {target} ELSE balloons

NoBalloon == UNCHANGED <<lastTarget, balloons>>

\* runApp, when the server has started: the tray starts and its first menu is sent; or
\* it cannot start, or was not asked for.
StartTray == /\ step = "done" /\ tray = "unset"
             /\ \/ tray' = "running" /\ attached' = TRUE /\ menu' = Menu(status, pending)
                \/ tray' = "none" /\ UNCHANGED <<attached, menu>>
             /\ Heard
             /\ UNCHANGED <<lifecycleVars, pending, batches, balloons, lastTarget, opened, ending, unseen>>

\* A click on a balloon, before a later one hides it.
ClickBalloon(about) == /\ tray = "running" /\ attached
                       /\ about \in balloons
                       /\ balloons' = balloons \ {about}
                       /\ opened' = lastTarget
                       /\ UNCHANGED <<lifecycleVars, tray, attached, menu, pending, batches,
                                      lastTarget, ending, quiet, unseen>>

BalloonHides(about) == /\ about \in balloons
                       /\ balloons' = balloons \ {about}
                       /\ UNCHANGED <<lifecycleVars, tray, attached, menu, pending, batches,
                                      lastTarget, opened, ending, quiet, unseen>>

---------------------------------------------------------------------------------
(* What happens in calls, and what the shell makes of it.                        *)

InCall == Running # {} /\ UNCHANGED lifecycleVars

PairingPending == /\ InCall
                  /\ pending < MaxPending
                  /\ pending' = pending + 1
                  /\ Refresh(pending')
                  /\ IF attached THEN Notify("approvals") ELSE NoBalloon
                  /\ Heard
                  /\ UNCHANGED <<tray, attached, batches, opened, ending, unseen>>

OnResolved == Refresh(pending')

PairingResolved == /\ InCall
                   /\ pending > 0
                   /\ pending' = pending - 1
                   /\ OnResolved
                   /\ Heard
                   /\ UNCHANGED <<tray, attached, batches, balloons, lastTarget, opened, ending, unseen>>

\* A request runs out, or its phone withdraws it by asking again: no event.
PairingExpires == /\ pending > 0 /\ stopStep # "done"
                  /\ pending' = pending - 1
                  /\ quiet' = IF attached THEN quiet + 1 ELSE 0
                  /\ UNCHANGED <<lifecycleVars, tray, attached, menu, batches, balloons, lastTarget,
                                 opened, ending, unseen>>

\* Any other reason for 'changed': a session, an item sent or deleted, the menu's own
\* switch for the autostart.
OtherChange == /\ InCall
               /\ Refresh(pending)
               /\ Heard
               /\ UNCHANGED <<tray, attached, pending, batches, balloons, lastTarget, opened, ending, unseen>>

\* add: an item of a phone joins the phone's batch, whose timer runs from its first one.
ItemArrives(p, kind) ==
    /\ InCall
    /\ Refresh(pending)
    /\ IF attached /\ ~siteOpen
       THEN /\ batches' = IF p \in DOMAIN batches
                          THEN [batches EXCEPT ![p].kinds = @ \cup {kind}]
                          ELSE With(batches, p, [kinds |-> {kind}, timer |-> TRUE])
            /\ unseen' = unseen \cup {p}
       ELSE UNCHANGED <<batches, unseen>>
    /\ Heard
    /\ UNCHANGED <<tray, attached, pending, balloons, lastTarget, opened, ending>>

\* Mutant: the batch is not forgotten: later items join it, and have no timer.
Flushed_Kept(p) == [batches EXCEPT ![p].timer = FALSE]

Flushed(p) == Without(batches, {p})

\* flush: the timer of the batch; one balloon, unless a page has been opened.
Flush(p) == /\ p \in DOMAIN batches /\ batches[p].timer
            /\ batches' = Flushed(p)
            /\ IF siteOpen THEN NoBalloon
               ELSE Notify(IF batches[p].kinds = {"message"} THEN "messages" ELSE "items")
            /\ unseen' = unseen \ {p}
            /\ UNCHANGED <<lifecycleVars, tray, attached, menu, pending, opened, ending, quiet>>

---------------------------------------------------------------------------------
(* The end.                                                                       *)

\* shutdown, by Stop FlashPush or a signal; asked again, it does nothing more.
Shutdown == /\ tray # "unset" /\ ending = "no"
            /\ ending' = "app"
            /\ attached' = FALSE /\ batches' = EmptyMap
            /\ quiet' = 0 /\ unseen' = {}
            /\ Stop
            /\ UNCHANGED <<tolerant, step, failures, status,
                           tray, menu, pending, balloons, lastTarget, opened>>

\* Mutant: the process ends as soon as the server has stopped.
AfterStop_Exit == "exited"

\* The tray is asked to exit, and awaited.
AfterStop == IF tray = "running" THEN "tray" ELSE "exited"

ServerStopped == /\ StopCompletes
                 /\ ending' = IF ending = "app" THEN AfterStop ELSE ending
                 /\ UNCHANGED <<tray, attached, menu, pending, batches, balloons, lastTarget, opened, quiet, unseen>>

TrayGone == /\ tray = "running"
            /\ tray' = "gone" /\ balloons' = {}
            /\ ending' = IF ending = "tray" THEN "exited" ELSE ending
            /\ UNCHANGED <<lifecycleVars, attached, menu, pending, batches, lastTarget, opened, quiet, unseen>>

\* The tray ends, because it was told to or for a reason of its own.
TrayExits == ending # "exited" /\ TrayGone

\* Mutant: a tray that does not answer is awaited for good.
MustKill_Never == FALSE

MustKill == ending = "tray"

\* It did not in time.
KillTray == MustKill /\ TrayGone

---------------------------------------------------------------------------------
Server == \/ Check \/ BindAll \/ Started \/ GraceEnds
          \/ \E c \in Call : CallBegins(c) \/ CallFinishes(c) \/ CallCloses(c)
          \/ \E s \in {"phone", "page"} : StreamOpens(s) \/ StreamCloses(s)

Next == \/ Server /\ UNCHANGED trayVars
        \/ StartTray
        \/ \E about \in Target : ClickBalloon(about) \/ BalloonHides(about)
        \/ PairingPending \/ PairingResolved \/ PairingExpires \/ OtherChange
        \/ \E p \in Device : Flush(p) \/ \E kind \in {"message", "file"} : ItemArrives(p, kind)
        \/ Shutdown \/ ServerStopped \/ TrayExits \/ KillTray

Spec == Init /\ [][Next]_vars

FlushIsFair(p) == WF_vars(Flush(p))

FlushesAreFair == \A p \in Device : FlushIsFair(p)

\* Timers fire and sockets close.  The tray need not do what it is told.
FairSpec == /\ Spec
            /\ WF_vars(GraceEnds /\ UNCHANGED trayVars)
            /\ WF_vars(ServerStopped) /\ WF_vars(KillTray)
            /\ FlushesAreFair

---------------------------------------------------------------------------------
\* Types; the tracker counts the requests that run, each once.
TypeOK == /\ LifecycleTypeOK
          /\ tray \in {"unset", "none", "running", "gone"} /\ attached \in BOOLEAN
          /\ menu \in [state : Status, pending : 0..MaxPending] /\ pending \in 0..MaxPending
          /\ IsMap(batches, Device, [kinds : SUBSET {"message", "file"}, timer : BOOLEAN])
          /\ balloons \subseteq Target /\ lastTarget \in Target /\ opened \in Target \cup {"none"}
          /\ ending \in {"no", "app", "tray", "exited"} /\ quiet \in Nat /\ unseen \subseteq Device

\* A graceful stop cuts no request that runs before its grace is over, whatever requests
\* begin, end and break meanwhile (index.js:98, "give running transfers up to graceMs").
NoCutWithinGrace ==
    [][\A c \in Running :
          c \in DOMAIN calls' \/ CallFinishes(c) \/ CallCloses(c) \/ GraceEnds]_vars

\* The menu shows the status and how many requests wait, and falls behind the app only
\* by the requests that ran out since it was last sent.
MenuFollowsEvents == attached => menu = Menu(status, pending + quiet)

\* When the program ends, or a strict start has failed and is cleaned up, everything is
\* closed: ports, streams, requests, and the tray icon is gone (cli.test.js:138,
\* lifecycle.e2e.test.js:98).
EndIsClean ==
    ending = "exited" \/ (step = "failed" /\ stopStep = "done") =>
        /\ status = "stopped"
        /\ listeners = {} /\ streams = {} /\ calls = EmptyMap
        /\ batches = EmptyMap /\ tray # "running"

\* Types, and what else can be seen of the program: the menu while it runs, and what is
\* left when it has ended.
AppIsConsistent == TypeOK /\ MenuFollowsEvents /\ EndIsClean

\* Once it was asked to stop, the program ends, whatever requests, streams and tray do.
ShutdownEnds == ending # "no" ~> ending = "exited"

\* What a phone sent while no admin page is open is told by a balloon, or a page is
\* opened in time, as long as there is a tray and the program is not stopped.
ArrivalsAreAnnounced ==
    \A p \in Device : p \in unseen ~> p \notin unseen

\* What makes their fairness useful: a timer that is due can do its whole step, and so can
\* a server that is closing.
TimersCanFire == /\ stopStep = "waiting" => ENABLED <<GraceEnds /\ UNCHANGED trayVars>>_vars
                 /\ stopStep = "closing" => ENABLED <<ServerStopped>>_vars
                 /\ ending = "tray" /\ tray = "running" => ENABLED <<KillTray>>_vars
                 /\ \A p \in Device : p \in DOMAIN batches /\ batches[p].timer => ENABLED <<Flush(p)>>_vars

\* What docs/architecture.md says of shell.js: the menu is rebuilt when the number of
\* pending approvals changes.  (Broken: a request that runs out emits no event.)
MenuIsCurrent == [][pending' # pending /\ attached' => menu'.pending = pending']_vars

\* What tray.test.js:81 says: "a click on a balloon leads to what that balloon was
\* about".  (Broken when another was sent meanwhile.)
ClickOpensItsPage == [][\A about \in Target : ClickBalloon(about) => opened' = about]_vars
=================================================================================
