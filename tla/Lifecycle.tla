-------------------------------- MODULE Lifecycle --------------------------------
(*********************************************************************************)
(* Start and stop of the laptop's server: createApp's start and stop (index.js), *)
(* the status and the tracker of running requests (lifecycle.js).                *)
(*                                                                               *)
(* A call is a request that is not an event stream; it is "answered" between the *)
(* 'finish' and the 'close' of its response.  What stop does after whenIdle, up  *)
(* to its next await, is in the step that wakes it.                              *)
(*********************************************************************************)
EXTENDS Integers, FiniteSets, Maps

CONSTANT Call      \* requests that may be under way at once

VARIABLES tolerant,   \* how start was called: the program's own way, or as tests do
          step,       \* what start does next
          listeners,  \* what is bound
          failures,   \* what could not be
          status,     \* Lifecycle: state
          stopStep,   \* how far stop has come
          calls,      \* Map: call -> "running" or "answered"
          active,     \* createTracker: active
          streams     \* open event streams: of phones, of admin pages

lifecycleVars == <<tolerant, step, listeners, failures, status, stopStep, calls, active, streams>>

Listener == {"device", "admin", "discovery"}

Status == {"starting", "running", "degraded", "stopped"}

LifecycleInit == /\ tolerant \in BOOLEAN
                 /\ step = "check"
                 /\ listeners = {} /\ failures = {}
                 /\ status = "starting" /\ stopStep = "none"
                 /\ calls = EmptyMap /\ active = 0 /\ streams = {}

\* _set: stopped is final.
SetStatus(state) == status' = IF status = "stopped" THEN status ELSE state

Running == {c \in DOMAIN calls : calls[c] = "running"}

---------------------------------------------------------------------------------
(* stop.                                                                         *)

\* Streams and sessions are closed, every connection is cut.
CloseAll == /\ stopStep' = "closing"
            /\ streams' = {} /\ calls' = EmptyMap /\ active' = 0

\* stop, the first time: no connection is accepted any more.
Stop == /\ stopStep = "none"
        /\ listeners' = listeners \ {"device", "admin"}
        /\ IF active = 0 THEN CloseAll
                         ELSE stopStep' = "waiting" /\ UNCHANGED <<calls, active, streams>>

\* The timer of whenIdle.
GraceEnds == /\ stopStep = "waiting"
             /\ CloseAll
             /\ UNCHANGED <<tolerant, step, listeners, failures, status>>

\* The servers and discovery are closed.
StopCompletes == /\ stopStep = "closing"
                 /\ stopStep' = "done"
                 /\ listeners' = {}
                 /\ SetStatus("stopped")
                 /\ UNCHANGED <<tolerant, step, failures, calls, active, streams>>

---------------------------------------------------------------------------------
(* start.                                                                        *)

\* findRunningInstance: another FlashPush answers on the admin port, or nobody does.
Check == /\ step = "check"
         /\ step' \in {"yield", "device"}
         /\ UNCHANGED <<tolerant, listeners, failures, status, stopStep, calls, active, streams>>

\* bind: a failure is noted, or (strict) ends the start and stops what was started.
Bind(key, next) ==
    /\ step = key
    /\ UNCHANGED <<tolerant, status>>
    /\ \/ /\ listeners' = listeners \cup {key}
          /\ step' = next
          /\ UNCHANGED <<failures, stopStep, calls, active, streams>>
       \/ /\ tolerant
          /\ failures' = failures \cup {key}
          /\ step' = next
          /\ UNCHANGED <<listeners, stopStep, calls, active, streams>>
       \/ /\ ~tolerant
          /\ failures' = failures \cup {key}
          /\ step' = "failed"
          /\ Stop

\* Discovery only tells phones of a device port that is bound.
BindAll == \/ Bind("device", "admin")
           \/ Bind("admin", IF "device" \in listeners THEN "discovery" ELSE "addresses")
           \/ Bind("discovery", "addresses")

\* The laptop's addresses were refreshed: start says what came of it.
Started == /\ step = "addresses"
           /\ step' = "done"
           /\ SetStatus(IF failures = {} THEN "running" ELSE "degraded")
           /\ UNCHANGED <<tolerant, listeners, failures, stopStep, calls, active, streams>>

---------------------------------------------------------------------------------
(* Requests.                                                                     *)

\* A connection that is accepted; or one kept alive by another request under way.
Reachable == \/ listeners \cap {"device", "admin"} # {}
             \/ stopStep = "waiting" /\ DOMAIN calls # {}

CallBegins(c) == /\ Reachable
                 /\ c \notin DOMAIN calls
                 /\ calls' = With(calls, c, "running")
                 /\ active' = active + 1
                 /\ UNCHANGED <<tolerant, step, listeners, failures, status, stopStep, streams>>

\* settle: the last request that ends wakes stop.
Settle(others, left) ==
    /\ IF stopStep = "waiting" /\ left = 0
       THEN CloseAll
       ELSE calls' = others /\ active' = left /\ UNCHANGED <<stopStep, streams>>
    /\ UNCHANGED <<tolerant, step, listeners, failures, status>>

\* Mutant: 'finish' and 'close' count one request twice.
Done_Twice(c) == active - 1

\* done: the first of 'finish' and 'close' counts.
Done(c) == IF calls[c] = "running" THEN active - 1 ELSE active

CallFinishes(c) == /\ c \in Running
                   /\ Settle([calls EXCEPT ![c] = "answered"], Done(c))

\* The connection is closed, after the answer or in the middle of the request.
CallCloses(c) == /\ c \in DOMAIN calls
                 /\ Settle(Without(calls, {c}), Done(c))

StreamOpens(s) == /\ (IF s = "page" THEN "admin" ELSE "device") \in listeners
                  /\ streams' = streams \cup {s}
                  /\ UNCHANGED <<tolerant, step, listeners, failures, status, stopStep, calls, active>>

StreamCloses(s) == /\ s \in streams
                   /\ streams' = streams \ {s}
                   /\ UNCHANGED <<tolerant, step, listeners, failures, status, stopStep, calls, active>>

LifecycleTypeOK ==
    /\ tolerant \in BOOLEAN
    /\ step \in Listener \cup {"check", "yield", "addresses", "done", "failed"}
    /\ listeners \subseteq Listener /\ failures \subseteq Listener
    /\ status \in Status
    /\ stopStep \in {"none", "waiting", "closing", "done"}
    /\ IsMap(calls, Call, {"running", "answered"})
    /\ active = Cardinality(Running)
    /\ streams \subseteq {"phone", "page"}
=================================================================================
