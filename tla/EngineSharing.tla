---------------------------- MODULE EngineSharing ----------------------------
(***************************************************************************)
(* One engine per workspace, shared by the apps that open it: the manager  *)
(* (desktop/) and the windows of the editor (ide/extension/), each with    *)
(* one connection.  An app discovers the engine through its descriptor in  *)
(* the connection directory, or spawns one; the engine holds the lease of  *)
(* the workspace (RemoteControlServer.make_http_server) while it lives.    *)
(*                                                                         *)
(* Abstractions.  There is one workspace.  The origin, token and process   *)
(* in a descriptor are the number of its engine.  Permissions, symbolic    *)
(* links and malformed descriptors are left out, and so is an engine       *)
(* without a token, which publishes none.  A signal to the process group   *)
(* of an engine ends it, at the latest when the bounded wait of stop() is  *)
(* over; nobody else asks an engine to stop, but any may be killed.        *)
(***************************************************************************)
EXTENDS Integers

CONSTANTS
    Managers, Editors, \* the connections of the two kinds of app
    NOAPP,
    MaxEngines,        \* bound: engine processes started
    MaxDeaths,         \* bound: engines that crash or are killed
    MaxAttempts        \* discoveries after a failed start, 10 in the source

ASSUME SharingAssumption ==
    /\ Managers \cap Editors = {} /\ NOAPP \notin Managers \union Editors
    /\ MaxEngines \in Nat /\ MaxDeaths \in Nat /\ MaxAttempts \in Nat \ {0}

Apps == Managers \union Editors
Engines == 1..MaxEngines

VARIABLES
    process,    \* where each engine process is
    spawner,    \* the app that started it
    lease,      \* the engine that holds engine.lock, 0 for none
    descriptor, \* the engine in the published descriptor, 0 for none
    at,         \* where the start() of each app is
    found,      \* the engine an app looks at, waits for, or is connected to
    child,      \* the engine it started and has to stop, 0 for none
    attempts,   \* discoveries made after a failed start, 0 before
    kept,       \* apps that are open: of an editor, its entry in services
    stop,       \* the stop() of each app
    deaths

processVars == <<process, spawner, lease, descriptor>>
appVars == <<at, found, child, attempts, kept, stop>>
sharingVars == <<processVars, appVars, deaths>>

EngineRuns(e) == process[e] \notin {"none", "gone"}
Answers(e) == process[e] \in {"serving", "draining"}

SharingInit ==
    /\ process = [e \in Engines |-> "none"] /\ spawner = [e \in Engines |-> NOAPP]
    /\ lease = 0 /\ descriptor = 0
    /\ at = [a \in Apps |-> "new"] /\ found = [a \in Apps |-> 0]
    /\ child = [a \in Apps |-> 0] /\ attempts = [a \in Apps |-> 0]
    /\ kept = {} /\ stop = [a \in Apps |-> "no"]
    /\ deaths = 0

Go(a, from, to) == at[a] = from /\ at' = [at EXCEPT ![a] = to]

Proceed(e, from, to) == process[e] = from /\ process' = [process EXCEPT ![e] = to]

\* A process ends: the system gives back its lease and leaves its descriptor.
Vanish(e) ==
    /\ process' = [process EXCEPT ![e] = "gone"]
    /\ lease' = IF lease = e THEN 0 ELSE lease
    /\ UNCHANGED <<spawner, descriptor>>
-----------------------------------------------------------------------------
(* make_http_server: the lease, or an exit because another engine has it.   *)
TakeLease(e) ==
    /\ lease = 0 /\ Proceed(e, "starting", "leased") /\ lease' = e
    /\ UNCHANGED <<spawner, descriptor>>

LeaseIsBusy(e) == lease # 0 /\ process[e] = "starting" /\ Vanish(e)

(* The index cannot watch, no port can be bound, or a session is unreadable.*)
FailStart(e) == process[e] = "leased" /\ Vanish(e)

(* publish_connection replaces whatever descriptor there is.                *)
PublishConnection(e) ==
    /\ Proceed(e, "leased", "recorded") /\ descriptor' = e
    /\ UNCHANGED <<spawner, lease>>

(* desktop_engine.main prints the port and serves.                          *)
Serve(e) == Proceed(e, "recorded", "serving") /\ UNCHANGED <<spawner, lease, descriptor>>

(* The jobs are drained, and server_close closes the socket.                *)
CloseSocket(e) == Proceed(e, "draining", "closed") /\ UNCHANGED <<spawner, lease, descriptor>>

\* A mutation: the lease is given back before the descriptor is removed.
LeaveWorkspace_LeaseFirst(e) ==
    \/ Proceed(e, "closed", "leaving") /\ lease' = 0 /\ UNCHANGED <<spawner, descriptor>>
    \/ Proceed(e, "leaving", "gone") /\ descriptor' = 0 /\ UNCHANGED <<spawner, lease>>

(* release_workspace removes the descriptor, whatever is in it; then it     *)
(* gives back the lease, and the process ends.                              *)
LeaveWorkspace(e) ==
    \/ Proceed(e, "closed", "leaving") /\ descriptor' = 0 /\ UNCHANGED <<spawner, lease>>
    \/ process[e] = "leaving" /\ Vanish(e)

Die(e) == EngineRuns(e) /\ deaths < MaxDeaths /\ deaths' = deaths + 1 /\ Vanish(e)

(* The doctor removes the descriptor of a dead process: it reads it again   *)
(* under the lock that publication takes, so this is one step.              *)
ClearStaleDescriptor ==
    /\ descriptor # 0 /\ process[descriptor] = "gone" /\ descriptor' = 0
    /\ UNCHANGED <<process, spawner, lease>>
-----------------------------------------------------------------------------
(* An app is opened: discovery comes first.  A connection that failed is    *)
(* replaced by a new one, and so is one that was closed; the manager tries a*)
(* failed start again.  (A folder is not opened again while an engine that  *)
(* its closed connection has started runs: an app has one connection here.) *)
Open(a) ==
    /\ at[a] \in {"new", "failed"} \/ (at[a] = "connected" /\ a \notin kept)
    /\ stop[a] # "asked" /\ child[a] = 0
    /\ at' = [at EXCEPT ![a] = "reading"] /\ found' = [found EXCEPT ![a] = 0]
    /\ attempts' = [attempts EXCEPT ![a] = 0]
    /\ kept' = kept \union {a} /\ stop' = [stop EXCEPT ![a] = "no"]
    /\ UNCHANGED <<processVars, child>>

(* The manager opens the editor with the address of its engine.             *)
OpenShared(a, m) ==
    /\ at[m] = "connected" /\ m \in kept
    /\ Go(a, "new", "connected") /\ found' = [found EXCEPT ![a] = found[m]]
    /\ kept' = kept \union {a}
    /\ UNCHANGED <<processVars, child, attempts, stop>>

(* _start does not look whether its connection was closed meanwhile.        *)
Spawn(a) ==
    \E e \in Engines :
        /\ process[e] = "none" /\ \A d \in 1..(e - 1) : process[d] # "none"
        /\ process' = [process EXCEPT ![e] = "starting"]
        /\ spawner' = [spawner EXCEPT ![e] = a]
        /\ at' = [at EXCEPT ![a] = "waiting"]
        /\ found' = [found EXCEPT ![a] = e] /\ child' = [child EXCEPT ![a] = e]
        /\ UNCHANGED <<lease, descriptor, attempts, kept, stop>>

(* No engine was discovered: one is spawned, unless that was tried before.  *)
NothingFound(a) ==
    \/ attempts[a] = 0 /\ Spawn(a)
    \/ /\ attempts[a] \in 1..(MaxAttempts - 1)
       /\ attempts' = [attempts EXCEPT ![a] = @ + 1]
       /\ at' = [at EXCEPT ![a] = "reading"]
       /\ UNCHANGED <<processVars, found, child, kept, stop>>
    \/ /\ attempts[a] = MaxAttempts
       /\ at' = [at EXCEPT ![a] = "failed"] /\ kept' = kept \ {a}
       /\ UNCHANGED <<processVars, found, child, attempts, stop>>

(* discoverEngine reads the descriptor, looks whether the process lives ... *)
ReadDescriptor(a) ==
    /\ at[a] = "reading"
    /\ IF descriptor # 0 /\ EngineRuns(descriptor)
       THEN /\ at' = [at EXCEPT ![a] = "checking"] /\ found' = [found EXCEPT ![a] = descriptor]
            /\ UNCHANGED <<processVars, child, attempts, kept, stop>>
       ELSE NothingFound(a)

\* A mutation: an engine that was discovered counts as started by the app.
CheckIdentity_Adopts(a) ==
    /\ at[a] = "checking"
    /\ \/ /\ Answers(found[a]) /\ at' = [at EXCEPT ![a] = "connected"]
          /\ child' = [child EXCEPT ![a] = found[a]]
          /\ UNCHANGED <<processVars, found, attempts, kept, stop>>
       \/ NothingFound(a)

(* ... and asks the engine who it is, for at most a second.                 *)
CheckIdentity(a) ==
    /\ at[a] = "checking"
    /\ \/ /\ Answers(found[a]) /\ at' = [at EXCEPT ![a] = "connected"]
          /\ UNCHANGED <<processVars, found, child, attempts, kept, stop>>
       \/ NothingFound(a)

Ready(a) ==
    /\ Go(a, "waiting", "connected") /\ Answers(found[a])
    /\ UNCHANGED <<processVars, found, child, attempts, kept, stop>>

(* The engine exits before it is ready, perhaps because another app was     *)
(* faster: discovery is tried again.                                        *)
ChildFails(a) ==
    /\ Go(a, "waiting", "reading") /\ process[found[a]] = "gone"
    /\ attempts' = [attempts EXCEPT ![a] = 1] /\ child' = [child EXCEPT ![a] = 0]
    /\ UNCHANGED <<processVars, found, kept, stop>>

(* It is not ready in time: it is killed, and the start fails.              *)
StartTimesOut(a) ==
    /\ Go(a, "waiting", "failed") /\ stop[a] # "asked"
    /\ Vanish(found[a])
    /\ child' = [child EXCEPT ![a] = 0] /\ kept' = kept \ {a}
    /\ UNCHANGED <<found, attempts, stop>>

(* The engine of a connected app exits: the editor forgets the connection,  *)
(* of which an operation may still be under way, if it was not closed.      *)
ChildExits(a) ==
    /\ child[a] # 0 /\ process[child[a]] = "gone" /\ stop[a] # "asked"
    /\ Go(a, "connected", IF a \in Editors /\ stop[a] = "no" THEN "dropped" ELSE "failed")
    /\ child' = [child EXCEPT ![a] = 0] /\ kept' = kept \ {a}
    /\ UNCHANGED <<processVars, found, attempts, stop>>

(* That operation sends its request, and request() starts the connection.   *)
ResumeEngine(a) ==
    /\ Go(a, "dropped", "reading") /\ attempts' = [attempts EXCEPT ![a] = 0]
    /\ UNCHANGED <<processVars, found, child, kept, stop>>
-----------------------------------------------------------------------------
(* The app is closed: the manager, or a folder or the window of an editor;  *)
(* a connection whose first requests fail is closed too.  In an editor a    *)
(* start() that is under way goes on.                                       *)
Close(a) ==
    /\ a \in kept /\ kept' = kept \ {a}
    /\ stop' = [stop EXCEPT ![a] = IF child[a] = 0 THEN "done" ELSE "asked"]
    /\ at' = [at EXCEPT ![a] = IF @ = "connected" \/ a \in Managers THEN "failed" ELSE @]
    /\ UNCHANGED <<processVars, found, child, attempts>>

(* The engine of the app hears the request, or a signal, and drains.        *)
ShutDown(a) ==
    /\ stop[a] = "asked" /\ child[a] # 0 /\ Proceed(child[a], "serving", "draining")
    /\ UNCHANGED <<spawner, lease, descriptor, appVars>>

(* The wait of stop() is over: what is left of the engine is killed.        *)
StopEnds(a) ==
    /\ stop[a] = "asked" /\ stop' = [stop EXCEPT ![a] = "done"]
    /\ child' = [child EXCEPT ![a] = 0]
    /\ IF child[a] # 0 /\ EngineRuns(child[a]) THEN Vanish(child[a]) ELSE UNCHANGED processVars
    /\ UNCHANGED <<at, found, attempts, kept>>
-----------------------------------------------------------------------------
EngineStep(e) ==
    \/ /\ \/ TakeLease(e) \/ LeaseIsBusy(e) \/ FailStart(e) \/ PublishConnection(e) \/ Serve(e)
          \/ CloseSocket(e) \/ LeaveWorkspace(e)
       /\ UNCHANGED <<appVars, deaths>>
    \/ Die(e) /\ UNCHANGED appVars

AppStep(a) ==
    \/ Open(a) \/ ReadDescriptor(a) \/ CheckIdentity(a) \/ Ready(a)
    \/ ChildFails(a) \/ StartTimesOut(a) \/ ChildExits(a) \/ ResumeEngine(a)
    \/ Close(a) \/ ShutDown(a) \/ StopEnds(a)

SharingNext ==
    \/ \E e \in Engines : EngineStep(e)
    \/ ClearStaleDescriptor /\ UNCHANGED <<appVars, deaths>>
    \/ /\ \/ \E a \in Apps : AppStep(a)
          \/ \E a \in Editors, m \in Managers : OpenShared(a, m)
       /\ UNCHANGED deaths

SharingSpec == SharingInit /\ [][SharingNext]_sharingVars
-----------------------------------------------------------------------------
SharingTypeOK ==
    /\ process \in [Engines -> {"none", "starting", "leased", "recorded", "serving",
                                "draining", "closed", "leaving", "gone"}]
    /\ spawner \in [Engines -> Apps \union {NOAPP}]
    /\ lease \in 0..MaxEngines /\ descriptor \in 0..MaxEngines
    /\ at \in [Apps -> {"new", "reading", "checking", "waiting", "connected", "dropped", "failed"}]
    /\ found \in [Apps -> 0..MaxEngines] /\ child \in [Apps -> 0..MaxEngines]
    /\ attempts \in [Apps -> 0..MaxAttempts] /\ kept \subseteq Apps
    /\ stop \in [Apps -> {"no", "asked", "done"}]
    /\ deaths \in 0..MaxDeaths

(* An engine that answers can be discovered: its descriptor is not removed  *)
(* by a predecessor that is still shutting down or by the doctor, and not   *)
(* replaced by the one of another engine.                                   *)
EngineIsDiscoverable == \A e \in Engines : Answers(e) => descriptor = e

(* An app stops only engines that it has started: an engine drains, or      *)
(* closes, because stop() of the very connection that spawned it was called,*)
(* and one that was discovered or shared is never the child of a connection.*)
(* And no failure on the way, of a start that times out, finds another      *)
(* engine or is closed half-way, makes a connection drop the handle of its  *)
(* engine while that runs, or leaves it with two of them.                   *)
OwnersStopTheirEngines ==
    /\ \A a \in Apps : child[a] # 0 => spawner[child[a]] = a
    /\ \A e \in Engines : EngineRuns(e) => child[spawner[e]] = e
    /\ \A e \in Engines :
          process[e] \in {"draining", "closed", "leaving"} => stop[spawner[e]] = "asked"

(* As it is documented, the engine of a folder is stopped when the folder   *)
(* closes: as long as an engine runs, the app that started it is open, or   *)
(* is about to stop it.                                                     *)
ClosedAppsLeaveNoEngine ==
    \A e \in Engines : EngineRuns(e) => spawner[e] \in kept \/ stop[spawner[e]] = "asked"

=============================================================================
