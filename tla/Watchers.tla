------------------------------ MODULE Watchers ------------------------------
(***************************************************************************)
(* One run of mcp-server: the loop that discovers projects and spawns a    *)
(* watcher task for each, the watcher tasks, the runtime status they       *)
(* report, and the shutdown.                                               *)
(*                                                                         *)
(* A step is what a task does between two awaits on shared state: one lock *)
(* of active_watchers or of IndexingRuntimeState, one receive, one         *)
(* blocking update.  What an update does to the store is IndexStore.       *)
(***************************************************************************)
EXTENDS Naturals, FiniteSets

CONSTANTS
    Projects,
    Tasks,       \* identities of watcher tasks: a bound on how many run at once
    Subscribers, \* clients of the telemetry event stream
    Capacity,    \* events a watcher's channel holds; 256 in FileWatcher::start
    MaxPaths,    \* paths one event names: a bound
    MaxFaults,   \* failures of the notify back end: a bound
    NoProject

ASSUME WatchersAssumption ==
    /\ Capacity \in Nat \ {0}
    /\ MaxPaths \in Nat
    /\ MaxFaults \in Nat
    /\ NoProject \notin Projects

VARIABLES
    listed,       \* projects of the catalog and the selected one
    present,      \* projects whose directory exists
    discovery,    \* the loop of spawn_background_indexing
    activeWatchers,
    watcher,      \* what every task does, and its channel
    alive,        \* tasks whose watch of the directory tells them of changes
    status,       \* IndexingRuntimeState of every project
    telemetryDepth,
    shuttingDown,
    server,       \* the main task
    saved,        \* the statuses in runtime-state.json
    subscribed,   \* open telemetry streams
    faults

environment == <<listed, present, faults>>
watches == <<watcher, alive>>
reports == <<status, telemetryDepth>>
main == <<shuttingDown, server, saved, subscribed>>
vars == <<environment, discovery, activeWatchers, watches, reports, main>>

-----------------------------------------------------------------------------
(* Values *)

Watching == {"register", "loop", "recv", "depth", "telemetry", "paths",
             "updating", "indexed", "reset", "erring"}
Phases == {"idle", "start", "failed", "inactive", "leave"} \union Watching
Watcher == [pc : Phases, project : Projects \union {NoProject},
            queue : 0..Capacity, paths : 0..MaxPaths]
IdleWatcher == [pc |-> "idle", project |-> NoProject, queue |-> 0, paths |-> 0]

Status == [active : BOOLEAN, depth : 0..Capacity, error : BOOLEAN]
NoStatus == [active |-> FALSE, depth |-> 0, error |-> FALSE]
NotSaved == [p \in {} |-> NoStatus]

TypeOK ==
    /\ listed \subseteq Projects
    /\ present \subseteq Projects
    /\ discovery \in [pc : {"top", "each", "done"}, todo : SUBSET Projects]
    /\ activeWatchers \subseteq Projects
    /\ watcher \in [Tasks -> Watcher]
    /\ alive \subseteq Tasks
    /\ status \in [Projects -> Status]
    /\ telemetryDepth \in 0..Capacity
    /\ shuttingDown \in BOOLEAN
    /\ server \in {"serving", "persisting", "draining", "exited"}
    /\ saved \in [Projects -> Status] \union {NotSaved}
    /\ subscribed \subseteq Subscribers
    /\ faults \in 0..MaxFaults

Running == server # "exited"
At(t, pc) == Running /\ watcher[t].pc = pc
Goto(t, pc) == watcher' = [watcher EXCEPT ![t].pc = pc]

-----------------------------------------------------------------------------
(* Discovery *)

(* The top of the loop: the catalog is read once per round.                 *)
Discover ==
    /\ Running
    /\ discovery.pc = "top"
    /\ discovery' = IF shuttingDown THEN [pc |-> "done", todo |-> {}]
                    ELSE [pc |-> "each", todo |-> listed]
    /\ UNCHANGED <<environment, activeWatchers, watches, reports, main>>

(* Mutant: the set of active watchers is not consulted. *)
SpawnUnchecked(p, t) ==
    /\ Running
    /\ discovery.pc = "each"
    /\ p \in discovery.todo
    /\ ~shuttingDown
    /\ p \in present
    /\ watcher[t].pc = "idle"
    /\ activeWatchers' = activeWatchers \union {p}
    /\ watcher' = [watcher EXCEPT
                        ![t] = [IdleWatcher EXCEPT !.pc = "start", !.project = p]]
    /\ discovery' = [discovery EXCEPT !.todo = @ \ {p}]
    /\ UNCHANGED <<environment, reports, main, alive>>

(* One project of the round, in any order: mark_watcher_if_new inserts it   *)
(* under the lock, and a task that found it inserted is not spawned.        *)
SpawnWatcher(p, t) ==
    /\ Running
    /\ discovery.pc = "each"
    /\ p \in discovery.todo
    /\ ~shuttingDown
    /\ p \in present \ activeWatchers
    /\ watcher[t].pc = "idle"
    /\ activeWatchers' = activeWatchers \union {p}
    /\ watcher' = [watcher EXCEPT
                        ![t] = [IdleWatcher EXCEPT !.pc = "start", !.project = p]]
    /\ discovery' = [discovery EXCEPT !.todo = @ \ {p}]
    /\ UNCHANGED <<environment, reports, main, alive>>

SkipProject(p) ==
    /\ Running
    /\ discovery.pc = "each"
    /\ p \in discovery.todo
    /\ ~shuttingDown
    /\ p \notin present \ activeWatchers
    /\ discovery' = [discovery EXCEPT !.todo = @ \ {p}]
    /\ UNCHANGED <<environment, activeWatchers, watches, reports, main>>

(* The end of a round, or the inner break: sleep, then the top again.       *)
EndRound ==
    /\ Running
    /\ discovery.pc = "each"
    /\ discovery.todo = {} \/ shuttingDown
    /\ discovery' = [pc |-> "top", todo |-> {}]
    /\ UNCHANGED <<environment, activeWatchers, watches, reports, main>>

-----------------------------------------------------------------------------
(* run_project_watcher *)

(* The directory is watched once, before the loop, and never again.         *)
StartWatching(t) ==
    /\ At(t, "start")
    /\ watcher[t].project \in present
    /\ Goto(t, "register")
    /\ alive' = alive \union {t}
    /\ UNCHANGED <<environment, discovery, activeWatchers, reports, main>>

(* FileWatcher::start fails: the directory is gone, or notify cannot watch  *)
(* it, an inotify limit for instance.                                       *)
StartFails(t) ==
    /\ At(t, "start")
    /\ \/ watcher[t].project \notin present /\ UNCHANGED faults
       \/ faults < MaxFaults /\ faults' = faults + 1
    /\ Goto(t, "failed")
    /\ UNCHANGED <<listed, present, discovery, activeWatchers, reports, main, alive>>

MarkActive(t) ==
    /\ At(t, "register")
    /\ status' = [status EXCEPT ![watcher[t].project].active = TRUE]
    /\ Goto(t, "loop")
    /\ UNCHANGED <<environment, discovery, activeWatchers, telemetryDepth, main, alive>>

(* Leaving the loop drops the watch, and the channel with what is queued.   *)
Stop(t, pc) ==
    /\ watcher' = [watcher EXCEPT ![t].pc = pc, ![t].queue = 0]
    /\ alive' = alive \ {t}

(* Mutant: the flag is not checked. *)
NeverCheckShutdown(t) ==
    /\ At(t, "loop")
    /\ Goto(t, "recv")
    /\ UNCHANGED <<environment, discovery, activeWatchers, reports, main, alive>>

CheckShutdown(t) ==
    /\ At(t, "loop")
    /\ IF shuttingDown THEN Stop(t, "inactive") ELSE Goto(t, "recv") /\ UNCHANGED alive
    /\ UNCHANGED <<environment, discovery, activeWatchers, reports, main>>

Receive(t) ==
    /\ At(t, "recv")
    /\ watcher[t].queue > 0
    /\ \E n \in 0..MaxPaths :
            watcher' = [watcher EXCEPT ![t].pc = "depth", ![t].paths = n,
                                       ![t].queue = @ - 1]
    /\ UNCHANGED <<environment, discovery, activeWatchers, reports, main, alive>>

(* 250 ms without an event.                                                 *)
TimeOut(t) ==
    /\ At(t, "recv")
    /\ Goto(t, "loop")
    /\ UNCHANGED <<environment, discovery, activeWatchers, reports, main, alive>>

(* The notify back end dies; recv returns None once the channel is empty.   *)
ChannelClosed(t) ==
    /\ At(t, "recv")
    /\ watcher[t].queue = 0
    /\ faults < MaxFaults
    /\ faults' = faults + 1
    /\ Stop(t, "inactive")
    /\ UNCHANGED <<listed, present, discovery, activeWatchers, reports, main>>

(* Mutant: the length of the channel taken before the receive. *)
CountReceived(t) ==
    /\ At(t, "depth")
    /\ status' = [status EXCEPT ![watcher[t].project].depth = watcher[t].queue + 1]
    /\ Goto(t, "telemetry")
    /\ UNCHANGED <<environment, discovery, activeWatchers, telemetryDepth, main, alive>>

(* rx.len() is read before the lock is awaited: events may be queued since. *)
SetQueueDepth(t) ==
    /\ At(t, "depth")
    /\ \E n \in 0..watcher[t].queue :
            status' = [status EXCEPT ![watcher[t].project].depth = n]
    /\ Goto(t, "telemetry")
    /\ UNCHANGED <<environment, discovery, activeWatchers, telemetryDepth, main, alive>>

SetTelemetryDepth(t) ==
    /\ At(t, "telemetry")
    /\ telemetryDepth' = watcher[t].queue
    /\ Goto(t, "paths")
    /\ UNCHANGED <<environment, discovery, activeWatchers, status, main, alive>>

(* A path outside the project or a directory is skipped; any other, also of *)
(* a file no parser knows, is updated.                                      *)
NextPath(t) ==
    /\ At(t, "paths")
    /\ IF watcher[t].paths = 0 THEN Goto(t, "loop")
       ELSE \E pc \in {"paths", "updating"} :
                watcher' = [watcher EXCEPT ![t].pc = pc, ![t].paths = @ - 1]
    /\ UNCHANGED <<environment, discovery, activeWatchers, reports, main, alive>>

(* apply_incremental_update: the blocking update, then its report.          *)
UpdateEnds(t) ==
    /\ At(t, "updating")
    /\ \E pc \in {"indexed", "erring"} : Goto(t, pc)
    /\ UNCHANGED <<environment, discovery, activeWatchers, reports, main, alive>>

MarkIndexed(t) ==
    /\ At(t, "indexed")
    /\ status' = [status EXCEPT ![watcher[t].project].error = FALSE]
    /\ Goto(t, "reset")
    /\ UNCHANGED <<environment, discovery, activeWatchers, telemetryDepth, main, alive>>

(* The update ends with a depth of 0, whatever is queued by then.           *)
ResetQueueDepth(t) ==
    /\ At(t, "reset")
    /\ status' = [status EXCEPT ![watcher[t].project].depth = 0]
    /\ Goto(t, "paths")
    /\ UNCHANGED <<environment, discovery, activeWatchers, telemetryDepth, main, alive>>

MarkUpdateError(t) ==
    /\ At(t, "erring")
    /\ status' = [status EXCEPT ![watcher[t].project].error = TRUE]
    /\ Goto(t, "paths")
    /\ UNCHANGED <<environment, discovery, activeWatchers, telemetryDepth, main, alive>>

-----------------------------------------------------------------------------
(* The end of the task that spawn_project_watcher started *)

MarkStartError(t) ==
    /\ At(t, "failed")
    /\ status' = [status EXCEPT ![watcher[t].project].error = TRUE]
    /\ Goto(t, "inactive")
    /\ UNCHANGED <<environment, discovery, activeWatchers, telemetryDepth, main, alive>>

(* Mutant: the status of an ended watcher is left as it was. *)
LeaveStatus(t) ==
    /\ At(t, "inactive")
    /\ Goto(t, "leave")
    /\ UNCHANGED <<environment, discovery, activeWatchers, reports, main, alive>>

MarkInactive(t) ==
    /\ At(t, "inactive")
    /\ status' = [status EXCEPT ![watcher[t].project].active = FALSE]
    /\ Goto(t, "leave")
    /\ UNCHANGED <<environment, discovery, activeWatchers, telemetryDepth, main, alive>>

(* Mutant: the ended watcher stays in the set of active ones. *)
LeaveRegistered(t) ==
    /\ At(t, "leave")
    /\ watcher' = [watcher EXCEPT ![t] = IdleWatcher]
    /\ UNCHANGED <<environment, discovery, activeWatchers, reports, main, alive>>

Leave(t) ==
    /\ At(t, "leave")
    /\ activeWatchers' = activeWatchers \ {watcher[t].project}
    /\ watcher' = [watcher EXCEPT ![t] = IdleWatcher]
    /\ UNCHANGED <<environment, discovery, reports, main, alive>>

-----------------------------------------------------------------------------
(* Shutdown: main of mcp-server *)

(* SIGINT or SIGTERM: begin_shutdown only sets the flag.                    *)
BeginShutdown ==
    /\ server = "serving"
    /\ server' = "persisting"
    /\ shuttingDown' = TRUE
    /\ UNCHANGED <<environment, discovery, activeWatchers, watches, reports,
                   saved, subscribed>>

(* persist_runtime_state; a failure is only logged.  Only then does axum    *)
(* stop to accept connections and begin to wait for the open ones.          *)
PersistRuntimeState ==
    /\ server = "persisting"
    /\ server' = "draining"
    /\ saved' \in {saved, status}
    /\ UNCHANGED <<environment, discovery, activeWatchers, watches, reports,
                   shuttingDown, subscribed>>

(* The last connection closed: main returns and the runtime drops its tasks.*)
Exit ==
    /\ server = "draining"
    /\ subscribed = {}
    /\ server' = "exited"
    /\ discovery' = [pc |-> "done", todo |-> {}]
    /\ watcher' = [t \in Tasks |-> IdleWatcher]
    /\ activeWatchers' = {}
    /\ alive' = {}
    /\ UNCHANGED <<environment, reports, shuttingDown, saved, subscribed>>

(* telemetry_sse_handler streams a snapshot every second and never ends.    *)
Subscribe(c) ==
    /\ server \in {"serving", "persisting"}
    /\ c \notin subscribed
    /\ subscribed' = subscribed \union {c}
    /\ UNCHANGED <<environment, discovery, activeWatchers, watches, reports,
                   shuttingDown, server, saved>>

Unsubscribe(c) ==
    /\ c \in subscribed
    /\ subscribed' = subscribed \ {c}
    /\ UNCHANGED <<environment, discovery, activeWatchers, watches, reports,
                   shuttingDown, server, saved>>

-----------------------------------------------------------------------------
(* The environment *)

(* The CLI and the UI add, select and remove projects.                      *)
ListingChanges ==
    /\ Running
    /\ \E p \in Projects : listed' \in {listed \union {p}, listed \ {p}}
    /\ UNCHANGED <<present, faults, discovery, activeWatchers, watches, reports,
                   main>>

(* The watch of a directory goes with it; it does not come back with it.    *)
DirectoryChanges ==
    /\ Running
    /\ \E p \in Projects :
         \/ present' = present \union {p} /\ UNCHANGED alive
         \/ /\ present' = present \ {p}
            /\ alive' = {t \in alive : watcher[t].project # p}
    /\ UNCHANGED <<listed, faults, discovery, activeWatchers, watcher, reports, main>>

(* notify sends an event; with a full channel blocking_send waits.          *)
FileEvent(t) ==
    /\ Running
    /\ watcher[t].pc \in Watching
    /\ t \in alive
    /\ watcher[t].queue < Capacity
    /\ watcher' = [watcher EXCEPT ![t].queue = @ + 1]
    /\ UNCHANGED <<environment, discovery, activeWatchers, reports, main, alive>>

-----------------------------------------------------------------------------
(* The specification *)

Init ==
    /\ listed \in SUBSET Projects
    /\ present = Projects
    /\ discovery = [pc |-> "top", todo |-> {}]
    /\ activeWatchers = {}
    /\ watcher = [t \in Tasks |-> IdleWatcher]
    /\ alive = {}
    /\ status = [p \in Projects |-> NoStatus]
    /\ telemetryDepth = 0
    /\ shuttingDown = FALSE
    /\ server = "serving"
    /\ saved = NotSaved
    /\ subscribed = {}
    /\ faults = 0

DiscoveryStep ==
    \/ Discover
    \/ \E p \in Projects : SkipProject(p) \/ \E t \in Tasks : SpawnWatcher(p, t)
    \/ EndRound

Report(t) ==
    \/ MarkActive(t) \/ SetQueueDepth(t) \/ MarkIndexed(t)
    \/ ResetQueueDepth(t) \/ MarkUpdateError(t) \/ MarkStartError(t)
    \/ MarkInactive(t)

WatcherStep(t) ==
    \/ StartWatching(t) \/ StartFails(t) \/ CheckShutdown(t) \/ TimeOut(t)
    \/ SetTelemetryDepth(t) \/ NextPath(t) \/ UpdateEnds(t) \/ Leave(t)
    \/ Report(t)

ServerStep == BeginShutdown \/ PersistRuntimeState \/ Exit

Next ==
    \/ DiscoveryStep
    \/ \E t \in Tasks : WatcherStep(t) \/ Receive(t) \/ ChannelClosed(t)
                        \/ FileEvent(t)
    \/ ServerStep
    \/ \E c \in Subscribers : Subscribe(c) \/ Unsubscribe(c)
    \/ ListingChanges
    \/ DirectoryChanges

Spec == Init /\ [][Next]_vars

(* Tokio runs every task that can run.  An event that is queued when the    *)
(* select begins is taken at once, so no watcher times out past it forever. *)
(* Nobody owes the server a signal, and no client owes it the end of a      *)
(* stream.                                                                  *)
Fairness ==
    /\ WF_vars(DiscoveryStep)
    /\ \A t \in Tasks : WF_vars(WatcherStep(t)) /\ SF_vars(Receive(t))
    /\ WF_vars(PersistRuntimeState)
    /\ WF_vars(Exit)

FairSpec == Spec /\ Fairness

-----------------------------------------------------------------------------
(* Safety *)

Busy(t) == watcher[t].pc # "idle"

(* A project is never watched by two tasks, of whatever the discovery loop  *)
(* and ending tasks do: two watchers would run the unlocked read-modify-    *)
(* write of the project's index against each other.                         *)
AtMostOneWatcher ==
    \A t, u \in Tasks :
        (t # u /\ Busy(t) /\ Busy(u)) => watcher[t].project # watcher[u].project

Reporting == Watching \ {"register"}

(* What status and the telemetry page report as a watched project is one:   *)
(* a watcher in its loop is reported, also right after a restart, and none  *)
(* is reported when the project has no task.                                *)
StatusTracksWatcher ==
    Running =>
        /\ \A t \in Tasks : watcher[t].pc \in Reporting
                                => status[watcher[t].project].active
        /\ \A p \in Projects : status[p].active
                => \E t \in Tasks :
                        /\ watcher[t].project = p
                        /\ watcher[t].pc \in Reporting \union {"inactive"}

(* No backlog is reported when there is none: once every watcher waits for  *)
(* an event and no event is queued, the queue depth of every watched        *)
(* project and the one all watchers share read 0, though they are written   *)
(* at other moments than the queue changes and failed updates reset none.   *)
Quiet ==
    /\ ~shuttingDown
    /\ \A t \in Tasks : watcher[t].pc \in {"idle", "recv"}
    /\ \A t \in Tasks : watcher[t].queue = 0

IdleReportsNoBacklog ==
    Quiet => /\ telemetryDepth = 0
             /\ \A p \in Projects : status[p].depth = 0

(* What these rest on.  Registry: the set of active watchers names exactly  *)
(* the projects of the tasks.  Backlog: a depth that is reported has events *)
(* in a channel, or a task about to write the depth again.                  *)
Registry ==
    /\ \A t \in Tasks : Busy(t) => watcher[t].project \in activeWatchers
    /\ \A p \in activeWatchers :
            \E t \in Tasks : Busy(t) /\ watcher[t].project = p

Backlog ==
    /\ \A t \in Tasks : watcher[t].pc \notin Watching => watcher[t].queue = 0
    /\ server # "serving" => shuttingDown
    /\ ~shuttingDown =>
        /\ \A p \in Projects : status[p].depth # 0 =>
                \E t \in Tasks : /\ watcher[t].project = p
                                 /\ watcher[t].queue # 0 \/ watcher[t].pc = "depth"
        /\ telemetryDepth # 0 =>
                \E t \in Tasks : \/ watcher[t].queue # 0
                                 \/ watcher[t].pc \in {"depth", "telemetry"}

WatchersInv ==
    /\ TypeOK
    /\ Registry
    /\ AtMostOneWatcher
    /\ StatusTracksWatcher
    /\ Backlog

-----------------------------------------------------------------------------
(* Liveness *)

InLoop(p, t) == watcher[t].project = p /\ watcher[t].pc \in Watching

(* A task has a watch that tells it of changes; or one is in its loop on    *)
(* the watch of a directory that has been deleted.                          *)
Watched(p) == \E t \in Tasks : InLoop(p, t) /\ t \in alive
Blind(p) == \E t \in Tasks : InLoop(p, t) /\ t \notin alive

(* A project that stays listed with its directory in place comes to be      *)
(* watched and stays so, however its watchers failed before, unless the     *)
(* server is told to stop or the directory was deleted and created again    *)
(* under a task, which then stays blind.                                    *)
ListedGetsWatched ==
    \A p \in Projects :
        /\ <>[](p \in listed \intersect present /\ ~shuttingDown)
        /\ []<>~Blind(p)
        => <>[]Watched(p)

(* Graceful shutdown "stops background indexing loops": after the signal    *)
(* the discovery loop and every watcher end, the ones spawned while the     *)
(* signal arrived and the ones with events still queued included.  It needs *)
(* no client for that; the end of the server waits for their streams, and   *)
(* for nothing else.                                                        *)
ShutdownEnds ==
    /\ shuttingDown ~> (discovery.pc = "done" /\ \A t \in Tasks : ~Busy(t))
    /\ <>[](subscribed = {}) => (shuttingDown ~> server = "exited")

-----------------------------------------------------------------------------
(* What the documentation says and the code does not do *)

(* "stop background indexing loops, persist .codivex/runtime-state.json":   *)
(* what is persisted says that nothing is being watched any more.           *)
PersistedAfterLoopsStop ==
    \A p \in DOMAIN saved : ~saved[p].active

(* "File watching for background incremental updates": a directory that is  *)
(* back is watched again.                                                   *)
ReturnedGetsWatched ==
    \A p \in Projects :
        <>[](p \in listed \intersect present /\ ~shuttingDown) => <>[]Watched(p)

(* "finish HTTP shutdown cleanly": the server ends after the signal.        *)
ShutdownFinishes == shuttingDown ~> server = "exited"
=============================================================================
