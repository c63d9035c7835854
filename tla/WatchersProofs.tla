--------------------------- MODULE WatchersProofs ---------------------------
(***************************************************************************)
(* Theorems about Watchers, for every set of projects and of tasks, every  *)
(* channel capacity and every number of failures.                          *)
(***************************************************************************)
EXTENDS Watchers, TLAPS

(* A step that leaves the watches alone changes no task.                    *)
USE DEF watches

(* A busy task has a project: its project is an active one.                 *)
LEMMA BusyHasProject ==
    ASSUME TypeOK, Registry, NEW t \in Tasks, Busy(t)
    PROVE  watcher[t].project \in Projects
BY DEF TypeOK, Registry

-----------------------------------------------------------------------------
(* Type correctness *)

LEMMA Bounds ==
    /\ 0 \in 0..Capacity /\ 0 \in 0..MaxPaths /\ 0 \in 0..MaxFaults
    /\ \A n \in 0..Capacity : n > 0 => n - 1 \in 0..Capacity
    /\ \A n \in 0..Capacity : n < Capacity => n + 1 \in 0..Capacity
    /\ \A n \in 0..MaxPaths : n # 0 => n - 1 \in 0..MaxPaths
    /\ \A n \in 0..MaxFaults : n < MaxFaults => n + 1 \in 0..MaxFaults
BY WatchersAssumption

LEMMA WatcherTypes ==
    /\ IdleWatcher \in Watcher
    /\ \A p \in Projects :
            [IdleWatcher EXCEPT !.pc = "start", !.project = p] \in Watcher
<1>1. IdleWatcher \in Watcher
  BY Bounds DEF IdleWatcher, Watcher, Phases
<1>2. "start" \in Phases
  BY DEF Phases
<1> QED  BY <1>1, <1>2 DEF Watcher

LEMMA TypeInit == Init => TypeOK
<1>1. NoStatus \in Status
  BY Bounds DEF NoStatus, Status
<1> SUFFICES ASSUME Init PROVE TypeOK
  OBVIOUS
<1>2. /\ watcher \in [Tasks -> Watcher]
      /\ status \in [Projects -> Status]
  BY <1>1, WatcherTypes DEF Init
<1>3. telemetryDepth \in 0..Capacity /\ faults \in 0..MaxFaults
  BY Bounds DEF Init
<1>4. discovery \in [pc : {"top", "each", "done"}, todo : SUBSET Projects]
  BY DEF Init
<1>5. /\ listed \subseteq Projects /\ present \subseteq Projects
      /\ activeWatchers \subseteq Projects /\ alive \subseteq Tasks
      /\ shuttingDown \in BOOLEAN
      /\ server \in {"serving", "persisting", "draining", "exited"}
      /\ saved \in [Projects -> Status] \union {NotSaved}
      /\ subscribed \subseteq Subscribers
  BY DEF Init
<1> QED  BY <1>2, <1>3, <1>4, <1>5 DEF TypeOK

LEMMA StatusTypes ==
    ASSUME TypeOK, NEW p \in Projects
    PROVE  /\ \A b \in BOOLEAN :
                /\ [status EXCEPT ![p].active = b] \in [Projects -> Status]
                /\ [status EXCEPT ![p].error = b] \in [Projects -> Status]
           /\ \A n \in 0..Capacity :
                [status EXCEPT ![p].depth = n] \in [Projects -> Status]
BY DEF TypeOK, Status

LEMMA QueueTypes ==
    ASSUME TypeOK, NEW t \in Tasks, NEW pc \in Phases, NEW n \in 0..Capacity
    PROVE  /\ [watcher EXCEPT ![t].pc = pc, ![t].queue = n]
                    \in [Tasks -> Watcher]
           /\ \A k \in 0..MaxPaths :
                [watcher EXCEPT ![t].pc = pc, ![t].paths = k, ![t].queue = n]
                    \in [Tasks -> Watcher]
<1>1. [watcher[t] EXCEPT !.pc = pc, !.queue = n] \in Watcher
  BY DEF TypeOK, Watcher
<1>2. \A k \in 0..MaxPaths :
        [watcher[t] EXCEPT !.pc = pc, !.paths = k, !.queue = n] \in Watcher
  BY DEF TypeOK, Watcher
<1> QED  BY <1>1, <1>2 DEF TypeOK

LEMMA DiscoveryTypes == TypeOK /\ DiscoveryStep => TypeOK'
<1> SUFFICES ASSUME TypeOK, DiscoveryStep PROVE TypeOK'
  OBVIOUS
<1>1. CASE Discover
  BY <1>1 DEF Discover, TypeOK, environment, reports, main
<1>2. ASSUME NEW p \in Projects, SkipProject(p) PROVE TypeOK'
  BY <1>2 DEF SkipProject, TypeOK, environment, reports, main
<1>3. ASSUME NEW p \in Projects, NEW t \in Tasks, SpawnWatcher(p, t)
      PROVE  TypeOK'
  BY <1>3, WatcherTypes DEF SpawnWatcher, TypeOK, environment, reports, main
<1>4. CASE EndRound
  BY <1>4 DEF EndRound, TypeOK, environment, reports, main
<1> QED  BY <1>1, <1>2, <1>3, <1>4 DEF DiscoveryStep

LEMMA ReportTypes ==
    ASSUME TypeOK, Registry, NEW t \in Tasks, Report(t)
    PROVE  TypeOK'
<1>1. Busy(t) /\ watcher[t].project \in Projects
  BY BusyHasProject DEF Report, MarkActive, SetQueueDepth, MarkIndexed,
     ResetQueueDepth, MarkUpdateError, MarkStartError, MarkInactive, At, Busy
<1>2. watcher[t].queue \in 0..Capacity /\ 0 \in 0..Capacity
  BY Bounds DEF TypeOK, Watcher
<1>3. ASSUME NEW pc \in Phases, Goto(t, pc)
      PROVE  watcher' \in [Tasks -> Watcher]
  <2>1. watcher \in [Tasks -> Watcher]
    BY DEF TypeOK
  <2> QED  BY <1>3, <2>1 DEF Goto, Watcher
<1>4. {"loop", "telemetry", "reset", "paths", "inactive", "leave"} \subseteq Phases
  BY DEF Phases, Watching
<1>5. watcher' \in [Tasks -> Watcher]
  BY <1>3, <1>4 DEF Report, MarkActive, SetQueueDepth, MarkIndexed,
     ResetQueueDepth, MarkUpdateError, MarkStartError, MarkInactive
<1>6. status' \in [Projects -> Status]
  <2> USE <1>1, <1>2, StatusTypes
  <2>1. CASE SetQueueDepth(t)
    <3>1. PICK n \in 0..watcher[t].queue :
              status' = [status EXCEPT ![watcher[t].project].depth = n]
      BY <2>1 DEF SetQueueDepth
    <3>2. n \in 0..Capacity
      BY WatchersAssumption
    <3> QED  BY <3>1, <3>2
  <2>2. CASE ResetQueueDepth(t)
    BY <2>2 DEF ResetQueueDepth
  <2>3. CASE MarkActive(t) \/ MarkInactive(t)
    <3>1. PICK b \in BOOLEAN :
            status' = [status EXCEPT ![watcher[t].project].active = b]
      BY <2>3, Zenon DEF MarkActive, MarkInactive
    <3> QED  BY <3>1, <1>1, StatusTypes, Zenon
  <2>4. CASE MarkIndexed(t) \/ MarkUpdateError(t) \/ MarkStartError(t)
    <3>1. PICK b \in BOOLEAN :
            status' = [status EXCEPT ![watcher[t].project].error = b]
      BY <2>4, Zenon DEF MarkIndexed, MarkUpdateError, MarkStartError
    <3> QED  BY <3>1, <1>1, StatusTypes, Zenon
  <2> QED  BY <2>1, <2>2, <2>3, <2>4 DEF Report
<1>7. UNCHANGED <<environment, discovery, activeWatchers, telemetryDepth, main, alive>>
  BY DEF Report, MarkActive, SetQueueDepth, MarkIndexed, ResetQueueDepth,
     MarkUpdateError, MarkStartError, MarkInactive
<1> QED  BY <1>5, <1>6, <1>7 DEF TypeOK, environment, main

LEMMA WatcherStepTypes ==
    ASSUME TypeOK, Registry, NEW t \in Tasks,
           WatcherStep(t) \/ Receive(t) \/ ChannelClosed(t) \/ FileEvent(t)
    PROVE  TypeOK'
<1> USE Bounds
<1> USE DEF environment, reports, main
<1>1. CASE StartWatching(t)
  BY <1>1 DEF StartWatching, Goto, TypeOK, Watcher, Phases, Watching
<1>2. CASE StartFails(t)
  BY <1>2 DEF StartFails, Goto, TypeOK, Watcher, Phases
<1>3. CASE CheckShutdown(t)
  BY <1>3 DEF CheckShutdown, Stop, Goto, TypeOK, Watcher, Phases, Watching
<1>4. CASE TimeOut(t)
  BY <1>4 DEF TimeOut, Goto, TypeOK, Watcher, Phases, Watching
<1>5. CASE SetTelemetryDepth(t)
  BY <1>5 DEF SetTelemetryDepth, Goto, TypeOK, Watcher, Phases, Watching
<1>6. CASE NextPath(t)
  BY <1>6 DEF NextPath, Goto, TypeOK, Watcher, Phases, Watching
<1>7. CASE UpdateEnds(t)
  BY <1>7 DEF UpdateEnds, Goto, TypeOK, Watcher, Phases, Watching
<1>8. CASE Leave(t)
  BY <1>8, WatcherTypes DEF Leave, TypeOK
<1>9. CASE Report(t)
  BY <1>9, ReportTypes
<1>10. CASE Receive(t)
  <2>1. watcher[t].queue - 1 \in 0..Capacity
    BY <1>10 DEF Receive, TypeOK, Watcher
  <2>2. "depth" \in Phases
    BY DEF Phases, Watching
  <2>3. watcher' \in [Tasks -> Watcher]
    <3>1. PICK n \in 0..MaxPaths :
              watcher' = [watcher EXCEPT ![t].pc = "depth", ![t].paths = n,
                                         ![t].queue = watcher[t].queue - 1]
      BY <1>10 DEF Receive, TypeOK, Watcher
    <3> QED  BY <2>1, <2>2, <3>1, QueueTypes
  <2> QED  BY <1>10, <2>3 DEF Receive, TypeOK
<1>11. CASE ChannelClosed(t)
  <2>1. faults' \in 0..MaxFaults
    BY <1>11 DEF ChannelClosed, TypeOK
  <2>2. 0 \in 0..Capacity /\ "inactive" \in Phases
    BY DEF Phases
  <2>3. watcher' \in [Tasks -> Watcher] /\ alive' \subseteq alive
    BY <1>11, <2>2, QueueTypes DEF ChannelClosed, Stop
  <2> QED  BY <1>11, <2>1, <2>3 DEF ChannelClosed, TypeOK
<1>12. CASE FileEvent(t)
  BY <1>12 DEF FileEvent, TypeOK, Watcher
<1> QED  BY <1>1, <1>2, <1>3, <1>4, <1>5, <1>6, <1>7, <1>8, <1>9, <1>10,
            <1>11, <1>12 DEF WatcherStep

LEMMA ServerTypes ==
    TypeOK /\ (ServerStep \/ ListingChanges \/ DirectoryChanges
               \/ \E c \in Subscribers : Subscribe(c) \/ Unsubscribe(c)) => TypeOK'
<1> SUFFICES ASSUME TypeOK,
                    ServerStep \/ ListingChanges \/ DirectoryChanges
                    \/ \E c \in Subscribers : Subscribe(c) \/ Unsubscribe(c)
             PROVE  TypeOK'
  OBVIOUS
<1> USE DEF environment, reports, main
<1>1. CASE ServerStep
  <2>1. CASE BeginShutdown
    BY <2>1 DEF BeginShutdown, TypeOK
  <2>2. CASE PersistRuntimeState
    BY <2>2 DEF PersistRuntimeState, TypeOK
  <2>3. CASE Exit
    BY <2>3, WatcherTypes DEF Exit, TypeOK
  <2> QED  BY <1>1, <2>1, <2>2, <2>3 DEF ServerStep
<1>2. CASE ListingChanges
  BY <1>2 DEF ListingChanges, TypeOK
<1>3. CASE DirectoryChanges
  BY <1>3 DEF DirectoryChanges, TypeOK
<1>4. ASSUME NEW c \in Subscribers, Subscribe(c) \/ Unsubscribe(c)
      PROVE  TypeOK'
  BY <1>4 DEF Subscribe, Unsubscribe, TypeOK
<1> QED  BY <1>1, <1>2, <1>3, <1>4

LEMMA TypeStep == TypeOK /\ Registry /\ [Next]_vars => TypeOK'
<1> SUFFICES ASSUME TypeOK, Registry, [Next]_vars PROVE TypeOK'
  OBVIOUS
<1>1. CASE UNCHANGED vars
  BY <1>1 DEF vars, environment, reports, main, TypeOK
<1>2. CASE Next
  BY <1>2, DiscoveryTypes, WatcherStepTypes, ServerTypes DEF Next
<1> QED  BY <1>1, <1>2

-----------------------------------------------------------------------------
(* The registry of active watchers.  Three actions change it; every other   *)
(* one leaves the tasks and their projects where they were.                 *)

SamePlaces ==
    /\ UNCHANGED activeWatchers
    /\ \A t \in Tasks : /\ watcher'[t].project = watcher[t].project
                        /\ Busy(t)' <=> Busy(t)

LEMMA SamePlacesKeepRegistry ==
    Registry /\ AtMostOneWatcher /\ SamePlaces => (Registry /\ AtMostOneWatcher)'
BY DEF Registry, AtMostOneWatcher, SamePlaces

LEMMA WatcherStepStays ==
    ASSUME TypeOK, NEW t \in Tasks, ~Leave(t),
           WatcherStep(t) \/ Receive(t) \/ ChannelClosed(t) \/ FileEvent(t)
    PROVE  SamePlaces
<1>1. /\ UNCHANGED activeWatchers
      /\ Busy(t)
      /\ watcher'[t].project = watcher[t].project
      /\ watcher'[t].pc # "idle"
      /\ \A u \in Tasks \ {t} : watcher'[u] = watcher[u]
  <2> USE DEF At, Busy, TypeOK, Watcher, Watching
  <2>1. CASE StartWatching(t)
    BY <2>1 DEF StartWatching, Goto
  <2>2. CASE StartFails(t)
    BY <2>2 DEF StartFails, Goto
  <2>3. CASE CheckShutdown(t)
    BY <2>3 DEF CheckShutdown, Stop, Goto
  <2>4. CASE TimeOut(t)
    BY <2>4 DEF TimeOut, Goto
  <2>5. CASE SetTelemetryDepth(t)
    BY <2>5 DEF SetTelemetryDepth, Goto
  <2>6. CASE NextPath(t)
    BY <2>6 DEF NextPath, Goto
  <2>7. CASE UpdateEnds(t)
    BY <2>7 DEF UpdateEnds, Goto
  <2>8. CASE Report(t)
    BY <2>8 DEF Report, MarkActive, SetQueueDepth, MarkIndexed,
                ResetQueueDepth, MarkUpdateError, MarkStartError, MarkInactive,
                Goto
  <2>9. CASE Receive(t)
    <3>1. PICK n \in 0..MaxPaths :
            watcher' = [watcher EXCEPT ![t].pc = "depth", ![t].paths = n,
                                       ![t].queue = @ - 1]
      BY <2>9 DEF Receive
    <3>2. watcher'[t] = [watcher[t] EXCEPT !.pc = "depth", !.paths = n,
                                           !.queue = @ - 1]
      BY <3>1
    <3>3. watcher'[t].project = watcher[t].project /\ watcher'[t].pc = "depth"
      BY <3>2
    <3>4. watcher[t].pc = "recv" /\ UNCHANGED activeWatchers
      BY <2>9 DEF Receive
    <3> QED  BY <3>1, <3>3, <3>4
  <2>10. CASE ChannelClosed(t)
    BY <2>10 DEF ChannelClosed, Stop
  <2>11. CASE FileEvent(t)
    BY <2>11 DEF FileEvent
  <2> QED  BY <2>1, <2>2, <2>3, <2>4, <2>5, <2>6, <2>7, <2>8, <2>9, <2>10,
              <2>11 DEF WatcherStep
<1> QED  BY <1>1 DEF SamePlaces, Busy, TypeOK

LEMMA RegistryInit == Init => Registry /\ AtMostOneWatcher
BY DEF Init, Registry, AtMostOneWatcher, Busy, IdleWatcher

LEMMA RegistryStep ==
    TypeOK /\ Registry /\ AtMostOneWatcher /\ [Next]_vars
        => (Registry /\ AtMostOneWatcher)'
<1> SUFFICES ASSUME TypeOK, Registry, AtMostOneWatcher, [Next]_vars
             PROVE  (Registry /\ AtMostOneWatcher)'
  OBVIOUS
<1>1. ASSUME NEW p \in Projects, NEW t \in Tasks, SpawnWatcher(p, t)
      PROVE  (Registry /\ AtMostOneWatcher)'
  <2>1. /\ activeWatchers' = activeWatchers \union {p}
        /\ watcher'[t].project = p /\ watcher'[t].pc = "start"
        /\ \A u \in Tasks \ {t} : watcher'[u] = watcher[u]
    BY <1>1 DEF SpawnWatcher, TypeOK, Watcher, IdleWatcher
  <2>2. ~Busy(t) /\ p \notin activeWatchers
    BY <1>1 DEF SpawnWatcher, Busy
  <2>3. Registry'
    BY <2>1, <2>2 DEF Registry, Busy
  <2>4. AtMostOneWatcher'
    BY <2>1, <2>2 DEF Registry, AtMostOneWatcher, Busy
  <2> QED  BY <2>3, <2>4
<1>2. ASSUME NEW t \in Tasks, Leave(t)
      PROVE  (Registry /\ AtMostOneWatcher)'
  <2>1. /\ activeWatchers' = activeWatchers \ {watcher[t].project}
        /\ watcher'[t].pc = "idle"
        /\ \A u \in Tasks \ {t} : watcher'[u] = watcher[u]
    BY <1>2 DEF Leave, TypeOK, IdleWatcher
  <2>2. Busy(t)
    BY <1>2 DEF Leave, At, Busy
  <2>3. Registry'
    BY <2>1, <2>2 DEF Registry, AtMostOneWatcher, Busy
  <2>4. AtMostOneWatcher'
    BY <2>1 DEF AtMostOneWatcher, Busy
  <2> QED  BY <2>3, <2>4
<1>3. CASE Exit
  BY <1>3 DEF Exit, Registry, AtMostOneWatcher, Busy, IdleWatcher
<1>4. ASSUME NEW t \in Tasks, ~Leave(t),
             WatcherStep(t) \/ Receive(t) \/ ChannelClosed(t) \/ FileEvent(t)
      PROVE  (Registry /\ AtMostOneWatcher)'
  BY <1>4, WatcherStepStays, SamePlacesKeepRegistry
<1>5. CASE UNCHANGED <<activeWatchers, watcher>>
  BY <1>5, SamePlacesKeepRegistry DEF SamePlaces, Busy
<1>6. CASE UNCHANGED vars
  BY <1>5, <1>6 DEF vars
<1>7. CASE Next
  <2>1. CASE DiscoveryStep
    <3>1. (Discover \/ EndRound \/ \E p \in Projects : SkipProject(p))
                => UNCHANGED <<activeWatchers, watcher>>
      BY DEF Discover, EndRound, SkipProject
    <3> QED  BY <1>1, <1>5, <2>1, <3>1 DEF DiscoveryStep
  <2>2. CASE ServerStep
    <3>1. BeginShutdown \/ PersistRuntimeState
                => UNCHANGED <<activeWatchers, watcher>>
      BY DEF BeginShutdown, PersistRuntimeState
    <3> QED  BY <1>3, <1>5, <2>2, <3>1 DEF ServerStep
  <2>3. CASE \/ ListingChanges \/ DirectoryChanges
             \/ \E c \in Subscribers : Subscribe(c) \/ Unsubscribe(c)
    <3>1. UNCHANGED <<activeWatchers, watcher>>
      BY <2>3 DEF ListingChanges, DirectoryChanges, Subscribe, Unsubscribe
    <3> QED  BY <1>5, <3>1
  <2> QED  BY <1>2, <1>4, <1>7, <2>1, <2>2, <2>3 DEF Next
<1> QED  BY <1>6, <1>7

(* Type correctness and the registry support each other.                    *)
THEOREM TypeCorrect == Spec => []TypeOK
<1> DEFINE Inv == TypeOK /\ Registry /\ AtMostOneWatcher
<1>1. Init => Inv
  BY TypeInit, RegistryInit
<1>2. Inv /\ [Next]_vars => Inv'
  BY TypeStep, RegistryStep
<1> QED  BY <1>1, <1>2, PTL DEF Spec

(* No project is ever watched by two tasks.                                 *)
THEOREM OneWatcherPerProject == Spec => []AtMostOneWatcher
<1> DEFINE Inv == TypeOK /\ Registry /\ AtMostOneWatcher
<1>1. Init => Inv
  BY TypeInit, RegistryInit
<1>2. Inv /\ [Next]_vars => Inv'
  BY TypeStep, RegistryStep
<1> QED  BY <1>1, <1>2, PTL DEF Spec

-----------------------------------------------------------------------------
(* The reported status.  A step that changes no status must not let a task  *)
(* enter the phases in which it is to be reported, nor leave those in which *)
(* it may be.                                                               *)

Claimed == Reporting \union {"inactive"}

SameClaims ==
    /\ UNCHANGED status
    /\ \A t \in Tasks :
        /\ watcher'[t].pc \in Reporting => /\ watcher[t].pc \in Reporting
                                          /\ watcher'[t].project = watcher[t].project
        /\ watcher[t].pc \in Claimed => /\ watcher'[t].pc \in Claimed
                                       /\ watcher'[t].project = watcher[t].project

LEMMA SameClaimsKeepStatus ==
    ASSUME StatusTracksWatcher, SameClaims, Running' => Running
    PROVE  StatusTracksWatcher'
BY DEF StatusTracksWatcher, SameClaims, Claimed

LEMMA WatcherStepClaims ==
    ASSUME TypeOK, NEW t \in Tasks, ~Report(t),
           WatcherStep(t) \/ Receive(t) \/ ChannelClosed(t) \/ FileEvent(t)
    PROVE  SameClaims
<1>1. /\ UNCHANGED status
      /\ \A u \in Tasks \ {t} : watcher'[u] = watcher[u]
      /\ watcher'[t].pc \in Reporting => /\ watcher[t].pc \in Reporting
                                        /\ watcher'[t].project = watcher[t].project
      /\ watcher[t].pc \in Claimed => /\ watcher'[t].pc \in Claimed
                                     /\ watcher'[t].project = watcher[t].project
  <2> USE DEF At, reports, TypeOK, Watcher, Watching, Reporting, Claimed
  <2>1. CASE StartWatching(t)
    BY <2>1 DEF StartWatching, Goto
  <2>2. CASE StartFails(t)
    BY <2>2 DEF StartFails, Goto
  <2>3. CASE CheckShutdown(t)
    BY <2>3 DEF CheckShutdown, Stop, Goto
  <2>4. CASE TimeOut(t)
    BY <2>4 DEF TimeOut, Goto
  <2>5. CASE SetTelemetryDepth(t)
    BY <2>5 DEF SetTelemetryDepth, Goto
  <2>6. CASE NextPath(t)
    BY <2>6 DEF NextPath, Goto
  <2>7. CASE UpdateEnds(t)
    BY <2>7 DEF UpdateEnds, Goto
  <2>8. CASE Leave(t)
    BY <2>8 DEF Leave, IdleWatcher
  <2>9. CASE Receive(t)
    <3>1. PICK n \in 0..MaxPaths :
              watcher' = [watcher EXCEPT ![t].pc = "depth", ![t].paths = n,
                                         ![t].queue = watcher[t].queue - 1]
      BY <2>9 DEF Receive
    <3>2. watcher[t].pc = "recv" /\ UNCHANGED status
      BY <2>9 DEF Receive
    <3> QED  BY <3>1, <3>2
  <2>10. CASE ChannelClosed(t)
    BY <2>10 DEF ChannelClosed, Stop
  <2>11. CASE FileEvent(t)
    BY <2>11 DEF FileEvent
  <2> QED  BY <2>1, <2>2, <2>3, <2>4, <2>5, <2>6, <2>7, <2>8, <2>9, <2>10,
              <2>11 DEF WatcherStep
<1> QED  BY <1>1 DEF SameClaims

LEMMA ReportKeepsStatus ==
    ASSUME TypeOK, Registry, AtMostOneWatcher, StatusTracksWatcher,
           NEW t \in Tasks, Report(t)
    PROVE  StatusTracksWatcher'
<1> DEFINE p == watcher[t].project
<1>1. Busy(t) /\ p \in Projects
  BY BusyHasProject DEF Report, MarkActive, SetQueueDepth, MarkIndexed,
     ResetQueueDepth, MarkUpdateError, MarkStartError, MarkInactive, At, Busy
<1>2. Running /\ (Running' => Running)
  BY DEF Report, MarkActive, SetQueueDepth, MarkIndexed,
     ResetQueueDepth, MarkUpdateError, MarkStartError, MarkInactive, At
<1>3. ASSUME NEW pc \in Phases, Goto(t, pc)
      PROVE  /\ watcher'[t].pc = pc /\ watcher'[t].project = p
             /\ \A u \in Tasks \ {t} : watcher'[u] = watcher[u]
  BY <1>3 DEF Goto, TypeOK, Watcher
<1>4. \A u \in Tasks \ {t} :
        watcher[u].pc \in Claimed => watcher[u].project # p
  BY <1>1 DEF AtMostOneWatcher, Busy, Claimed, Reporting, Watching
<1>5. CASE MarkActive(t)
  <2>1. /\ status'[p].active
        /\ \A q \in Projects \ {p} : status'[q] = status[q]
    BY <1>1, <1>5 DEF MarkActive, TypeOK, Status
  <2>2. /\ watcher[t].pc = "register" /\ watcher'[t].pc = "loop"
        /\ watcher'[t].project = p
        /\ \A u \in Tasks \ {t} : watcher'[u] = watcher[u]
    BY <1>3, <1>5 DEF MarkActive, At, Phases, Watching
  <2>3. ASSUME NEW u \in Tasks, watcher'[u].pc \in Reporting
        PROVE  status'[watcher'[u].project].active
    <3>1. CASE u = t
      BY <2>1, <2>2, <3>1
    <3>2. CASE u # t
      <4>1. watcher[u].project # p /\ watcher[u].project \in Projects
        BY <1>4, <2>2, <2>3, <3>2, BusyHasProject
        DEF Busy, Claimed, Reporting, Watching
      <4> QED  BY <1>2, <2>1, <2>2, <2>3, <3>2, <4>1 DEF StatusTracksWatcher
    <3> QED  BY <3>1, <3>2
  <2>4. ASSUME NEW q \in Projects, status'[q].active
        PROVE  \E u \in Tasks : /\ watcher'[u].project = q
                                /\ watcher'[u].pc \in Claimed
    <3>1. CASE q = p
      BY <2>2, <3>1 DEF Claimed, Reporting, Watching
    <3>2. CASE q # p
      <4>1. PICK u \in Tasks : watcher[u].project = q /\ watcher[u].pc \in Claimed
        BY <1>2, <2>1, <2>4, <3>2 DEF StatusTracksWatcher, Claimed
      <4> QED  BY <2>2, <3>2, <4>1
    <3> QED  BY <3>1, <3>2
  <2> QED  BY <2>3, <2>4 DEF StatusTracksWatcher, Claimed
<1>6. CASE MarkInactive(t)
  <2>1. /\ ~status'[p].active
        /\ \A q \in Projects \ {p} : status'[q] = status[q]
    BY <1>1, <1>6 DEF MarkInactive, TypeOK, Status
  <2>2. /\ watcher[t].pc = "inactive" /\ watcher'[t].pc = "leave"
        /\ watcher'[t].project = p
        /\ \A u \in Tasks \ {t} : watcher'[u] = watcher[u]
    BY <1>3, <1>6 DEF MarkInactive, At, Phases
  <2>3. ASSUME Running', NEW u \in Tasks, watcher'[u].pc \in Reporting
        PROVE  status'[watcher'[u].project].active
    <3>1. u # t /\ watcher'[u] = watcher[u] /\ watcher[u].project # p
      BY <1>4, <2>2, <2>3 DEF Claimed, Reporting, Watching
    <3>2. watcher[u].project \in Projects
      BY <2>3, <3>1, BusyHasProject DEF Busy, Reporting, Watching
    <3> QED  BY <1>2, <2>1, <2>3, <3>1, <3>2 DEF StatusTracksWatcher
  <2>4. ASSUME Running', NEW q \in Projects, status'[q].active
        PROVE  \E u \in Tasks : /\ watcher'[u].project = q
                                /\ watcher'[u].pc \in Claimed
    <3>1. q # p /\ status[q].active
      BY <2>1, <2>4
    <3>2. PICK u \in Tasks : watcher[u].project = q /\ watcher[u].pc \in Claimed
      BY <1>2, <3>1 DEF StatusTracksWatcher, Claimed
    <3> QED  BY <2>2, <3>1, <3>2
  <2> QED  BY <2>3, <2>4 DEF StatusTracksWatcher, Claimed
<1>7. CASE \/ SetQueueDepth(t) \/ MarkIndexed(t) \/ ResetQueueDepth(t)
           \/ MarkUpdateError(t) \/ MarkStartError(t)
  <2>1. \A q \in Projects : status'[q].active = status[q].active
    <3>1. CASE SetQueueDepth(t)
      <4>1. PICK n \in 0..watcher[t].queue :
                status' = [status EXCEPT ![p].depth = n]
        BY <3>1 DEF SetQueueDepth
      <4> QED  BY <4>1, <1>1 DEF TypeOK, Status
    <3>2. CASE ~SetQueueDepth(t)
      BY <1>1, <1>7, <3>2 DEF MarkIndexed, ResetQueueDepth, MarkUpdateError,
         MarkStartError, TypeOK, Status
    <3> QED  BY <3>1, <3>2
  <2>2. /\ watcher'[t].project = p
        /\ \A u \in Tasks \ {t} : watcher'[u] = watcher[u]
        /\ \/ watcher[t].pc \in Reporting /\ watcher'[t].pc \in Reporting
           \/ watcher[t].pc = "failed" /\ watcher'[t].pc = "inactive"
    <3>1. {"telemetry", "reset", "paths", "inactive"} \subseteq Phases
      BY DEF Phases, Watching
    <3> QED  BY <1>3, <1>7, <3>1
             DEF SetQueueDepth, MarkIndexed, ResetQueueDepth, MarkUpdateError,
                 MarkStartError, At, Reporting, Watching
  <2>3. \A u \in Tasks : watcher'[u].pc \in Reporting =>
            /\ watcher[u].pc \in Reporting
            /\ watcher'[u].project = watcher[u].project
            /\ watcher[u].project \in Projects
    BY <2>2, BusyHasProject DEF Busy, Reporting, Watching
  <2>4. \A u \in Tasks : watcher[u].pc \in Claimed =>
            /\ watcher'[u].pc \in Claimed
            /\ watcher'[u].project = watcher[u].project
    BY <2>2 DEF Claimed, Reporting, Watching
  <2> QED  BY <1>2, <2>1, <2>3, <2>4 DEF StatusTracksWatcher, Claimed
<1> QED  BY <1>5, <1>6, <1>7 DEF Report

LEMMA StatusInit == Init => StatusTracksWatcher
BY DEF Init, StatusTracksWatcher, IdleWatcher, NoStatus, Reporting, Watching

LEMMA StatusStep ==
    ASSUME TypeOK, Registry, AtMostOneWatcher, StatusTracksWatcher, [Next]_vars
    PROVE  StatusTracksWatcher'
<1>1. ASSUME UNCHANGED <<watcher, status>>, Running' => Running
      PROVE  StatusTracksWatcher'
  BY <1>1, SameClaimsKeepStatus DEF SameClaims
<1>2. ASSUME NEW t \in Tasks,
             WatcherStep(t) \/ Receive(t) \/ ChannelClosed(t) \/ FileEvent(t)
      PROVE  StatusTracksWatcher'
  <2>1. CASE Report(t)
    BY <2>1, ReportKeepsStatus
  <2>2. CASE ~Report(t)
    <3>1. Running
      BY <1>2, <2>2 DEF WatcherStep, StartWatching, StartFails, CheckShutdown,
         TimeOut, SetTelemetryDepth, NextPath, UpdateEnds, Leave, Receive,
         ChannelClosed, FileEvent, At
    <3> QED  BY <1>2, <2>2, <3>1, WatcherStepClaims, SameClaimsKeepStatus
  <2> QED  BY <2>1, <2>2
<1>3. ASSUME NEW p \in Projects, NEW t \in Tasks, SpawnWatcher(p, t)
      PROVE  StatusTracksWatcher'
  <2>1. SameClaims
    BY <1>3 DEF SpawnWatcher, SameClaims, reports, TypeOK, Watcher, IdleWatcher,
       Claimed, Reporting, Watching
  <2>2. Running
    BY <1>3 DEF SpawnWatcher
  <2> QED  BY <2>1, <2>2, SameClaimsKeepStatus
<1>4. CASE Exit
  BY <1>4 DEF Exit, Running, StatusTracksWatcher
<1>5. CASE UNCHANGED vars
  BY <1>1, <1>5 DEF vars, reports, main, Running
<1>6. CASE Next
  <2>1. CASE DiscoveryStep
    <3>1. Discover \/ EndRound \/ (\E p \in Projects : SkipProject(p))
            => UNCHANGED <<watcher, status>> /\ Running
      BY DEF Discover, EndRound, SkipProject, reports
    <3> QED  BY <1>1, <1>3, <2>1, <3>1 DEF DiscoveryStep
  <2>2. CASE ServerStep
    <3>1. BeginShutdown \/ PersistRuntimeState
            => UNCHANGED <<watcher, status>> /\ Running
      BY DEF BeginShutdown, PersistRuntimeState, reports, Running
    <3> QED  BY <1>1, <1>4, <2>2, <3>1 DEF ServerStep
  <2>3. CASE \/ ListingChanges \/ DirectoryChanges
             \/ \E c \in Subscribers : Subscribe(c) \/ Unsubscribe(c)
    <3>1. UNCHANGED <<watcher, status, server>>
      BY <2>3 DEF ListingChanges, DirectoryChanges, Subscribe, Unsubscribe,
         reports, main
    <3> QED  BY <1>1, <3>1 DEF Running
  <2> QED  BY <1>2, <1>6, <2>1, <2>2, <2>3 DEF Next
<1> QED  BY <1>5, <1>6

-----------------------------------------------------------------------------
(* The reported backlog *)

(* What stands for a depth that is reported.                                *)
Explains(t) == watcher[t].queue # 0 \/ watcher[t].pc = "depth"
ExplainsShared(t) ==
    watcher[t].queue # 0 \/ watcher[t].pc \in {"depth", "telemetry"}

EmptyOutside == \A t \in Tasks : watcher[t].pc \notin Watching => watcher[t].queue = 0

(* A step that reports no depth must keep every explanation.                *)
SameExplanations ==
    /\ UNCHANGED <<shuttingDown, server, telemetryDepth>>
    /\ \A p \in Projects : status'[p].depth = status[p].depth
    /\ ~shuttingDown =>
        \A t \in Tasks :
            /\ ExplainsShared(t) => ExplainsShared(t)'
            /\ Explains(t) => /\ Explains(t)'
                             /\ watcher'[t].project = watcher[t].project

LEMMA SameExplanationsKeepBacklog ==
    ASSUME Backlog, SameExplanations, EmptyOutside'
    PROVE  Backlog'
BY DEF Backlog, SameExplanations, EmptyOutside, Explains, ExplainsShared

LEMMA WatcherStepExplains ==
    ASSUME TypeOK, Backlog, NEW t \in Tasks,
           ~SetTelemetryDepth(t), ~Report(t),
           WatcherStep(t) \/ Receive(t) \/ ChannelClosed(t) \/ FileEvent(t)
    PROVE  SameExplanations /\ EmptyOutside'
<1>1. /\ UNCHANGED <<shuttingDown, server, telemetryDepth, status>>
      /\ \A u \in Tasks \ {t} : watcher'[u] = watcher[u]
      /\ watcher'[t].pc \notin Watching => watcher'[t].queue = 0
      /\ ~shuttingDown =>
            /\ ExplainsShared(t) => ExplainsShared(t)'
            /\ Explains(t) => /\ Explains(t)'
                             /\ watcher'[t].project = watcher[t].project
  <2> USE DEF At, reports, main, TypeOK, Watcher, Watching, Explains,
              ExplainsShared
  <2>1. CASE StartWatching(t)
    BY <2>1 DEF StartWatching, Goto, Backlog
  <2>2. CASE StartFails(t)
    BY <2>2 DEF StartFails, Goto, Backlog
  <2>3. CASE CheckShutdown(t)
    BY <2>3 DEF CheckShutdown, Stop, Goto
  <2>4. CASE TimeOut(t)
    BY <2>4 DEF TimeOut, Goto
  <2>5. CASE NextPath(t)
    BY <2>5 DEF NextPath, Goto
  <2>6. CASE UpdateEnds(t)
    BY <2>6 DEF UpdateEnds, Goto
  <2>7. CASE Leave(t)
    BY <2>7 DEF Leave, IdleWatcher, Backlog
  <2>8. CASE Receive(t)
    <3>1. PICK n \in 0..MaxPaths :
              watcher' = [watcher EXCEPT ![t].pc = "depth", ![t].paths = n,
                                         ![t].queue = watcher[t].queue - 1]
      BY <2>8 DEF Receive
    <3>2. UNCHANGED <<shuttingDown, server, telemetryDepth, status>>
      BY <2>8 DEF Receive
    <3> QED  BY <3>1, <3>2
  <2>9. CASE ChannelClosed(t)
    BY <2>9 DEF ChannelClosed, Stop
  <2>10. CASE FileEvent(t)
    <3>1. watcher[t].queue \in 0..Capacity /\ Capacity \in Nat
      BY WatchersAssumption
    <3>2. watcher[t].queue + 1 # 0
      BY <3>1
    <3> QED  BY <2>10, <3>2 DEF FileEvent
  <2> QED  BY <2>1, <2>2, <2>3, <2>4, <2>5, <2>6, <2>7, <2>8, <2>9, <2>10
           DEF WatcherStep
<1>2. EmptyOutside'
  BY <1>1 DEF EmptyOutside, Backlog
<1> QED  BY <1>1, <1>2 DEF SameExplanations, Explains, ExplainsShared

LEMMA ReportExplains ==
    ASSUME TypeOK, Registry, Backlog, NEW t \in Tasks,
           Report(t) \/ SetTelemetryDepth(t)
    PROVE  Backlog'
<1> DEFINE p == watcher[t].project
<1>1. p \in Projects
  BY BusyHasProject DEF Report, MarkActive, SetQueueDepth, MarkIndexed,
     ResetQueueDepth, MarkUpdateError, MarkStartError, MarkInactive,
     SetTelemetryDepth, At, Busy
<1>2. UNCHANGED <<shuttingDown, server>>
  BY DEF Report, MarkActive, SetQueueDepth, MarkIndexed, ResetQueueDepth,
     MarkUpdateError, MarkStartError, MarkInactive, SetTelemetryDepth, main
<1>3. ASSUME NEW pc \in Phases, Goto(t, pc)
      PROVE  /\ watcher'[t].pc = pc /\ watcher'[t].project = p
             /\ watcher'[t].queue = watcher[t].queue
             /\ \A u \in Tasks \ {t} : watcher'[u] = watcher[u]
  BY <1>3 DEF Goto, TypeOK, Watcher
<1>4. {"loop", "telemetry", "reset", "paths", "inactive", "leave"} \subseteq Phases
  BY DEF Phases, Watching
<1>5. CASE SetQueueDepth(t)
  <2>1. /\ watcher[t].pc = "depth" /\ watcher'[t].pc = "telemetry"
        /\ watcher'[t].project = p /\ watcher'[t].queue = watcher[t].queue
        /\ \A u \in Tasks \ {t} : watcher'[u] = watcher[u]
    BY <1>3, <1>4, <1>5 DEF SetQueueDepth, At
  <2>2. /\ status'[p].depth \in 0..watcher[t].queue
        /\ \A q \in Projects \ {p} : status'[q].depth = status[q].depth
        /\ telemetryDepth' = telemetryDepth
    BY <1>1, <1>5 DEF SetQueueDepth, TypeOK, Status
  <2>3. \A u \in Tasks : watcher'[u].pc \notin Watching => watcher'[u].queue = 0
    BY <2>1 DEF Backlog, Watching
  <2>4. ASSUME ~shuttingDown, NEW q \in Projects, status'[q].depth # 0
        PROVE  \E u \in Tasks : watcher'[u].project = q /\ Explains(u)'
    <3>1. CASE q = p
      <4>1. watcher[t].queue # 0
        BY <2>2, <2>4, <3>1
      <4> QED  BY <2>1, <3>1, <4>1 DEF Explains
    <3>2. CASE q # p
      <4>1. PICK u \in Tasks : watcher[u].project = q /\ Explains(u)
        BY <2>2, <2>4, <3>2 DEF Backlog, Explains
      <4> QED  BY <2>1, <3>2, <4>1 DEF Explains
    <3> QED  BY <3>1, <3>2
  <2>5. ASSUME ~shuttingDown, telemetryDepth' # 0
        PROVE  \E u \in Tasks : ExplainsShared(u)'
    BY <2>1 DEF ExplainsShared
  <2> QED  BY <1>2, <2>3, <2>4, <2>5 DEF Backlog, Explains, ExplainsShared
<1>6. CASE SetTelemetryDepth(t)
  <2>1. /\ watcher[t].pc = "telemetry" /\ watcher'[t].pc = "paths"
        /\ watcher'[t].project = p /\ watcher'[t].queue = watcher[t].queue
        /\ \A u \in Tasks \ {t} : watcher'[u] = watcher[u]
    BY <1>3, <1>4, <1>6 DEF SetTelemetryDepth, At
  <2>2. telemetryDepth' = watcher[t].queue /\ UNCHANGED status
    BY <1>6 DEF SetTelemetryDepth
  <2>3. \A u \in Tasks : watcher'[u].pc \notin Watching => watcher'[u].queue = 0
    BY <2>1 DEF Backlog, Watching
  <2>4. \A u \in Tasks : Explains(u) => /\ Explains(u)'
                                       /\ watcher'[u].project = watcher[u].project
    BY <2>1 DEF Explains
  <2>5. telemetryDepth' # 0 => ExplainsShared(t)'
    BY <2>1, <2>2 DEF ExplainsShared
  <2> QED  BY <1>2, <2>2, <2>3, <2>4, <2>5 DEF Backlog, Explains, ExplainsShared
<1>7. CASE ResetQueueDepth(t)
  <2>1. /\ watcher[t].pc = "reset" /\ watcher'[t].pc = "paths"
        /\ watcher'[t].project = p /\ watcher'[t].queue = watcher[t].queue
        /\ \A u \in Tasks \ {t} : watcher'[u] = watcher[u]
    BY <1>3, <1>4, <1>7 DEF ResetQueueDepth, At
  <2>2. /\ status'[p].depth = 0
        /\ \A q \in Projects \ {p} : status'[q].depth = status[q].depth
        /\ telemetryDepth' = telemetryDepth
    BY <1>1, <1>7 DEF ResetQueueDepth, TypeOK, Status
  <2>3. \A u \in Tasks : watcher'[u].pc \notin Watching => watcher'[u].queue = 0
    BY <2>1 DEF Backlog, Watching
  <2>4. \A u \in Tasks :
            /\ Explains(u) => Explains(u)' /\ watcher'[u].project = watcher[u].project
            /\ ExplainsShared(u) => ExplainsShared(u)'
    BY <2>1 DEF Explains, ExplainsShared
  <2>5. \A q \in Projects : status'[q].depth # 0 => status[q].depth # 0
    BY <2>2
  <2> QED  BY <1>2, <2>2, <2>3, <2>4, <2>5 DEF Backlog, Explains, ExplainsShared
<1>8. CASE \/ MarkActive(t) \/ MarkIndexed(t) \/ MarkUpdateError(t)
           \/ MarkStartError(t) \/ MarkInactive(t)
  <2>1. /\ watcher[t].pc \notin {"depth", "telemetry"}
        /\ watcher'[t].pc \notin Watching => watcher[t].pc \notin Watching
        /\ watcher'[t].project = p /\ watcher'[t].queue = watcher[t].queue
        /\ \A u \in Tasks \ {t} : watcher'[u] = watcher[u]
    BY <1>3, <1>4, <1>8 DEF MarkActive, MarkIndexed, MarkUpdateError,
       MarkStartError, MarkInactive, At, Watching
  <2>2. /\ \A q \in Projects : status'[q].depth = status[q].depth
        /\ telemetryDepth' = telemetryDepth
    BY <1>1, <1>8 DEF MarkActive, MarkIndexed, MarkUpdateError, MarkStartError,
       MarkInactive, TypeOK, Status
  <2>3. EmptyOutside'
    BY <2>1 DEF EmptyOutside, Backlog
  <2>4. SameExplanations
    BY <1>2, <2>1, <2>2 DEF SameExplanations, Explains, ExplainsShared
  <2> QED  BY <2>3, <2>4, SameExplanationsKeepBacklog
<1> QED  BY <1>5, <1>6, <1>7, <1>8 DEF Report

LEMMA BacklogInit == Init => Backlog
BY DEF Init, Backlog, IdleWatcher, NoStatus

LEMMA BacklogStep ==
    ASSUME TypeOK, Registry, Backlog, [Next]_vars
    PROVE  Backlog'
<1>1. ASSUME UNCHANGED <<watcher, status, telemetryDepth, shuttingDown, server>>
      PROVE  Backlog'
  BY <1>1 DEF Backlog
<1>2. ASSUME NEW t \in Tasks,
             WatcherStep(t) \/ Receive(t) \/ ChannelClosed(t) \/ FileEvent(t)
      PROVE  Backlog'
  BY <1>2, WatcherStepExplains, ReportExplains, SameExplanationsKeepBacklog
<1>3. ASSUME NEW p \in Projects, NEW t \in Tasks, SpawnWatcher(p, t)
      PROVE  Backlog'
  <2>1. /\ watcher[t].queue = 0 /\ watcher[t].pc = "idle"
        /\ watcher'[t].queue = 0 /\ watcher'[t].pc = "start"
        /\ \A u \in Tasks \ {t} : watcher'[u] = watcher[u]
        /\ UNCHANGED <<reports, main>>
    BY <1>3 DEF SpawnWatcher, TypeOK, Watcher, IdleWatcher, Backlog, Watching
  <2>2. SameExplanations
    BY <2>1 DEF SameExplanations, Explains, ExplainsShared, reports, main
  <2>3. EmptyOutside'
    BY <2>1 DEF EmptyOutside, Backlog
  <2> QED  BY <2>2, <2>3, SameExplanationsKeepBacklog
<1>4. CASE BeginShutdown
  BY <1>4 DEF BeginShutdown, Backlog
<1>5. CASE PersistRuntimeState
  BY <1>5 DEF PersistRuntimeState, Backlog, reports
<1>6. CASE Exit
  BY <1>6 DEF Exit, Backlog, IdleWatcher, reports
<1>7. CASE UNCHANGED vars
  BY <1>1, <1>7 DEF vars, reports, main
<1>8. CASE Next
  <2>1. CASE DiscoveryStep
    <3>1. Discover \/ EndRound \/ (\E p \in Projects : SkipProject(p))
            => UNCHANGED <<watcher, status, telemetryDepth, shuttingDown, server>>
      BY DEF Discover, EndRound, SkipProject, reports, main
    <3> QED  BY <1>1, <1>3, <2>1, <3>1 DEF DiscoveryStep
  <2>2. CASE ServerStep
    BY <1>4, <1>5, <1>6, <2>2 DEF ServerStep
  <2>3. CASE \/ ListingChanges \/ DirectoryChanges
             \/ \E c \in Subscribers : Subscribe(c) \/ Unsubscribe(c)
    <3>1. UNCHANGED <<watcher, status, telemetryDepth, shuttingDown, server>>
      BY <2>3 DEF ListingChanges, DirectoryChanges, Subscribe, Unsubscribe,
         reports, main
    <3> QED  BY <1>1, <3>1
  <2> QED  BY <1>2, <1>8, <2>1, <2>2, <2>3 DEF Next
<1> QED  BY <1>7, <1>8

-----------------------------------------------------------------------------
(* The properties of the runs, for every instance *)

(* The inductive invariant.                                                 *)
THEOREM WatchersInvariant == Spec => []WatchersInv
<1>1. Init => WatchersInv
  BY TypeInit, RegistryInit, StatusInit, BacklogInit DEF WatchersInv
<1>2. WatchersInv /\ [Next]_vars => WatchersInv'
  BY TypeStep, RegistryStep, StatusStep, BacklogStep DEF WatchersInv
<1> QED  BY <1>1, <1>2, PTL DEF Spec

(* A reported watcher exists and an existing one is reported.               *)
THEOREM StatusIsTruthful == Spec => []StatusTracksWatcher
<1>1. WatchersInv => StatusTracksWatcher
  BY DEF WatchersInv
<1> QED  BY <1>1, WatchersInvariant, PTL

(* A server at rest reports empty queues.                                   *)
THEOREM NoPhantomBacklog == Spec => []IdleReportsNoBacklog
<1>1. WatchersInv => IdleReportsNoBacklog
  BY DEF WatchersInv, Backlog, IdleReportsNoBacklog, Quiet
<1> QED  BY <1>1, WatchersInvariant, PTL
=============================================================================
