--------------------------- MODULE VectorSyncProofs ---------------------------
(***************************************************************************)
(* Theorems about VectorSync, for any files, chunks, process runs and      *)
(* concurrent index actions, and any number of edits.                      *)
(***************************************************************************)
EXTENDS VectorSync, TLAPS

LEMMA ChunkIds ==
    ASSUME NEW f \in Files, NEW c \in Chunk
    PROVE  /\ RawId(f, c) \in ChunkId /\ StableId(f, c) \in ChunkId
           /\ \A g \in Files, d \in Chunk :
                /\ RawId(f, c) # StableId(g, d)
                /\ RawId(f, c) = RawId(g, d) => f = g
BY DEF RawId, StableId, ChunkId, Chunk

LEMMA PointsAreTyped ==
    ASSUME NEW k \in Keys, NEW f \in Files, NEW c \in Chunk
    PROVE  PointOf(k, f, c) \in Point
BY ChunkIds DEF PointOf, Point, Chunk

LEMMA ContentChunk ==
    ASSUME NEW content \in Content, NEW f \in FilesWithChunk(content)
    PROVE  f \in Files /\ content[f] \in Chunk
BY DEF Content, FilesWithChunk

(* The points of a project have different ids.                              *)
LEMMA PointsOfProject ==
    ASSUME NEW k \in Keys, NEW content \in Content
    PROVE  /\ PointsOf(k, content) \subseteq Point
           /\ \A p, q \in PointsOf(k, content) : SamePointId(p, q) => p = q
           /\ \A p \in PointsOf(k, content) : p.key = k
<1>1. PointsOf(k, content) \subseteq Point
  BY ContentChunk, PointsAreTyped DEF PointsOf
<1>2. ASSUME NEW p \in PointsOf(k, content), NEW q \in PointsOf(k, content),
             SamePointId(p, q)
      PROVE  p = q
  <2>1. PICK f \in FilesWithChunk(content) : p = PointOf(k, f, content[f])
    BY DEF PointsOf
  <2>2. PICK g \in FilesWithChunk(content) : q = PointOf(k, g, content[g])
    BY DEF PointsOf
  <2>3. RawId(f, content[f]) = RawId(g, content[g])
    BY <1>2, <2>1, <2>2 DEF SamePointId, PointOf
  <2>4. f = g
    BY <2>3, ContentChunk, ChunkIds
  <2> QED  BY <2>1, <2>2, <2>4
<1>3. ASSUME NEW p \in PointsOf(k, content) PROVE p.key = k
  BY DEF PointsOf, PointOf
<1> QED  BY <1>1, <1>2, <1>3

(* An upsert keeps ids unique, writes what it is given and loses nothing of *)
(* another run.                                                             *)
LEMMA UpsertKeeps ==
    ASSUME points \subseteq Point,
           \A p, q \in points : SamePointId(p, q) => p = q,
           NEW new, new \subseteq Point,
           \A p, q \in new : SamePointId(p, q) => p = q,
           NEW k, \A p \in new : p.key = k,
           Upserted(new)
    PROVE  /\ points' \subseteq Point
           /\ \A p, q \in points' : SamePointId(p, q) => p = q
           /\ exists /\ exists' = exists
           /\ new \subseteq points'
           /\ \A p \in points : p.key # k => p \in points'
BY DEF Upserted, SamePointId

-----------------------------------------------------------------------------
(* Types *)

LEMMA ServerFields ==
    ASSUME TypeOK
    PROVE  /\ server.key \in Keys /\ server.file \in Files \union {NoFile}
           /\ server.loaded \in Content \union {NoIndex}
           /\ server.pending \subseteq Files
           /\ server.added \in Chunk \union {NoChunk}
           /\ server.deleted \in Chunk \union {NoChunk}
           /\ server.pc \in {"idle", "loaded", "ensure", "delete", "upsert", "forget"}
BY DEF TypeOK, ServerState

LEMMA UiFields ==
    ASSUME TypeOK, NEW u \in UiTasks
    PROVE  /\ ui[u] \in UiTask
           /\ ui[u].chunks \in Content
           /\ ui[u].pc \in {"idle", "ensure", "upsert", "drop"}
BY DEF TypeOK, UiTask

LEMMA EmptyContent ==
    /\ Empty \in Content
    /\ FilesWithChunk(Empty) = {}
BY DEF Empty, Content, FilesWithChunk

(* The points of the watcher's update.                                      *)
LEMMA WatcherPoints ==
    ASSUME TypeOK, CallsHaveChunks, server.pc = "upsert"
    PROVE  /\ {PointOf(server.key, server.file, server.added)} \subseteq Point
           /\ \A p \in {PointOf(server.key, server.file, server.added)} :
                p.key = server.key
BY ServerFields, PointsAreTyped DEF PointOf, CallsHaveChunks

LEMMA TypeWatcher ==
    ASSUME TypeOK, CallsHaveChunks,
           \/ \E f \in Files : Edit(f) \/ LoadIndex(f)
           \/ SaveUpdate \/ WatcherEnsure \/ WatcherDelete \/ WatcherUpsert \/ RestartServer
    PROVE  TypeOK'
<1> USE ServerFields
<1>1. ASSUME NEW f \in Files, Edit(f) PROVE TypeOK'
  <2>1. edits' \in 0..MaxEdits
    BY <1>1, VectorAssumption DEF Edit, TypeOK
  <2>2. disk' \in Content
    BY <1>1 DEF Edit, TypeOK, Content
  <2>3. server' \in ServerState
    BY <1>1 DEF Edit, TypeOK, ServerState
  <2> QED  BY <1>1, <2>1, <2>2, <2>3 DEF Edit, TypeOK, collection
<1>2. ASSUME NEW f \in Files, LoadIndex(f) PROVE TypeOK'
  <2>1. disk[f] \in Chunk \union {NoChunk}
    BY DEF TypeOK, Content
  <2>2. server' \in ServerState
    BY <1>2, <2>1 DEF LoadIndex, TypeOK, ServerState
  <2>3. kept' \subseteq Point
    BY <1>2 DEF LoadIndex, TypeOK
  <2> QED  BY <1>2, <2>2, <2>3 DEF LoadIndex, TypeOK, collection, SamePointId
<1>7. CASE SaveUpdate
  <2>1. /\ server.file \in Files /\ server.loaded \in Content
    BY <1>7 DEF SaveUpdate, CallsHaveChunks
  <2>2. PICK c \in {server.added, disk[server.file]} :
          /\ stored' = [server.loaded EXCEPT ![server.file] = c]
          /\ \/ /\ server' = Calling([server EXCEPT !.loaded = NoIndex, !.added = c,
                                       !.deleted = server.loaded[server.file]])
                /\ disturbed' = (disturbed \/ stored # server.loaded)
             \/ server' = UpdateEnds(server) /\ disturbed' = TRUE
    BY <1>7 DEF SaveUpdate
  <2>3. /\ c \in Chunk \union {NoChunk}
        /\ server.loaded[server.file] \in Chunk \union {NoChunk}
    BY <2>1 DEF TypeOK, Content
  <2>4. stored' \in Content
    BY <2>1, <2>2, <2>3 DEF Content
  <2> DEFINE begun == [server EXCEPT !.loaded = NoIndex, !.added = c,
                                     !.deleted = server.loaded[server.file]]
  <2>5. begun \in ServerState
    BY <2>3 DEF TypeOK, ServerState
  <2>6. NextCall(begun) \in {"ensure", "forget", "idle"}
    BY DEF NextCall
  <2>7. UpdateEnds(server) \in ServerState
    BY DEF UpdateEnds, TypeOK, ServerState
  <2>8. Calling(begun) \in ServerState
    <3> HIDE DEF begun
    <3> QED  BY <2>5, <2>6 DEF ServerState, Calling, UpdateEnds
  <2>9. server' \in ServerState /\ disturbed' \in BOOLEAN
    BY <2>2, <2>7, <2>8 DEF TypeOK
  <2> QED  BY <1>7, <2>4, <2>9 DEF SaveUpdate, TypeOK, collection, SamePointId
<1>3. CASE WatcherEnsure
  <2>1. server' \in ServerState
    BY <1>3 DEF WatcherEnsure, UpdateEnds, TypeOK, ServerState
  <2> QED  BY <1>3, <2>1 DEF WatcherEnsure, Created, NothingDone, TypeOK, collection,
              SamePointId
<1>4. CASE WatcherDelete
  <2>1. server' \in ServerState
    BY <1>4 DEF WatcherDelete, UpdateEnds, TypeOK, ServerState
  <2>2. points' \subseteq points /\ exists' = exists
    BY <1>4 DEF WatcherDelete, Deleted, NothingDone, collection
  <2> QED  BY <1>4, <2>1, <2>2 DEF WatcherDelete, TypeOK, SamePointId
<1>5. CASE WatcherUpsert
  <2>1. server' \in ServerState
    BY <1>5 DEF WatcherUpsert, UpdateEnds, TypeOK, ServerState
  <2> DEFINE new == {PointOf(server.key, server.file, server.added)}
  <2>2. Upserted(new) \/ NothingDone
    BY <1>5 DEF WatcherUpsert
  <2>3. /\ points' \subseteq Point
        /\ \A p, q \in points' : SamePointId(p, q) => p = q
        /\ points' # {} => exists'
        /\ exists' \in BOOLEAN
    <3>1. CASE Upserted(new)
      <4>1. new \subseteq Point /\ \A p \in new : p.key = server.key
        BY <1>5, WatcherPoints DEF WatcherUpsert
      <4>2. \A p, q \in new : SamePointId(p, q) => p = q
        OBVIOUS
      <4> HIDE DEF new
      <4> QED  BY <3>1, <4>1, <4>2, UpsertKeeps DEF TypeOK
    <3>2. CASE NothingDone
      BY <3>2 DEF NothingDone, collection, TypeOK, SamePointId
    <3> QED  BY <2>2, <3>1, <3>2
  <2> QED  BY <1>5, <2>1, <2>3 DEF WatcherUpsert, TypeOK
<1>6. CASE RestartServer
  <2>1. server' \in ServerState /\ used' \subseteq Keys
    BY <1>6 DEF RestartServer, UpdateEnds, TypeOK, ServerState
  <2> QED  BY <1>6, <2>1 DEF RestartServer, TypeOK, collection, SamePointId
<1> QED  BY <1>1, <1>2, <1>3, <1>4, <1>5, <1>6, <1>7

LEMMA TypeUi ==
    ASSUME TypeOK,
           \/ \E u \in UiTasks : UiIndex(u) \/ UiEnsure(u) \/ UiUpsert(u) \/ UiClear(u)
                                 \/ UiDrop(u)
           \/ RestartUi \/ CliIndex \/ CliAdd \/ CliRemove
    PROVE  TypeOK'
<1> USE EmptyContent
<1>1. ASSUME NEW u \in UiTasks, UiIndex(u) PROVE TypeOK'
  <2>1. disk \in Content
    BY DEF TypeOK
  <2>2. ui' \in [UiTasks -> UiTask]
    <3>1. /\ [pc |-> "idle", chunks |-> Empty] \in UiTask
          /\ [pc |-> "ensure", chunks |-> disk] \in UiTask
      BY <2>1 DEF UiTask
    <3>2. \E t \in UiTask : ui' = [ui EXCEPT ![u] = t]
      BY <1>1, <3>1 DEF UiIndex
    <3> QED  BY <3>2 DEF TypeOK
  <2>3. disturbed' \in BOOLEAN
    BY <1>1 DEF UiIndex, TypeOK, Alone
  <2> QED  BY <1>1, <2>1, <2>2, <2>3 DEF UiIndex, TypeOK, collection, SamePointId
<1>2. ASSUME NEW u \in UiTasks, UiEnsure(u) PROVE TypeOK'
  <2>1. ui' \in [UiTasks -> UiTask]
    BY <1>2 DEF UiEnsure, UiEnds, TypeOK, UiTask
  <2> QED  BY <1>2, <2>1 DEF UiEnsure, Created, NothingDone, TypeOK, collection,
              SamePointId
<1>3. ASSUME NEW u \in UiTasks, UiUpsert(u) PROVE TypeOK'
  <2>1. ui' \in [UiTasks -> UiTask]
    BY <1>3 DEF UiUpsert, UiEnds, TypeOK, UiTask
  <2> DEFINE new == PointsOf(uiKey, ui[u].chunks)
  <2>2. Upserted(new) \/ NothingDone
    BY <1>3 DEF UiUpsert
  <2>3. /\ points' \subseteq Point
        /\ \A p, q \in points' : SamePointId(p, q) => p = q
        /\ points' # {} => exists'
        /\ exists' \in BOOLEAN
    <3>1. CASE Upserted(new)
      <4>1. uiKey \in Keys /\ ui[u].chunks \in Content
        BY UiFields DEF TypeOK
      <4>2. /\ new \subseteq Point
            /\ \A p, q \in new : SamePointId(p, q) => p = q
            /\ \A p \in new : p.key = uiKey
        BY <4>1, PointsOfProject
      <4> HIDE DEF new
      <4> QED  BY <3>1, <4>2, UpsertKeeps DEF TypeOK
    <3>2. CASE NothingDone
      BY <3>2 DEF NothingDone, collection, TypeOK, SamePointId
    <3> QED  BY <2>2, <3>1, <3>2
  <2>4. disturbed' \in BOOLEAN
    BY <1>3 DEF UiUpsert, TypeOK
  <2> QED  BY <1>3, <2>1, <2>3, <2>4 DEF UiUpsert, TypeOK
<1>4. ASSUME NEW u \in UiTasks, UiClear(u) PROVE TypeOK'
  <2>1. ui' \in [UiTasks -> UiTask]
    BY <1>4 DEF UiClear, UiEnds, TypeOK, UiTask
  <2>2. disturbed' \in BOOLEAN
    BY <1>4 DEF UiClear, TypeOK
  <2> QED  BY <1>4, <2>1, <2>2 DEF UiClear, TypeOK, collection, SamePointId
<1>5. ASSUME NEW u \in UiTasks, UiDrop(u) PROVE TypeOK'
  <2>1. ui' \in [UiTasks -> UiTask]
    BY <1>5 DEF UiDrop, UiEnds, TypeOK, UiTask
  <2>2. \/ exists' = FALSE /\ points' = {}
        \/ exists' = exists /\ points' = points
    BY <1>5 DEF UiDrop, NothingDone, collection
  <2>3. /\ UNCHANGED <<disk, edits, stored, used, server, uiKey, disturbed>>
        /\ kept' \subseteq Point
    BY <1>5 DEF UiDrop, OnTheirWay, TypeOK
  <2> QED  BY <2>1, <2>2, <2>3 DEF TypeOK, SamePointId
<1>6. CASE RestartUi
  <2>1. ui' \in [UiTasks -> UiTask]
    BY <1>6 DEF RestartUi, UiTask
  <2> QED  BY <1>6, <2>1 DEF RestartUi, Busy, TypeOK, collection, SamePointId
<1>7. CASE CliIndex
  BY <1>7 DEF CliIndex, TypeOK, collection, SamePointId
<1>8. CASE CliAdd
  BY <1>8 DEF CliAdd, Busy, TypeOK, collection, SamePointId
<1>9. CASE CliRemove
  BY <1>9 DEF CliRemove, TypeOK, collection, SamePointId
<1> QED  BY <1>1, <1>2, <1>3, <1>4, <1>5, <1>6, <1>7, <1>8, <1>9

-----------------------------------------------------------------------------
(* Keys and calls *)

LEMMA KeysStayApart ==
    ASSUME VectorInv, [Next]_vars
    PROVE  KeysApart'
<1> USE DEF KeysApart
<1>1. CASE UNCHANGED vars
  BY <1>1 DEF VectorInv, vars
<1>2. ASSUME NEW f \in Files, Edit(f) \/ LoadIndex(f) PROVE KeysApart'
  <2>1. server'.key = server.key
    BY <1>2 DEF Edit, LoadIndex, VectorInv, TypeOK, ServerState
  <2> QED  BY <1>2, <2>1 DEF Edit, LoadIndex, VectorInv
<1>8. CASE SaveUpdate
  <2>1. server'.key = server.key
    BY <1>8 DEF SaveUpdate, Calling, UpdateEnds, VectorInv, TypeOK, ServerState
  <2> QED  BY <1>8, <2>1 DEF SaveUpdate, VectorInv
<1>3. CASE WatcherEnsure \/ WatcherDelete \/ WatcherUpsert
  <2>1. server'.key = server.key
    BY <1>3 DEF WatcherEnsure, WatcherDelete, WatcherUpsert, UpdateEnds, VectorInv,
       TypeOK, ServerState
  <2>2. UNCHANGED <<used, uiKey>>
    BY <1>3 DEF WatcherEnsure, WatcherDelete, WatcherUpsert
  <2> QED  BY <2>1, <2>2 DEF VectorInv
<1>4. CASE RestartServer
  <2>1. PICK k \in Keys \ used : used' = used \union {k} /\ server'.key = k
    BY <1>4 DEF RestartServer, UpdateEnds, VectorInv, TypeOK, ServerState
  <2> QED  BY <1>4, <2>1 DEF RestartServer, VectorInv
<1>5. ASSUME NEW u \in UiTasks,
             UiIndex(u) \/ UiEnsure(u) \/ UiUpsert(u) \/ UiClear(u) \/ UiDrop(u)
      PROVE  KeysApart'
  BY <1>5 DEF UiIndex, UiEnsure, UiUpsert, UiClear, UiDrop, VectorInv
<1>6. CASE RestartUi
  BY <1>6 DEF RestartUi, VectorInv
<1>7. CASE CliIndex \/ CliAdd \/ CliRemove
  BY <1>7 DEF CliIndex, CliAdd, CliRemove, VectorInv
<1> QED  BY <1>1, <1>2, <1>3, <1>4, <1>5, <1>6, <1>7, <1>8 DEF Next

LEMMA CallsKeepChunks ==
    ASSUME VectorInv, [Next]_vars
    PROVE  CallsHaveChunks'
<1> USE DEF CallsHaveChunks
<1>1. CASE UNCHANGED vars
  BY <1>1 DEF VectorInv, vars
<1>2. ASSUME NEW f \in Files, Edit(f) PROVE CallsHaveChunks'
  BY <1>2 DEF Edit, VectorInv, TypeOK, ServerState
<1>3. ASSUME NEW f \in Files, LoadIndex(f) PROVE CallsHaveChunks'
  BY <1>3 DEF LoadIndex, VectorInv, TypeOK, ServerState
<1>8. CASE SaveUpdate
  <2>1. PICK c \in {server.added, disk[server.file]} :
          \/ server' = Calling([server EXCEPT !.loaded = NoIndex, !.added = c,
                                !.deleted = server.loaded[server.file]])
          \/ server' = UpdateEnds(server)
    BY <1>8 DEF SaveUpdate
  <2> DEFINE begun == [server EXCEPT !.loaded = NoIndex, !.added = c,
                                     !.deleted = server.loaded[server.file]]
  <2>2. \/ server'.pc = "idle"
        \/ server' = [begun EXCEPT !.pc = NextCall(begun)] /\ NextCall(begun) # "idle"
    BY <2>1 DEF Calling, UpdateEnds, VectorInv, TypeOK, ServerState
  <2>3. begun.file \in Files /\ begun \in [key : Keys, pending : SUBSET Files,
            pc : {"loaded"}, file : Files, loaded : {NoIndex}, added : {c},
            deleted : {server.loaded[server.file]}]
    BY <1>8 DEF SaveUpdate, VectorInv, TypeOK, ServerState
  <2> HIDE DEF begun
  <2> QED  BY <2>2, <2>3 DEF NextCall
<1>4. CASE WatcherEnsure \/ WatcherDelete \/ WatcherUpsert
  <2>1. \/ server' = UpdateEnds(server)
        \/ server' = [server EXCEPT !.pc = "upsert"]
           /\ server.pc \in {"ensure", "delete"}
        \/ server' = [server EXCEPT !.pc = "delete"]
           /\ server.pc = "ensure" /\ server.deleted # NoChunk
    BY <1>4 DEF WatcherEnsure, WatcherDelete, WatcherUpsert
  <2> QED  BY <2>1 DEF UpdateEnds, VectorInv, TypeOK, ServerState
<1>5. CASE RestartServer
  BY <1>5 DEF RestartServer, UpdateEnds, VectorInv, TypeOK, ServerState
<1>6. ASSUME NEW u \in UiTasks,
             UiIndex(u) \/ UiEnsure(u) \/ UiUpsert(u) \/ UiClear(u) \/ UiDrop(u)
      PROVE  CallsHaveChunks'
  BY <1>6 DEF UiIndex, UiEnsure, UiUpsert, UiClear, UiDrop, VectorInv
<1>7. CASE RestartUi \/ CliIndex \/ CliAdd \/ CliRemove
  BY <1>7 DEF RestartUi, CliIndex, CliAdd, CliRemove, VectorInv
<1> QED  BY <1>1, <1>2, <1>3, <1>4, <1>5, <1>6, <1>7, <1>8 DEF Next

-----------------------------------------------------------------------------
(* What a clear action leaves *)

(* What calls may still write, by the calls.                                *)
LEMMA SameCallsSameWays ==
    ASSUME UNCHANGED <<uiKey, ui>>,
           \/ server'.pc \in {"idle", "forget"}
           \/ /\ server.pc \in {"loaded", "ensure", "delete", "upsert"}
              /\ server'.key = server.key /\ server'.file = server.file
    PROVE  OnTheirWay' \subseteq OnTheirWay
BY DEF OnTheirWay, PointsOf

LEMMA EndedTaskSameWays ==
    ASSUME UNCHANGED <<uiKey, server>>,
           \A v \in UiTasks : ui'[v].pc \in {"ensure", "upsert"}
               => ui[v].pc \in {"ensure", "upsert"} /\ ui'[v].chunks = ui[v].chunks
    PROVE  OnTheirWay' \subseteq OnTheirWay
BY DEF OnTheirWay, PointsOf, FilesWithChunk, PointOf, RawId

LEMMA NothingNewComes ==
    ASSUME VectorInv, [Next]_vars
    PROVE  NothingNew'
<1> USE ServerFields DEF VectorInv, NothingNew, ClearLeavesNothingNew
<1>1. CASE UNCHANGED vars
  <2>1. OnTheirWay' = OnTheirWay
    BY <1>1 DEF vars, OnTheirWay, PointsOf, FilesWithChunk, PointOf, RawId
  <2> QED  BY <1>1, <2>1 DEF vars, collection
<1>2. ASSUME NEW f \in Files, Edit(f) PROVE NothingNew'
  <2>1. /\ server'.pc = server.pc /\ server'.file = server.file
        /\ server'.key = server.key /\ UNCHANGED <<points, uiKey, ui, kept>>
    BY <1>2 DEF Edit, TypeOK, ServerState, collection
  <2>2. OnTheirWay' \subseteq OnTheirWay
    BY <2>1, SameCallsSameWays
  <2> QED  BY <2>1, <2>2
<1>3. ASSUME NEW f \in Files, LoadIndex(f) PROVE NothingNew'
  <2>1. UNCHANGED <<points, uiKey, ui>>
    BY <1>3 DEF LoadIndex, collection
  <2>2. CASE stored = NoIndex
    <3>1. server'.pc = "idle" /\ UNCHANGED kept
      BY <1>3, <2>2 DEF LoadIndex, TypeOK, ServerState
    <3> QED  BY <2>1, <3>1, SameCallsSameWays
  <2>3. CASE stored # NoIndex
    <3>1. kept' = Point
      BY <1>3, <2>3 DEF LoadIndex
    <3> QED  BY <2>1, <3>1 DEF OnTheirWay, TypeOK
  <2> QED  BY <2>2, <2>3
<1>4. CASE SaveUpdate
  <2>1. UNCHANGED <<points, uiKey, ui, kept>> /\ server.pc = "loaded"
    BY <1>4 DEF SaveUpdate, collection
  <2>2. \/ server'.pc \in {"idle", "forget"}
        \/ server'.key = server.key /\ server'.file = server.file
    <3>1. PICK c :
            \/ server' = Calling([server EXCEPT !.loaded = NoIndex, !.added = c,
                                  !.deleted = server.loaded[server.file]])
            \/ server' = UpdateEnds(server)
      BY <1>4 DEF SaveUpdate
    <3> DEFINE begun == [server EXCEPT !.loaded = NoIndex, !.added = c,
                                       !.deleted = server.loaded[server.file]]
    <3>2. begun.key = server.key /\ begun.file = server.file
          /\ begun \in [key : Keys, pending : SUBSET Files, pc : {"loaded"},
               file : Files, loaded : {NoIndex}, added : {c},
               deleted : {server.loaded[server.file]}]
      BY <2>1 DEF TypeOK, ServerState, CallsHaveChunks
    <3>3. server' = Calling(begun) \/ server'.pc = "idle"
      BY <3>1 DEF UpdateEnds, TypeOK, ServerState
    <3> HIDE DEF begun
    <3> QED  BY <3>2, <3>3 DEF Calling, UpdateEnds
  <2> QED  BY <2>1, <2>2, SameCallsSameWays
<1>5. CASE WatcherEnsure \/ WatcherDelete
  <2>1. /\ points' \subseteq points /\ UNCHANGED <<uiKey, ui, kept>>
    BY <1>5 DEF WatcherEnsure, WatcherDelete, Created, Deleted, NothingDone, collection
  <2>2. \/ server'.pc = "idle"
        \/ /\ server.pc \in {"ensure", "delete"}
           /\ server'.key = server.key /\ server'.file = server.file
    BY <1>5 DEF WatcherEnsure, WatcherDelete, UpdateEnds, TypeOK, ServerState
  <2> QED  BY <2>1, <2>2, SameCallsSameWays
<1>6. CASE WatcherUpsert
  <2> DEFINE p == PointOf(server.key, server.file, server.added)
  <2>1. /\ server.pc = "upsert" /\ server'.pc = "idle" /\ UNCHANGED <<uiKey, ui, kept>>
    BY <1>6 DEF WatcherUpsert, UpdateEnds, TypeOK, ServerState
  <2>2. points' \subseteq points \union {p}
    BY <1>6 DEF WatcherUpsert, Upserted, NothingDone, collection
  <2>3. p \in OnTheirWay
    <3>1. p \in Point
      BY <2>1, WatcherPoints
    <3> QED  BY <2>1, <3>1 DEF OnTheirWay, PointOf, RawId
  <2> QED  BY <2>1, <2>2, <2>3, SameCallsSameWays
<1>7. CASE RestartServer
  <2>1. server'.pc = "idle" /\ UNCHANGED <<points, uiKey, ui, kept>>
    BY <1>7 DEF RestartServer, UpdateEnds, TypeOK, ServerState, collection
  <2> QED  BY <2>1, SameCallsSameWays
<1>8. ASSUME NEW u \in UiTasks, UiIndex(u) PROVE NothingNew'
  BY <1>8 DEF UiIndex, OnTheirWay, TypeOK, collection
<1>9. ASSUME NEW u \in UiTasks, UiEnsure(u) \/ UiUpsert(u) \/ UiClear(u) \/ UiDrop(u)
      PROVE  NothingNew'
  <2>1. UNCHANGED <<uiKey, server>>
    BY <1>9 DEF UiEnsure, UiUpsert, UiClear, UiDrop
  <2>2. \A v \in UiTasks : ui'[v].pc \in {"ensure", "upsert"}
            => ui[v].pc \in {"ensure", "upsert"} /\ ui'[v].chunks = ui[v].chunks
    BY <1>9, UiFields DEF UiEnsure, UiUpsert, UiClear, UiDrop, UiEnds, TypeOK, UiTask
  <2>3. OnTheirWay' \subseteq OnTheirWay
    BY <2>1, <2>2, EndedTaskSameWays
  <2>4. CASE UiEnsure(u) \/ UiClear(u)
    <3>1. UNCHANGED <<points, kept>>
      BY <2>4 DEF UiEnsure, UiClear, Created, NothingDone, collection
    <3> QED  BY <2>3, <3>1
  <2>5. CASE UiUpsert(u)
    <3>1. /\ points' \subseteq points \union PointsOf(uiKey, ui[u].chunks)
          /\ UNCHANGED kept /\ ui[u].pc = "upsert"
      BY <2>5 DEF UiUpsert, Upserted, NothingDone, collection
    <3>2. PointsOf(uiKey, ui[u].chunks) \subseteq OnTheirWay
      <4>1. PointsOf(uiKey, ui[u].chunks) \subseteq Point
        BY UiFields, PointsOfProject DEF TypeOK
      <4> QED  BY <3>1, <4>1 DEF OnTheirWay
    <3> QED  BY <2>3, <3>1, <3>2
  <2>6. CASE UiDrop(u)
    <3>1. \/ points' = {} /\ kept' \in {OnTheirWay, kept}
          \/ UNCHANGED <<points, kept>>
      BY <2>6 DEF UiDrop, NothingDone, collection
    <3> QED  BY <2>3, <3>1
  <2> QED  BY <1>9, <2>4, <2>5, <2>6
<1>10. CASE RestartUi
  <2>1. /\ \A v \in UiTasks : ui'[v].pc = "idle"
        /\ UNCHANGED <<points, server, kept>>
    BY <1>10 DEF RestartUi, collection
  <2>2. OnTheirWay' \subseteq OnTheirWay
    BY <2>1 DEF OnTheirWay
  <2> QED  BY <2>1, <2>2
<1>11. CASE CliIndex \/ CliAdd \/ CliRemove
  <2>1. UNCHANGED <<points, server, uiKey, ui, kept>>
    BY <1>11 DEF CliIndex, CliAdd, CliRemove, collection
  <2>2. OnTheirWay' \subseteq OnTheirWay
    BY <2>1, EndedTaskSameWays
  <2> QED  BY <2>1, <2>2
<1> QED  BY <1>1, <1>2, <1>3, <1>4, <1>5, <1>6, <1>7, <1>8, <1>9, <1>10, <1>11 DEF Next

-----------------------------------------------------------------------------
(* What is stored has its vector, or one is coming *)

(* Both survive when no call and no point that matters has changed.         *)
LEMMA SameCallsSamePoints ==
    ASSUME InStep, UNCHANGED <<stored, points, used, uiKey, ui>>,
           server'.pc = server.pc, server'.file = server.file,
           server'.added = server.added, server'.key = server.key
    PROVE  InStep'
BY DEF InStep, Coming, There, Busy, Alone, FilesWithChunk, PointOf, RawId

LEMMA WatcherInStep ==
    ASSUME VectorInv, ~disturbed',
           \/ \E f \in Files : Edit(f) \/ LoadIndex(f)
           \/ SaveUpdate \/ WatcherEnsure \/ WatcherDelete \/ WatcherUpsert \/ RestartServer
    PROVE  InStep'
<1> USE ServerFields DEF VectorInv
<1>1. ASSUME NEW f \in Files, Edit(f) PROVE InStep'
  <2>1. InStep
    BY <1>1 DEF Edit
  <2>2. /\ server'.pc = server.pc /\ server'.file = server.file
        /\ server'.added = server.added /\ server'.key = server.key
    BY <1>1 DEF Edit, TypeOK, ServerState
  <2> QED  BY <1>1, <2>1, <2>2, SameCallsSamePoints DEF Edit, collection
<1>2. ASSUME NEW f \in Files, LoadIndex(f) PROVE InStep'
  <2>1. InStep /\ server.pc = "idle" /\ UNCHANGED <<stored, points, used, uiKey, ui>>
    BY <1>2 DEF LoadIndex, collection
  <2>2. server'.pc \in {"idle", "loaded"}
    BY <1>2 DEF LoadIndex, TypeOK, ServerState
  <2> QED  BY <2>1, <2>2 DEF InStep, Coming, There, Busy, Alone, FilesWithChunk,
              PointOf, RawId
<1>7. ASSUME SaveUpdate, NEW f, f = server.file PROVE InStep'
  <2>1. PICK c \in {server.added, disk[f]} :
          /\ stored' = [server.loaded EXCEPT ![f] = c]
          /\ server' = Calling([server EXCEPT !.loaded = NoIndex, !.added = c,
                                !.deleted = server.loaded[f]])
          /\ stored = server.loaded
    BY <1>7 DEF SaveUpdate
  <2>2. /\ InStep /\ server.pc = "loaded" /\ UNCHANGED <<points, used, uiKey, ui>>
        /\ f \in Files /\ stored # NoIndex /\ stored \in Content
    BY <1>7, <2>1 DEF SaveUpdate, collection, CallsHaveChunks, TypeOK
  <2>3. stored' = [stored EXCEPT ![f] = c]
    BY <2>1
  <2> DEFINE begun == [server EXCEPT !.loaded = NoIndex, !.added = c,
                                     !.deleted = server.loaded[f]]
  <2>4. /\ server'.pc # "idle" => server'.file = f
        /\ server'.key = server.key
        /\ c # NoChunk => /\ server'.pc = "ensure" /\ server'.added = c
                          /\ server'.file = f
    <3>1. begun.added = c /\ begun.file = f /\ begun.key = server.key
      BY <1>7 DEF TypeOK, ServerState
    <3>2. begun \in [key : Keys, pending : SUBSET Files, pc : {"loaded"},
                     file : {f}, loaded : {NoIndex}, added : {c},
                     deleted : {server.loaded[f]}]
      BY <1>7, <2>2 DEF TypeOK, ServerState
    <3>3. server' = Calling(begun)
      BY <2>1
    <3> HIDE DEF begun
    <3> QED  BY <3>1, <3>2, <3>3 DEF Calling, UpdateEnds, NextCall
  <2> HIDE DEF begun
  <2>5. ASSUME NEW g \in FilesWithChunk(stored)', g # f PROVE Coming(g)' \/ There(g)'
    <3>1. g \in FilesWithChunk(stored) /\ stored'[g] = stored[g]
      BY <2>2, <2>3, <2>5 DEF FilesWithChunk, Content
    <3>2. Coming(g) \/ There(g)
      BY <2>2, <3>1 DEF InStep
    <3>3. Coming(g) => Coming(g)'
      BY <2>2, <3>1 DEF Coming
    <3>4. There(g) => There(g)'
      BY <2>2, <2>4, <2>5, <3>1 DEF There, PointOf, RawId
    <3> QED  BY <3>2, <3>3, <3>4
  <2>6. f \in FilesWithChunk(stored)' => Coming(f)'
    BY <2>2, <2>3, <2>4 DEF FilesWithChunk, Coming, Content
  <2>7. \A u \in UiTasks : ui'[u].pc # "drop"
    BY <2>2 DEF InStep
  <2> QED  BY <2>2, <2>5, <2>6, <2>7 DEF InStep, Busy, Alone
<1>3. CASE WatcherEnsure
  <2>1. /\ server.pc = "ensure" /\ server'.pc \in {"delete", "upsert"}
        /\ server'.file = server.file /\ server'.added = server.added
        /\ server'.key = server.key
    BY <1>3 DEF WatcherEnsure, UpdateEnds, TypeOK, ServerState
  <2>2. InStep /\ UNCHANGED <<stored, points, used, uiKey, ui>>
    BY <1>3 DEF WatcherEnsure, Created, NothingDone, collection
  <2> QED  BY <2>1, <2>2 DEF InStep, Coming, There, Busy, Alone, FilesWithChunk,
              PointOf, RawId
<1>4. CASE WatcherDelete
  <2>1. /\ server.pc \in {"delete", "forget"}
        /\ IF server.pc = "delete"
           THEN server'.pc = "upsert" /\ server'.added = server.added
           ELSE server'.pc = "idle"
        /\ server.pc = "delete" => server'.file = server.file
        /\ server'.key = server.key
    BY <1>4 DEF WatcherDelete, UpdateEnds, TypeOK, ServerState
  <2>2. InStep /\ UNCHANGED <<stored, used, uiKey, ui>>
    BY <1>4 DEF WatcherDelete
  <2>3. server.deleted \in Chunk /\ server.file \in Files
    BY <2>1 DEF CallsHaveChunks
  <2>4. ASSUME stored # NoIndex, NEW g \in FilesWithChunk(stored), NEW k
        PROVE  PointOf(k, g, stored[g]) \in points
                 => PointOf(k, g, stored[g]) \in points'
    <3>1. g \in Files /\ stored[g] \in Chunk
      BY <2>4, ContentChunk DEF TypeOK
    <3>2. RawId(g, stored[g]) # StableId(server.file, server.deleted)
      BY <2>3, <3>1, ChunkIds
    <3> QED  BY <1>4, <3>2 DEF WatcherDelete, Deleted, NothingDone, collection, PointOf
  <2>5. ASSUME stored # NoIndex, NEW g \in FilesWithChunk(stored)
        PROVE  Coming(g)' \/ There(g)'
    <3>1. Coming(g) => Coming(g)'
      BY <2>1, <2>2 DEF Coming
    <3>2. There(g) => There(g)'
      <4>1. \A k : (PointOf(k, g, stored[g]))' = PointOf(k, g, stored[g])
        BY <2>2 DEF PointOf, RawId
      <4> QED  BY <2>1, <2>2, <2>4, <2>5, <4>1 DEF There
    <3> QED  BY <2>2, <2>5, <3>1, <3>2 DEF InStep
  <2> QED  BY <2>2, <2>5 DEF InStep, Busy, Alone, FilesWithChunk
<1>5. CASE WatcherUpsert
  <2> DEFINE new == {PointOf(server.key, server.file, server.added)}
  <2>1. InStep /\ server.pc = "upsert" /\ Upserted(new)
    BY <1>5 DEF WatcherUpsert
  <2>2. /\ server'.pc = "idle" /\ server'.key = server.key
        /\ UNCHANGED <<stored, used, uiKey, ui>>
    BY <1>5 DEF WatcherUpsert, UpdateEnds, TypeOK, ServerState
  <2>3. /\ server.added \in Chunk /\ server.file \in Files
        /\ server.key # uiKey /\ server.key \in used
    BY <2>1 DEF CallsHaveChunks, KeysApart
  <2>4. ASSUME stored # NoIndex, NEW g \in FilesWithChunk(stored)
        PROVE  Coming(g)' \/ There(g)'
    <3>1. g \in Files /\ stored[g] \in Chunk
      BY <2>4, ContentChunk DEF TypeOK
    <3>2. \A k : (PointOf(k, g, stored[g]))' = PointOf(k, g, stored[g])
      BY <2>2 DEF PointOf, RawId
    <3>3. CASE server.file = g /\ server.added = stored[g]
      <4>1. PointOf(server.key, g, stored[g]) \in points'
        BY <2>1, <3>3 DEF Upserted
      <4> QED  BY <2>2, <2>3, <3>2, <4>1 DEF There
    <3>4. CASE \E u \in UiTasks : ui[u].pc \in {"ensure", "upsert"}
                                  /\ ui[u].chunks[g] = stored[g]
      BY <2>2, <3>4 DEF Coming
    <3>5. CASE There(g)
      <4>1. PICK k \in used :
              /\ PointOf(k, g, stored[g]) \in points
              /\ k = server.key => server.file # g
              /\ k = uiKey => \A u \in UiTasks : ~(ui[u].pc \in {"ensure", "upsert"})
        BY <2>1, <3>5 DEF There
      <4>2. ~SamePointId(PointOf(k, g, stored[g]),
                         PointOf(server.key, server.file, server.added))
        BY <2>3, <3>1, <4>1, ChunkIds DEF SamePointId, PointOf
      <4>3. PointOf(k, g, stored[g]) \in points'
        BY <2>1, <4>1, <4>2 DEF Upserted
      <4> QED  BY <2>2, <3>2, <4>1, <4>3 DEF There
    <3> QED  BY <2>1, <2>4, <3>3, <3>4, <3>5 DEF InStep, Coming
  <2> QED  BY <2>1, <2>2, <2>4 DEF InStep, Busy, Alone, FilesWithChunk
<1>6. CASE RestartServer
  <2>1. /\ InStep /\ server.pc \in {"idle", "loaded"} /\ server'.pc = "idle"
        /\ used \subseteq used' /\ UNCHANGED <<stored, points, uiKey, ui>>
    BY <1>6 DEF RestartServer, UpdateEnds, collection, TypeOK, ServerState
  <2> QED  BY <2>1 DEF InStep, Coming, There, Busy, Alone, FilesWithChunk, PointOf,
              RawId
<1> QED  BY <1>1, <1>2, <1>3, <1>4, <1>5, <1>6, <1>7

LEMMA UiInStep ==
    ASSUME VectorInv, ~disturbed',
           \/ \E u \in UiTasks : UiIndex(u) \/ UiEnsure(u) \/ UiUpsert(u) \/ UiClear(u)
                                 \/ UiDrop(u)
           \/ RestartUi \/ CliIndex \/ CliAdd \/ CliRemove
    PROVE  InStep'
<1> USE DEF VectorInv
<1>1. ASSUME NEW u \in UiTasks, UiIndex(u) PROVE InStep'
  <2>1. /\ Alone(u) /\ stored' = disk
        /\ ui' = [ui EXCEPT ![u] =
                     IF FilesWithChunk(disk) = {}
                     THEN [pc |-> "idle", chunks |-> Empty]
                     ELSE [pc |-> "ensure", chunks |-> disk]]
    BY <1>1 DEF UiIndex
  <2>2. /\ \/ ui'[u].pc = "ensure" /\ ui'[u].chunks = disk
           \/ ui'[u].pc = "idle" /\ FilesWithChunk(disk) = {}
        /\ \A v \in UiTasks \ {u} : ui'[v].pc = "idle"
    BY <2>1 DEF TypeOK, Alone, Busy
  <2>3. \A v \in UiTasks : Busy(v)' => Alone(v)'
    BY <2>2 DEF Alone, Busy
  <2>4. \A f \in FilesWithChunk(stored)' : Coming(f)'
    BY <2>1, <2>2 DEF Coming, FilesWithChunk
  <2> QED  BY <2>2, <2>3, <2>4 DEF InStep
<1>2. ASSUME NEW u \in UiTasks, UiEnsure(u) PROVE InStep'
  <2>1. /\ InStep /\ ui[u].pc = "ensure" /\ ui' = [ui EXCEPT ![u].pc = "upsert"]
        /\ UNCHANGED <<stored, points, used, server, uiKey>>
    BY <1>2 DEF UiEnsure, Created
  <2>2. /\ ui'[u].pc = "upsert" /\ ui'[u].chunks = ui[u].chunks
        /\ \A v \in UiTasks \ {u} : ui'[v] = ui[v]
    BY <2>1, UiFields DEF TypeOK, UiTask
  <2>3. \A v \in UiTasks : Busy(v)' = Busy(v) /\ Alone(v)' = Alone(v)
    BY <2>1, <2>2 DEF Busy, Alone
  <2>4. ASSUME stored # NoIndex, NEW f \in FilesWithChunk(stored)
        PROVE  Coming(f)' \/ There(f)'
    <3>1. Coming(f) => Coming(f)'
      BY <2>1, <2>2 DEF Coming
    <3>2. There(f) => There(f)'
      BY <2>1 DEF There, PointOf, RawId
    <3> QED  BY <2>1, <2>4, <3>1, <3>2 DEF InStep
  <2>5. \A v \in UiTasks : ui'[v].pc = "drop" => ui[v].pc = "drop"
    BY <2>2
  <2> QED  BY <2>1, <2>3, <2>4, <2>5 DEF InStep, FilesWithChunk
<1>3. ASSUME NEW u \in UiTasks, UiUpsert(u) PROVE InStep'
  <2> DEFINE new == PointsOf(uiKey, ui[u].chunks)
  <2>1. /\ InStep /\ ui[u].pc = "upsert" /\ Upserted(new)
        /\ ui'[u].pc = "idle" /\ \A v \in UiTasks \ {u} : ui'[v] = ui[v]
        /\ UNCHANGED <<stored, used, server, uiKey>>
    BY <1>3 DEF UiUpsert, UiEnds, TypeOK
  <2>2. /\ uiKey \in Keys /\ uiKey \in used /\ server.key # uiKey
        /\ ui[u].chunks \in Content
    BY UiFields DEF TypeOK, KeysApart
  <2>3. \A v \in UiTasks : ui'[v].pc = "idle"
    <3>1. Alone(u)
      BY <2>1 DEF InStep, Busy
    <3> QED  BY <2>1, <3>1 DEF Alone, Busy
  <2>4. ASSUME stored # NoIndex, NEW f \in FilesWithChunk(stored)
        PROVE  Coming(f)' \/ There(f)'
    <3>1. \A k : (PointOf(k, f, stored[f]))' = PointOf(k, f, stored[f])
      BY <2>1 DEF PointOf, RawId
    <3>2. CASE \E v \in UiTasks : ui[v].pc \in {"ensure", "upsert"}
                                  /\ ui[v].chunks[f] = stored[f]
      <4>1. PICK v \in UiTasks : /\ ui[v].pc \in {"ensure", "upsert"}
                                /\ ui[v].chunks[f] = stored[f]
        BY <3>2
      <4>2. v = u
        BY <2>1, <4>1 DEF InStep, Busy, Alone
      <4>3. f \in FilesWithChunk(ui[u].chunks)
        BY <2>4, <4>1, <4>2 DEF FilesWithChunk
      <4>4. PointOf(uiKey, f, stored[f]) \in new
        BY <4>1, <4>2, <4>3 DEF PointsOf
      <4>5. PointOf(uiKey, f, stored[f]) \in points'
        BY <2>1, <4>4 DEF Upserted
      <4>6. There(f)'
        BY <2>1, <2>2, <2>3, <3>1, <4>5 DEF There
      <4> QED  BY <4>6
    <3>3. CASE server.pc \in {"ensure", "delete", "upsert"} /\ server.file = f
               /\ server.added = stored[f]
      BY <2>1, <3>3 DEF Coming
    <3>4. CASE There(f)
      <4>1. PICK k \in used :
              /\ PointOf(k, f, stored[f]) \in points
              /\ k = server.key => ~(server.pc \in {"ensure", "delete", "upsert"}
                                     /\ server.file = f)
              /\ k # uiKey
        BY <2>1, <3>4 DEF There
      <4>2. \A p \in new : p.key = uiKey
        BY <2>2, PointsOfProject
      <4>3. PointOf(k, f, stored[f]).key = k
        BY DEF PointOf
      <4>4. PointOf(k, f, stored[f]) \in points'
        BY <2>1, <4>1, <4>2, <4>3 DEF Upserted, SamePointId
      <4> QED  BY <2>1, <2>3, <3>1, <4>1, <4>4 DEF There
    <3> QED  BY <2>1, <2>4, <3>2, <3>3, <3>4 DEF InStep, Coming
  <2> QED  BY <2>1, <2>3, <2>4 DEF InStep, Busy, FilesWithChunk
<1>4. ASSUME NEW u \in UiTasks, UiClear(u) PROVE InStep'
  <2>1. CASE UiEnds(u) /\ UNCHANGED disturbed
    <3>1. InStep /\ ~Busy(u) /\ ui'[u].pc = "idle"
      BY <1>4, <2>1 DEF UiClear, UiEnds, TypeOK
    <3>2. \A v \in UiTasks : /\ v # u => ui'[v] = ui[v]
                             /\ ui'[v].pc # "idle" => v # u /\ ui'[v] = ui[v]
      BY <2>1, <3>1 DEF UiEnds, TypeOK
    <3>3. stored' = NoIndex \/ UNCHANGED stored
      BY <1>4 DEF UiClear
    <3>4. UNCHANGED <<points, used, uiKey, server>>
      BY <1>4 DEF UiClear, collection
    <3>5. \A v \in UiTasks : Busy(v)' => Alone(v)'
      BY <3>1, <3>2 DEF InStep, Busy, Alone
    <3>6. \A v \in UiTasks : ui'[v].pc = "drop" => stored' = NoIndex
      BY <3>1, <3>2, <3>3 DEF InStep
    <3>7. ASSUME UNCHANGED stored, stored # NoIndex, NEW f \in FilesWithChunk(stored)
          PROVE  Coming(f)' \/ There(f)'
      <4>1. \A v \in UiTasks : ui[v].pc \in {"ensure", "upsert"}
                               <=> ui'[v].pc \in {"ensure", "upsert"}
        BY <3>1, <3>2 DEF Busy
      <4>2. \A v \in UiTasks : ui[v].pc \in {"ensure", "upsert"} => ui'[v] = ui[v]
        BY <3>1, <3>2 DEF Busy
      <4>3. Coming(f) => Coming(f)'
        BY <3>4, <3>7, <4>1, <4>2 DEF Coming
      <4>4. There(f) => There(f)'
        BY <3>4, <3>7, <4>1 DEF There, PointOf, RawId
      <4> QED  BY <3>1, <3>7, <4>3, <4>4 DEF InStep
    <3> QED  BY <3>3, <3>5, <3>6, <3>7 DEF InStep, FilesWithChunk
  <2>2. CASE ~(UiEnds(u) /\ UNCHANGED disturbed)
    <3>1. Alone(u) /\ stored' = NoIndex
      BY <1>4, <2>2 DEF UiClear
    <3>2. \A v \in UiTasks \ {u} : ui'[v].pc = "idle"
      BY <1>4, <2>2, <3>1 DEF UiClear, Alone, Busy, TypeOK
    <3> QED  BY <3>1, <3>2 DEF InStep, Busy, Alone
  <2> QED  BY <2>1, <2>2
<1>5. ASSUME NEW u \in UiTasks, UiDrop(u) PROVE InStep'
  <2>1. /\ InStep /\ ui[u].pc = "drop" /\ UNCHANGED stored
        /\ ui'[u].pc = "idle" /\ \A v \in UiTasks \ {u} : ui'[v] = ui[v]
    BY <1>5 DEF UiDrop, UiEnds, TypeOK
  <2>2. stored = NoIndex
    BY <2>1 DEF InStep
  <2>3. \A v \in UiTasks \ {u} : ui[v].pc = "idle"
    BY <2>1 DEF InStep, Busy, Alone
  <2> QED  BY <2>1, <2>2, <2>3 DEF InStep, Busy
<1>6. CASE RestartUi
  <2>1. /\ InStep /\ used \subseteq used' /\ UNCHANGED <<stored, points, server>>
        /\ \A u \in UiTasks : ui[u].pc = "idle" /\ ui'[u].pc = "idle"
    BY <1>6 DEF RestartUi, Busy, collection
  <2> QED  BY <2>1 DEF InStep, Coming, There, Busy, Alone, FilesWithChunk, PointOf,
              RawId
<1>7. CASE CliIndex
  BY <1>7 DEF CliIndex
<1>8. CASE CliAdd
  <2>1. /\ stored' = Empty /\ \A u \in UiTasks : ui'[u].pc = "idle"
    BY <1>8 DEF CliAdd, Busy
  <2>2. FilesWithChunk(stored)' = {}
    BY <2>1, EmptyContent DEF FilesWithChunk
  <2> QED  BY <2>1, <2>2 DEF InStep, Busy
<1>9. CASE CliRemove
  <2>1. InStep /\ stored' = NoIndex /\ UNCHANGED ui
    BY <1>9 DEF CliRemove
  <2> QED  BY <2>1 DEF InStep, Busy, Alone
<1> QED  BY <1>1, <1>2, <1>3, <1>4, <1>5, <1>6, <1>7, <1>8, <1>9

-----------------------------------------------------------------------------
(* The theorems *)

LEMMA VectorInit == Init => VectorInv
<1> SUFFICES ASSUME Init PROVE VectorInv
  OBVIOUS
<1>1. TypeOK
  <2>2. server \in ServerState /\ used \subseteq Keys /\ uiKey \in Keys
    BY VectorAssumption DEF Init, ServerState
  <2>3. ui \in [UiTasks -> UiTask] /\ disk \in Content
    BY EmptyContent, VectorAssumption DEF Init, UiTask, Content, Chunk
  <2>4. edits \in 0..MaxEdits
    BY VectorAssumption DEF Init
  <2> QED  BY <2>2, <2>3, <2>4 DEF Init, TypeOK, Point
<1>2. KeysApart /\ CallsHaveChunks
  BY VectorAssumption DEF Init, KeysApart, CallsHaveChunks
<1>3. InStep
  BY DEF Init, InStep, Busy
<1>4. NothingNew
  BY DEF Init, NothingNew, ClearLeavesNothingNew, OnTheirWay
<1> QED  BY <1>1, <1>2, <1>3, <1>4 DEF VectorInv

LEMMA VectorNext == VectorInv /\ [Next]_vars => VectorInv'
<1> SUFFICES ASSUME VectorInv, [Next]_vars PROVE VectorInv'
  OBVIOUS
<1>1. KeysApart' /\ CallsHaveChunks' /\ NothingNew'
  BY KeysStayApart, CallsKeepChunks, NothingNewComes
<1>2. CASE UNCHANGED vars
  <2>1. TypeOK'
    BY <1>2 DEF VectorInv, TypeOK, vars, collection, SamePointId
  <2>2. ~disturbed' => InStep'
    BY <1>2, SameCallsSamePoints DEF VectorInv, vars, collection
  <2> QED  BY <1>1, <2>1, <2>2 DEF VectorInv
<1>3. CASE \/ \E f \in Files : Edit(f) \/ LoadIndex(f)
           \/ SaveUpdate \/ WatcherEnsure \/ WatcherDelete \/ WatcherUpsert
           \/ RestartServer
  BY <1>1, <1>3, TypeWatcher, WatcherInStep DEF VectorInv
<1>4. CASE \/ \E u \in UiTasks : UiIndex(u) \/ UiEnsure(u) \/ UiUpsert(u) \/ UiClear(u)
                                 \/ UiDrop(u)
           \/ RestartUi \/ CliIndex \/ CliAdd \/ CliRemove
  BY <1>1, <1>4, TypeUi, UiInStep DEF VectorInv
<1> QED  BY <1>2, <1>3, <1>4 DEF Next

(* The inductive invariant of the vectors holds in every reachable state.   *)
THEOREM VectorInvariant == Spec => []VectorInv
<1>1. Init => VectorInv
  BY VectorInit
<1>2. VectorInv /\ [Next]_vars => VectorInv'
  BY VectorNext
<1> QED  BY <1>1, <1>2, PTL DEF Spec

(* The variables keep their types, and no point id names two points.        *)
THEOREM VectorTypes == Spec => []TypeOK
<1>1. VectorInv => TypeOK
  BY DEF VectorInv
<1> QED  BY <1>1, VectorInvariant, PTL

(* Unless something gave up since the UI last indexed undisturbed, every    *)
(* stored chunk has its vector once the watcher and the UI are done.        *)
THEOREM StoredChunksGetVectors == Spec => []StoredChunksHaveVectors
<1>1. VectorInv => StoredChunksHaveVectors
  BY DEF VectorInv, InStep, StoredChunksHaveVectors, AllIdle, Busy, Coming, There
<1> QED  BY <1>1, VectorInvariant, PTL

(* After a clear action nothing fills the collection again but what was on  *)
(* its way, until the project is indexed again.                             *)
THEOREM ClearsLeaveNothingNew == Spec => []ClearLeavesNothingNew
<1>1. VectorInv => ClearLeavesNothingNew
  BY DEF VectorInv, NothingNew
<1> QED  BY <1>1, VectorInvariant, PTL

=============================================================================
