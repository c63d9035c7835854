------------------------------ MODULE VectorSync ------------------------------
(***************************************************************************)
(* The vectors of one project: the stored index, the Qdrant collection of  *)
(* its chunks, and the three programs that write them.  mcp-server updates *)
(* the file of a watcher's event, the admin UI indexes and clears the      *)
(* whole project, and the CLI indexes and removes it without knowing of    *)
(* Qdrant.  QDRANT_URL is set; without it nothing here but the index moves.*)
(*                                                                         *)
(* A step ends where another program can change what it goes on to use: at *)
(* an await on Qdrant, and between the load and the save of an update,     *)
(* which hold no lock.  The JSON and the lexical index are one value here; *)
(* how they are saved is IndexStore.  A file holds at most one chunk,      *)
(* named by the lines it spans.                                            *)
(***************************************************************************)
EXTENDS Naturals

CONSTANTS
    Files,
    Spans,      \* the lines a chunk may take in its file
    Texts,      \* what a chunk may say
    Keys,       \* hash keys of process runs: a bound on the restarts
    ServerKey, UiKey,  \* those of the first runs
    UiTasks,    \* index actions the UI handles at the same time
    MaxEdits,   \* changes of files: a bound
    NoFile, NoChunk, NoIndex,
    Contents    \* what the files may say at first

ASSUME VectorAssumption ==
    /\ {ServerKey, UiKey} \subseteq Keys
    /\ ServerKey # UiKey
    /\ MaxEdits \in Nat
    /\ NoFile \notin Files
    /\ NoChunk \notin [span : Spans, text : Texts]
    /\ NoIndex \notin [Files -> [span : Spans, text : Texts] \union {NoChunk}]
    /\ Contents \subseteq [Files -> [span : Spans, text : Texts] \union {NoChunk}]

VARIABLES
    disk,       \* the chunk in every file
    edits,
    stored,     \* the chunk the index keeps of every file
    exists,     \* the collection has been created
    points,     \* what the collection holds
    used,       \* hash keys of the runs so far
    server,     \* mcp-server: its key, the watcher's events and its update
    uiKey,
    ui,         \* the index actions of the UI
    disturbed,  \* a call gave up, a run died in the middle, the CLI indexed,
                \* commands overlapped or an update undid another program's
                \* save, since the UI last indexed undisturbed
    kept        \* the points there may be: any while the project is indexed,
                \* after a clear action only those that were on their way

collection == <<exists, points>>
vars == <<disk, edits, stored, collection, used, server, uiKey, ui, disturbed,
          kept>>

-----------------------------------------------------------------------------
(* Values *)

Chunk == [span : Spans, text : Texts]
Content == [Files -> Chunk \union {NoChunk}]

(* extract_chunks_for_file names a chunk by its rows; the index knows it by *)
(* its lines and its symbol.  The two texts never agree.                    *)
ChunkId == Files \X Spans \X {"raw", "stable"}
RawId(f, c) == <<f, c.span, "raw">>
StableId(f, c) == <<f, c.span, "stable">>

(* A point: its id is hash_id of the chunk's id under the key of the run    *)
(* (AHasher::default draws its keys once per process), and its payload has  *)
(* the chunk's id.                                                          *)
Point == [key : Keys, chunk_id : ChunkId, text : Texts]
SamePointId(p, q) == p.key = q.key /\ p.chunk_id = q.chunk_id
PointOf(k, f, c) == [key |-> k, chunk_id |-> RawId(f, c), text |-> c.text]

FilesWithChunk(content) == {f \in Files : content[f] # NoChunk}
PointsOf(k, content) == {PointOf(k, f, content[f]) : f \in FilesWithChunk(content)}

Empty == [f \in Files |-> NoChunk]

ServerState == [key : Keys, pending : SUBSET Files,
                pc : {"idle", "loaded", "ensure", "delete", "upsert", "forget"},
                file : Files \union {NoFile}, loaded : Content \union {NoIndex},
                added : Chunk \union {NoChunk},
                deleted : Chunk \union {NoChunk}]
UiTask == [pc : {"idle", "ensure", "upsert", "drop"}, chunks : Content]

(* Everything keeps its type, a point id names one point, and a collection  *)
(* that does not exist holds none.                                          *)
TypeOK ==
    /\ disk \in Content
    /\ edits \in 0..MaxEdits
    /\ stored \in Content \union {NoIndex}
    /\ exists \in BOOLEAN
    /\ points \subseteq Point
    /\ \A p, q \in points : SamePointId(p, q) => p = q
    /\ points # {} => exists
    /\ used \subseteq Keys
    /\ server \in ServerState
    /\ uiKey \in Keys
    /\ ui \in [UiTasks -> UiTask]
    /\ disturbed \in BOOLEAN
    /\ kept \subseteq Point

Init ==
    /\ disk \in Contents
    /\ edits = 0
    /\ stored = NoIndex
    /\ exists = FALSE
    /\ points = {}
    /\ used = {ServerKey, UiKey}
    /\ uiKey = UiKey
    /\ server = [key |-> ServerKey, pending |-> {}, pc |-> "idle", file |-> NoFile,
                 loaded |-> NoIndex, added |-> NoChunk, deleted |-> NoChunk]
    /\ ui = [u \in UiTasks |-> [pc |-> "idle", chunks |-> Empty]]
    /\ disturbed = FALSE
    /\ kept = {}

-----------------------------------------------------------------------------
(* Qdrant.  A call may fail before or after it is carried out.             *)

(* create_collection: "already exists" counts as success.                  *)
Created == exists' = TRUE /\ UNCHANGED points
NothingDone == UNCHANGED collection

(* upsert_points needs the collection and replaces points by id.           *)
Upserted(new) ==
    /\ exists
    /\ points' = {p \in points : \A q \in new : ~SamePointId(p, q)} \union new
    /\ UNCHANGED exists

Deleted(k, ids) ==
    /\ points' = {p \in points : ~(p.key = k /\ p.chunk_id \in ids)}
    /\ UNCHANGED exists

-----------------------------------------------------------------------------
(* The watcher of mcp-server *)

(* A file changes, and the watcher has an event for it.                    *)
Edit(f) ==
    /\ edits < MaxEdits
    /\ edits' = edits + 1
    /\ \E c \in (Chunk \union {NoChunk}) \ {disk[f]} : disk' = [disk EXCEPT ![f] = c]
    /\ server' = [server EXCEPT !.pending = @ \union {f}]
    /\ UNCHANGED <<stored, collection, used, uiKey, ui, disturbed, kept>>

(* An update that is over keeps nothing.                                   *)
UpdateEnds(s) == [s EXCEPT !.pc = "idle", !.file = NoFile, !.loaded = NoIndex,
                           !.added = NoChunk, !.deleted = NoChunk]

(* Mutant: a chunk whose lines stay is taken for unchanged. *)
NextCallById(s) ==
    IF s.added # NoChunk /\ ~(s.deleted # NoChunk /\ s.deleted.span = s.added.span)
    THEN "ensure"
    ELSE IF s.deleted # NoChunk THEN "forget" ELSE "idle"

(* What an update calls first once the index is saved and the chunks are    *)
(* embedded: only a file that has chunks creates the collection.            *)
NextCall(s) ==
    IF s.added # NoChunk THEN "ensure"
    ELSE IF s.deleted # NoChunk THEN "forget" ELSE "idle"

Calling(s) == IF NextCall(s) = "idle" THEN UpdateEnds(s) ELSE [s EXCEPT !.pc = NextCall(s)]

(* The points that calls under way may still write.                        *)
OnTheirWay ==
    {p \in Point :
        \/ /\ server.pc \in {"loaded", "ensure", "delete", "upsert"}
           /\ p.key = server.key
           /\ p.chunk_id[1] = server.file
        \/ \E u \in UiTasks : /\ ui[u].pc \in {"ensure", "upsert"}
                              /\ p \in PointsOf(uiKey, ui[u].chunks)}

(* Mutant: an index that is not there is taken for an empty one. *)
LoadIndexOrEmpty(f) ==
    /\ server.pc = "idle"
    /\ f \in server.pending
    /\ server' = [server EXCEPT !.pending = @ \ {f}, !.pc = "loaded", !.file = f,
                                !.loaded = IF stored = NoIndex THEN Empty ELSE stored,
                                !.added = disk[f]]
    /\ kept' = IF stored = NoIndex THEN kept ELSE Point
    /\ UNCHANGED <<disk, edits, stored, collection, used, uiKey, ui, disturbed>>

(* load_project_index: an update of a project that is not indexed ends with *)
(* an error.  The file is read later.                                       *)
LoadIndex(f) ==
    /\ server.pc = "idle"
    /\ f \in server.pending
    /\ server' = IF stored = NoIndex
                 THEN [server EXCEPT !.pending = @ \ {f}]
                 ELSE [server EXCEPT !.pending = @ \ {f}, !.pc = "loaded", !.file = f,
                                     !.loaded = stored, !.added = disk[f]]
    /\ kept' = IF stored = NoIndex THEN kept ELSE Point
    /\ UNCHANGED <<disk, edits, stored, collection, used, uiKey, ui, disturbed>>

(* update_json_and_lexical_index saves the index it has loaded, with the    *)
(* chunk of the file as it was at some moment since, over whatever is there *)
(* by now; then embed_batch.  It ends with an error when the lexical index  *)
(* cannot be opened after the save or when the engine has no model.         *)
SaveUpdate ==
    /\ server.pc = "loaded"
    /\ \E c \in {server.added, disk[server.file]} :
         /\ stored' = [server.loaded EXCEPT ![server.file] = c]
         /\ \/ /\ server' = Calling([server EXCEPT !.loaded = NoIndex, !.added = c,
                                      !.deleted = server.loaded[server.file]])
               /\ disturbed' = (disturbed \/ stored # server.loaded)
            \/ server' = UpdateEnds(server) /\ disturbed' = TRUE
    /\ UNCHANGED <<disk, edits, collection, used, uiKey, ui, kept>>

(* Mutant: a file that had no chunk before is not upserted. *)
WatcherEnsureOnly ==
    /\ server.pc = "ensure"
    /\ Created \/ NothingDone
    /\ server' = IF server.deleted = NoChunk THEN UpdateEnds(server)
                 ELSE [server EXCEPT !.pc = "delete"]
    /\ UNCHANGED <<disk, edits, stored, used, uiKey, ui, disturbed, kept>>

(* Its failure is ignored.                                                 *)
WatcherEnsure ==
    /\ server.pc = "ensure"
    /\ Created \/ NothingDone
    /\ server' = [server EXCEPT !.pc =
                    IF server.deleted # NoChunk THEN "delete" ELSE "upsert"]
    /\ UNCHANGED <<disk, edits, stored, used, uiKey, ui, disturbed, kept>>

(* delete_points, by the ids of the index; its failure is ignored.         *)
WatcherDelete ==
    /\ server.pc \in {"delete", "forget"}
    /\ Deleted(server.key, {StableId(server.file, server.deleted)}) \/ NothingDone
    /\ server' = IF server.pc = "forget" THEN UpdateEnds(server)
                 ELSE [server EXCEPT !.pc = "upsert"]
    /\ UNCHANGED <<disk, edits, stored, used, uiKey, ui, disturbed, kept>>

(* upsert_chunks, by the ids of extract_chunks_for_file; a failure is the   *)
(* update's, and nothing tries it again.                                    *)
WatcherUpsert ==
    /\ server.pc = "upsert"
    /\ LET new == {PointOf(server.key, server.file, server.added)}
       IN \/ Upserted(new) /\ UNCHANGED disturbed
          \/ (Upserted(new) \/ NothingDone) /\ disturbed' = TRUE
    /\ server' = UpdateEnds(server)
    /\ UNCHANGED <<disk, edits, stored, used, uiKey, ui, kept>>

(* mcp-server stops and starts: its events are lost, and its ids change.    *)
RestartServer ==
    /\ \E k \in Keys \ used :
         /\ used' = used \union {k}
         /\ server' = UpdateEnds([server EXCEPT !.key = k, !.pending = {}])
    /\ disturbed' = (disturbed \/ server.pc \notin {"idle", "loaded"})
    /\ UNCHANGED <<disk, edits, stored, collection, uiKey, ui, kept>>

-----------------------------------------------------------------------------
(* The index actions of the UI *)

Busy(u) == ui[u].pc # "idle"
Alone(u) == \A v \in UiTasks \ {u} : ~Busy(v)
UiEnds(u) == ui' = [ui EXCEPT ![u] = [pc |-> "idle", chunks |-> Empty]]

(* The whole project is scanned and saved, and its chunks are embedded for  *)
(* Qdrant.  An error ends the action, that of the lexical index or of the   *)
(* engine too; a project without chunks ends here.                          *)
UiIndex(u) ==
    /\ ~Busy(u)
    /\ stored' = disk
    /\ \/ /\ ui' = [ui EXCEPT ![u] =
                      IF FilesWithChunk(disk) = {}
                      THEN [pc |-> "idle", chunks |-> Empty]
                      ELSE [pc |-> "ensure", chunks |-> disk]]
          /\ disturbed' = IF Alone(u) THEN disturbed /\ server.pc # "idle" ELSE TRUE
       \/ /\ ui' = [ui EXCEPT ![u] = [pc |-> "idle", chunks |-> Empty]]
          /\ disturbed' = TRUE
    /\ kept' = Point
    /\ UNCHANGED <<disk, edits, collection, used, server, uiKey>>

UiEnsure(u) ==
    /\ ui[u].pc = "ensure"
    /\ \/ /\ Created
          /\ ui' = [ui EXCEPT ![u].pc = "upsert"]
          /\ UNCHANGED disturbed
       \/ /\ Created \/ NothingDone
          /\ UiEnds(u)
          /\ disturbed' = TRUE
    /\ UNCHANGED <<disk, edits, stored, used, server, uiKey, kept>>

UiUpsert(u) ==
    /\ ui[u].pc = "upsert"
    /\ LET new == PointsOf(uiKey, ui[u].chunks)
       IN \/ Upserted(new) /\ UiEnds(u) /\ UNCHANGED disturbed
          \/ /\ Upserted(new) \/ NothingDone
             /\ UiEnds(u)
             /\ disturbed' = TRUE
    /\ UNCHANGED <<disk, edits, stored, used, server, uiKey, kept>>

(* The clear action removes the index, then the collection.  A deletion of  *)
(* the index that fails goes unnoticed; an error of the catalog ends the    *)
(* action with the collection in place.                                     *)
UiClear(u) ==
    /\ ~Busy(u)
    /\ stored' \in {NoIndex, stored}
    /\ \/ /\ ui' = [ui EXCEPT ![u] = [pc |-> "drop", chunks |-> Empty]]
          /\ disturbed' = (disturbed \/ ~Alone(u) \/ stored' # NoIndex)
       \/ UiEnds(u) /\ UNCHANGED disturbed
    /\ UNCHANGED <<disk, edits, collection, used, server, uiKey, kept>>

(* delete_collection; its failure is ignored.                              *)
UiDrop(u) ==
    /\ ui[u].pc = "drop"
    /\ UiEnds(u)
    /\ \/ /\ exists' = FALSE /\ points' = {}
          /\ kept' = IF stored = NoIndex THEN OnTheirWay ELSE kept
       \/ NothingDone /\ UNCHANGED kept
    /\ UNCHANGED <<disk, edits, stored, used, server, uiKey, disturbed>>

RestartUi ==
    /\ \E k \in Keys \ used : used' = used \union {k} /\ uiKey' = k
    /\ ui' = [u \in UiTasks |-> [pc |-> "idle", chunks |-> Empty]]
    /\ disturbed' = (disturbed \/ \E u \in UiTasks : Busy(u))
    /\ UNCHANGED <<disk, edits, stored, collection, server, kept>>

-----------------------------------------------------------------------------
(* The CLI changes the index alone *)

CliIndex ==
    /\ stored' = disk
    /\ disturbed' = TRUE
    /\ UNCHANGED <<disk, edits, collection, used, server, uiKey, ui, kept>>

(* add-repo saves an empty index for a project that has none.              *)
CliAdd ==
    /\ stored = NoIndex
    /\ stored' = Empty
    /\ disturbed' = (disturbed \/ \E u \in UiTasks : Busy(u))
    /\ UNCHANGED <<disk, edits, collection, used, server, uiKey, ui, kept>>

(* A deletion that fails changes nothing.                                   *)
CliRemove ==
    /\ stored' = NoIndex
    /\ UNCHANGED <<disk, edits, collection, used, server, uiKey, ui, disturbed,
                   kept>>

-----------------------------------------------------------------------------
WatcherStep == (\E f \in Files : LoadIndex(f)) \/ SaveUpdate \/ WatcherEnsure
               \/ WatcherDelete \/ WatcherUpsert
UiStep(u) == UiEnsure(u) \/ UiUpsert(u) \/ UiDrop(u)

Next ==
    \/ \E f \in Files : Edit(f) \/ LoadIndex(f)
    \/ SaveUpdate \/ WatcherEnsure \/ WatcherDelete \/ WatcherUpsert
    \/ RestartServer
    \/ \E u \in UiTasks : UiIndex(u) \/ UiEnsure(u) \/ UiUpsert(u) \/ UiClear(u)
                          \/ UiDrop(u)
    \/ RestartUi
    \/ CliIndex \/ CliAdd \/ CliRemove

Spec == Init /\ [][Next]_vars

(* Tasks run while their process does, and every call to Qdrant returns.   *)
FairSpec == Spec /\ WF_vars(WatcherStep) /\ \A u \in UiTasks : WF_vars(UiStep(u))

-----------------------------------------------------------------------------
(* Properties *)

AllIdle == server.pc = "idle" /\ \A u \in UiTasks : ~Busy(u)

(* Every chunk of the stored index has its vector in the collection, under  *)
(* the key of some run, once the watcher and the UI are done: the two       *)
(* stores that they write one after the other, in any interleaving and over *)
(* restarts, agree unless something gave up, or an update saved over what   *)
(* another program had saved since it loaded, since the UI last indexed:    *)
(* and an index action of the UI is all it takes to mend that.              *)
StoredChunksHaveVectors ==
    stored # NoIndex /\ AllIdle /\ ~disturbed
        => \A f \in FilesWithChunk(stored) :
             \E k \in used : PointOf(k, f, stored[f]) \in points

(* After a clear action has dropped the collection of a project without     *)
(* index, nothing fills it again but the calls that were on their way, until *)
(* the UI indexes or an update finds an index: an event that comes late has *)
(* no index to be applied to.                                               *)
ClearLeavesNothingNew == points \subseteq kept

(* The update of the watcher, or an index action, that still has the vector *)
(* of what is stored of f to write.                                         *)
Coming(f) ==
    \/ server.pc \in {"ensure", "delete", "upsert"} /\ server.file = f
       /\ server.added = stored[f]
    \/ \E u \in UiTasks : ui[u].pc \in {"ensure", "upsert"} /\ ui[u].chunks[f] = stored[f]

(* A vector that no call under way can replace: the run that made it is     *)
(* gone, or is not about to write this file.                                *)
There(f) ==
    \E k \in used :
      /\ PointOf(k, f, stored[f]) \in points
      /\ k = server.key => ~(server.pc \in {"ensure", "delete", "upsert"}
                             /\ server.file = f)
      /\ k = uiKey => \A u \in UiTasks : ~(ui[u].pc \in {"ensure", "upsert"})

(* Each run writes under a key of its own, so the UI and the server never   *)
(* replace each other's points.                                             *)
KeysApart == server.key \in used /\ uiKey \in used /\ server.key # uiKey

CallsHaveChunks ==
    /\ server.pc # "idle" => server.file \in Files
    /\ server.pc = "loaded" => server.loaded # NoIndex
    /\ server.pc \in {"ensure", "delete", "upsert"} => server.added # NoChunk
    /\ server.pc \in {"delete", "forget"} => server.deleted # NoChunk

(* Index actions do not overlap, a collection is only dropped while the     *)
(* project has no index, and what is stored has its vector or one is coming. *)
InStep ==
    /\ \A u \in UiTasks : Busy(u) => Alone(u)
    /\ \A u \in UiTasks : ui[u].pc = "drop" => stored = NoIndex
    /\ stored # NoIndex => \A f \in FilesWithChunk(stored) : Coming(f) \/ There(f)

(* Neither a point that is there nor one on its way is more than a clear     *)
(* action has left.                                                         *)
NothingNew == ClearLeavesNothingNew /\ OnTheirWay \subseteq kept

(* The inductive invariant: unless disturbed, all programs are in step.     *)
VectorInv ==
    /\ TypeOK
    /\ KeysApart
    /\ CallsHaveChunks
    /\ NothingNew
    /\ disturbed \/ InStep

(* A chunk does not stay stored without its vector, unless something gives  *)
(* up or an update undoes what another program has saved.                   *)
StoredGetsVector ==
    \A f \in Files : \A c \in Chunk :
        []<>(\/ disturbed
             \/ stored = NoIndex \/ stored[f] # c
             \/ \E k \in used : PointOf(k, f, c) \in points)

(* What the documentation says and the code does not do *)

(* The collection names chunks of the index, so that its hits can become    *)
(* results: docs/project-implementation-summary names Qdrant as a source of *)
(* the semantic retrieval.                                                  *)
PointsNameChunks ==
    stored # NoIndex /\ AllIdle /\ ~disturbed
        => \A p \in points : \E f \in FilesWithChunk(stored) :
              p.chunk_id = StableId(f, stored[f])

(* A chunk id has one point id: the test hash_id_is_stable.                 *)
OnePointPerChunk ==
    \A p, q \in points : p.chunk_id = q.chunk_id => p = q

(* No update writes a point that is already there: the documentation speaks *)
(* of deduplication by fingerprints.                                        *)
UnchangedChunksAreSkipped ==
    [][server.pc = "upsert" /\ server'.pc = "idle" /\ server'.key = server.key
         => PointOf(server.key, server.file, server.added) \notin points]_vars

=============================================================================
