----------------------------- MODULE IndexStore -----------------------------
(***************************************************************************)
(* The index store of codivex-mcp: what the directory <cwd>/.codivex holds *)
(* of every project, and the processes that read and write it without any  *)
(* lock of their own.                                                      *)
(*                                                                         *)
(*   json     project-indexes/<key>.json, the chunks of one project        *)
(*   catalog  project-catalog.json, the list of projects                   *)
(*   selected selected-project.txt                                         *)
(*   lex      storage/<key>/tantivy, the persisted lexical index           *)
(*   writer   who holds the Tantivy writer lock of that directory          *)
(*                                                                         *)
(* Indexers are the CLI and the admin UI, watchers the per-project tasks   *)
(* of mcp-server, searchers its search requests.  One step is one file     *)
(* operation that another process can observe: fs::write first truncates   *)
(* and then writes, and what a reader finds in between does not parse.     *)
(***************************************************************************)
EXTENDS Naturals, FiniteSets

CONSTANTS
    Projects,   \* project paths that assert_state_write_target accepts
    Files,      \* source files of a project; one chunk stands for a file's chunks
    Versions,   \* contents a file can have, numbered from 1
    Indexers,   \* CLI and UI processes running one command at a time
    Watchers,   \* watcher tasks of the running mcp-server processes
    Searchers,  \* concurrent search requests of mcp-server
    Watches,    \* the project each watcher task watches
    Indexed,    \* projects indexed from the UI or CLI before the model starts
    Commands,   \* the commands users issue: a bound for model checking
    Faults,     \* whether a process may die or a file operation fail
    NoOne,      \* holder of a free writer lock
    NoProject   \* "no project": empty selection, or the project of an idle task

Writers == Indexers \union Watchers

ASSUME StoreAssumption ==
    /\ IsFiniteSet(Files)
    /\ Versions \subseteq Nat \ {0}
    /\ Indexers \intersect Watchers = {}
    /\ Searchers \intersect Writers = {}
    /\ NoOne \notin Writers \union Searchers
    /\ NoProject \notin Projects
    /\ Watches \in [Watchers -> Projects]
    /\ Indexed \subseteq Projects
    /\ Commands \subseteq {"index", "add", "remove", "clear"}
    /\ Faults \in BOOLEAN

VARIABLES
    disk,       \* the file contents of every project, 0 when a file is absent
    json, catalog, selected, lex, writer,
    pending,    \* files of the queued notify events of every watcher
    serverUp,   \* whether mcp-server, which runs watchers and searches, is up
    task,       \* the command or the incremental update every writer runs
    search      \* the request every searcher serves

(* History variables: they record, they never enable or disable a step.     *)
VARIABLES
    settled,    \* projects whose last operation was clean and succeeded
    lost,       \* projects whose catalog entry an overlap or a death may have lost
    removal     \* whether a project was removed since it was added or indexed

store == <<json, catalog, selected, lex, writer>>
history == <<settled, lost, removal>>
vars == <<disk, store, pending, serverUp, task, search, history>>

-----------------------------------------------------------------------------
(* Values *)

Content == Versions \union {0}
Snapshot == [Files -> Content]
NoChunks == [f \in Files |-> 0]

FileStates == {"missing", "empty", "garbled", "whole"}
JsonFile == [state : FileStates, chunks : Snapshot]

(* A catalog maps the listed projects to their chunks_extracted.            *)
Entries == UNION {[S -> 0..Cardinality(Files)] : S \in SUBSET Projects}
NoEntries == [p \in {} |-> 0]
CatalogFile == [state : FileStates, entries : Entries]

(* A raw id is "path:row:row" of chunking.rs, a stable id is                *)
(* "path:line:line:symbol" of chunk_stable_id; no id is both.               *)
Doc == [file : Files, version : Versions, id : {"raw", "stable"}]

(* A Tantivy directory is bare without its meta.json and torn when a file   *)
(* that meta.json names is missing: what a deletion that stops half-way     *)
(* leaves.                                                                  *)
DirStates == {"absent", "bare", "torn", "whole"}
LexDir == [state : DirStates, docs : SUBSET Doc]
DirWithout(state) == [state |-> state, docs |-> {}]
NoDir == DirWithout("absent")

Kinds == {"none", "index", "add", "remove", "clear", "watch"}
Phases == {"idle", "scan", "truncate", "write", "cat_read", "cat_truncate",
           "cat_write", "open", "reset", "commit", "unlink", "rmdir",
           "deselect"}
Task == [pc : Phases, kind : Kinds, project : Projects \union {NoProject},
         chunks : Snapshot, seen : Entries, view : SUBSET Doc,
         clean : BOOLEAN]   \* alone on its project, and no deletion of it failed
IdleTask == [pc |-> "idle", kind |-> "none", project |-> NoProject,
             chunks |-> NoChunks, seen |-> NoEntries, view |-> {},
             clean |-> FALSE]

Search == [pc : {"idle", "ranking", "opening", "reading"},
           project : Projects \union {NoProject},
           query : [file : Files \union {NoProject}, version : Content]]
IdleSearch == [pc |-> "idle", project |-> NoProject,
               query |-> [file |-> NoProject, version |-> 0]]

Count(chunks) == Cardinality({f \in Files : chunks[f] # 0})
DocsOf(chunks, id) ==
    {[file |-> f, version |-> chunks[f], id |-> id] :
        f \in {g \in Files : chunks[g] # 0}}

TypeOK ==
    /\ disk \in [Projects -> Snapshot]
    /\ json \in [Projects -> JsonFile]
    /\ catalog \in CatalogFile
    /\ selected \in Projects \union {NoProject}
    /\ lex \in [Projects -> LexDir]
    /\ writer \in [Projects -> Writers \union Searchers \union {NoOne}]
    /\ pending \in [Watchers -> SUBSET Files]
    /\ serverUp \in BOOLEAN
    /\ task \in [Writers -> Task]
    /\ search \in [Searchers -> Search]
    /\ settled \in [Projects -> BOOLEAN]
    /\ lost \in SUBSET Projects
    /\ removal \in [Projects -> {"none", "clean", "other"}]

-----------------------------------------------------------------------------
(* Reading and writing one file *)

(* load_project_index: a file that is absent or does not parse is no index. *)
Loads(p) == json[p].state = "whole"

(* The second half of fs::write puts the bytes where the truncation left    *)
(* the file.  If another process wrote it since, a shorter text leaves the  *)
(* other's tail and the file does not parse; if the file was unlinked, the  *)
(* bytes go to the unlinked file.                                           *)
WholeJson(chunks) == [state |-> "whole", chunks |-> chunks]
BrokenJson(state) == [state |-> state, chunks |-> NoChunks]
JsonAfterWrite(old, chunks) ==
    IF old.state = "missing" THEN {old}
    ELSE {WholeJson(chunks)} \union
         (IF old.state = "empty" THEN {} ELSE {BrokenJson("garbled")})

WholeCatalog(entries) == [state |-> "whole", entries |-> entries]
BrokenCatalog(state) == [state |-> state, entries |-> NoEntries]
CatalogAfterWrite(old, entries) ==
    IF old.state = "empty" THEN {WholeCatalog(entries)}
    ELSE {WholeCatalog(entries), BrokenCatalog("garbled")}

Upsert(entries, p, n) ==
    [q \in DOMAIN entries \union {p} |-> IF q = p THEN n ELSE entries[q]]

(* Mutant: the other entries are dropped, and that of the project stays. *)
RetainRemoved(entries, p) == [q \in DOMAIN entries \intersect {p} |-> entries[q]]

Retain(entries, p) == [q \in DOMAIN entries \ {p} |-> entries[q]]

-----------------------------------------------------------------------------
(* Starting, advancing and ending a task *)

Busy(a) == task[a].pc # "idle"
At(a, pc) == task[a].pc = pc

Begin(a, kind, p, pc, chunks) ==
    /\ task' = [b \in Writers |->
            IF b = a
            THEN [IdleTask EXCEPT !.pc = pc, !.kind = kind, !.project = p,
                    !.chunks = chunks,
                    !.clean = \A c \in Writers : task[c].project # p]
            ELSE [task[b] EXCEPT !.clean = @ /\ task[b].project # p]]
    /\ settled' = [settled EXCEPT ![p] = FALSE]
    /\ removal' = [removal EXCEPT
                    ![p] = IF kind \in {"index", "add"} THEN "none" ELSE @]
    /\ UNCHANGED lost

Goto(a, pc) == task' = [task EXCEPT ![a].pc = pc]

Removals == {"remove", "clear"}

Succeed(a) ==
    LET p == task[a].project
    IN  /\ task' = [task EXCEPT ![a] = IdleTask]
        /\ settled' = [settled EXCEPT ![p] = task[a].clean]
        /\ removal' = [removal EXCEPT ![p] =
                IF task[a].kind \notin Removals THEN @
                ELSE IF task[a].clean \/ @ = "clean" THEN "clean" ELSE "other"]

(* The process dies or an operation of it fails: the kernel drops the       *)
(* writer locks, and nothing undoes what was already written.               *)
Abort(S) ==
    /\ task' = [a \in Writers |-> IF a \in S THEN IdleTask ELSE task[a]]
    /\ lost' = IF \E a \in S : At(a, "cat_write") THEN Projects ELSE lost
    /\ UNCHANGED <<settled, removal>>

Release(S) ==
    writer' = [p \in Projects |-> IF writer[p] \in S THEN NoOne ELSE writer[p]]

-----------------------------------------------------------------------------
(* Commands of the CLI and of the admin UI *)

(* index_now, and the UI's "index" action: the project becomes the selected *)
(* one before anything is scanned.                                          *)
IndexNow(a, p) ==
    /\ ~Busy(a)
    /\ selected' = p
    /\ Begin(a, "index", p, "scan", NoChunks)
    /\ UNCHANGED <<disk, json, catalog, lex, writer, pending, serverUp, search>>

(* run_index: scan the tree and extract the chunks of every readable file.  *)
ScanAndExtract(a) ==
    /\ At(a, "scan")
    /\ task' = [task EXCEPT ![a].pc = "truncate",
                            ![a].chunks = disk[task[a].project]]
    /\ UNCHANGED <<disk, store, pending, serverUp, search, history>>

(* add_repo: select, then ensure_catalog_entry saves an empty index unless  *)
(* one can be loaded.                                                       *)
AddRepo(a, p) ==
    /\ ~Busy(a)
    /\ selected' = p
    /\ IF Loads(p)
       THEN /\ removal' = [removal EXCEPT ![p] = "none"]
            /\ UNCHANGED <<task, settled, lost>>
       ELSE Begin(a, "add", p, "truncate", NoChunks)
    /\ UNCHANGED <<disk, json, catalog, lex, writer, pending, serverUp, search>>

(* remove_repo of the CLI.                                                  *)
RemoveRepo(a, p) ==
    /\ ~Busy(a)
    /\ Begin(a, "remove", p, "unlink", NoChunks)
    /\ UNCHANGED <<disk, store, pending, serverUp, search>>

(* The UI's "clear" action selects the project and then removes its index.  *)
ClearIndex(a, p) ==
    /\ ~Busy(a)
    /\ selected' = p
    /\ Begin(a, "clear", p, "unlink", NoChunks)
    /\ UNCHANGED <<disk, json, catalog, lex, writer, pending, serverUp, search>>

-----------------------------------------------------------------------------
(* save_project_index and its upsert_catalog_entry *)

TruncateJson(a) ==
    /\ At(a, "truncate")
    /\ json' = [json EXCEPT ![task[a].project] = BrokenJson("empty")]
    /\ Goto(a, "write")
    /\ UNCHANGED <<disk, catalog, selected, lex, writer, pending, serverUp,
                   search, history>>

WriteJson(a) ==
    LET p == task[a].project
    IN  /\ At(a, "write")
        /\ \E new \in JsonAfterWrite(json[p], task[a].chunks) :
                json' = [json EXCEPT ![p] = new]
        /\ Goto(a, "cat_read")
        /\ UNCHANGED <<disk, catalog, selected, lex, writer, pending, serverUp,
                       search, history>>

(* read_catalog: an unreadable or unparsable catalog reads as an empty one. *)
ReadCatalog(a) ==
    /\ At(a, "cat_read")
    /\ task' = [task EXCEPT ![a].pc = "cat_truncate",
                            ![a].seen = catalog.entries]
    /\ UNCHANGED <<disk, store, pending, serverUp, search, history>>

TruncateCatalog(a) ==
    /\ At(a, "cat_truncate")
    /\ catalog' = BrokenCatalog("empty")
    /\ Goto(a, "cat_write")
    /\ UNCHANGED <<disk, json, selected, lex, writer, pending, serverUp,
                   search, history>>

(* The entries written back are those read before the truncation, with this *)
(* project's entry updated, inserted or, in remove_project_index, dropped.  *)
NewEntries(a) ==
    LET t == task[a]
    IN  IF t.kind \in Removals THEN Retain(t.seen, t.project)
        ELSE Upsert(t.seen, t.project, Count(t.chunks))

InCatalog == {"cat_truncate", "cat_write"}

(* The catalog that was read is forgotten.                                  *)
EndSave(a, pc) == task' = [task EXCEPT ![a].pc = pc, ![a].seen = NoEntries]

WriteCatalog(a) ==
    /\ At(a, "cat_write")
    /\ catalog' \in CatalogAfterWrite(catalog, NewEntries(a))
    /\ lost' = IF /\ catalog'.state = "whole"
                  /\ \A b \in Writers \ {a} : task[b].pc \notin InCatalog
               THEN lost \ {task[a].project} ELSE Projects
    /\ \/ /\ task[a].kind \in {"index", "watch"}
          /\ EndSave(a, "open")
          /\ UNCHANGED <<settled, removal>>
       \/ /\ task[a].kind = "remove"
          /\ EndSave(a, "deselect")
          /\ UNCHANGED <<settled, removal>>
       \/ /\ task[a].kind \in {"add", "clear"}
          /\ Succeed(a)
    /\ UNCHANGED <<disk, json, selected, lex, writer, pending, serverUp, search>>

-----------------------------------------------------------------------------
(* persist_tantivy_index *)

(* open_or_create_on_disk creates an empty index where there is no          *)
(* meta.json, before it asks for the writer lock.                           *)
Opened(dir) == [dir EXCEPT !.state = IF @ = "torn" THEN @ ELSE "whole"]
Opens(p) == writer[p] = NoOne /\ lex[p].state # "torn"

(* Mutant: a rebuild that appends to what it finds. *)
OpenIndexWithoutReset(a) ==
    LET p == task[a].project
    IN  /\ At(a, "open")
        /\ Opens(p)
        /\ writer' = [writer EXCEPT ![p] = a]
        /\ lex' = [lex EXCEPT ![p] = Opened(@)]
        /\ task' = [task EXCEPT ![a].pc = "commit", ![a].view = lex[p].docs]
        /\ UNCHANGED <<disk, json, catalog, selected, pending, serverUp,
                       search, history>>

(* It takes the exclusive writer lock of the directory and reads the index, *)
(* or returns an error: nobody waits for the lock.                          *)
OpenIndex(a) ==
    LET p == task[a].project
    IN  /\ At(a, "open")
        /\ Opens(p)
        /\ writer' = [writer EXCEPT ![p] = a]
        /\ lex' = [lex EXCEPT ![p] = Opened(@)]
        /\ task' = [task EXCEPT ![a].pc = "reset", ![a].view = lex[p].docs]
        /\ UNCHANGED <<disk, json, catalog, selected, pending, serverUp,
                       search, history>>

OpenIndexFails(a) ==
    LET p == task[a].project
    IN  /\ At(a, "open")
        /\ ~Opens(p)
        /\ lex' = [lex EXCEPT ![p] = Opened(@)]
        /\ Abort({a})
        /\ UNCHANGED <<disk, json, catalog, selected, writer, pending, serverUp,
                       search>>

(* reset: delete_all_documents and a commit of its own.  A writer works     *)
(* through paths: once its directory was removed its commits fail, or       *)
(* replace what another writer put into the directory since.  A commit      *)
(* writes a new meta.json, whatever it finds.                               *)
ResetIndex(a) ==
    LET p == task[a].project
    IN  /\ At(a, "reset")
        /\ lex[p] # NoDir
        /\ lex' = [lex EXCEPT ![p] = DirWithout("whole")]
        /\ task' = [task EXCEPT ![a].pc = "commit", ![a].view = {}]
        /\ UNCHANGED <<disk, json, catalog, selected, writer, pending, serverUp,
                       search, history>>

IdOf(kind) == IF kind = "watch" THEN "stable" ELSE "raw"

(* add_chunk for every chunk, commit, and the lock dropped with the writer. *)
(* The CLI and the UI add the ids of chunking.rs, the watcher its own.      *)
CommitIndex(a) ==
    LET p == task[a].project
    IN  /\ At(a, "commit")
        /\ lex[p] # NoDir
        /\ lex' = [lex EXCEPT ![p] = [state |-> "whole",
                docs |-> task[a].view \union
                         DocsOf(task[a].chunks, IdOf(task[a].kind))]]
        /\ Release({a})
        /\ Succeed(a)
        /\ UNCHANGED <<disk, json, catalog, selected, pending, serverUp, search,
                       lost>>

IndexDirGone(a) ==
    /\ task[a].pc \in {"reset", "commit"}
    /\ lex[task[a].project] = NoDir
    /\ Abort({a})
    /\ UNCHANGED <<disk, store, pending, serverUp, search>>

-----------------------------------------------------------------------------
(* remove_project_index, and what remove_repo does after it *)

(* A deletion that fails is passed over, and all the rest takes place.      *)
GotoUnclean(a, pc) == task' = [task EXCEPT ![a].pc = pc, ![a].clean = FALSE]

UnlinkJson(a) ==
    LET p == task[a].project
    IN  /\ At(a, "unlink")
        /\ \/ /\ json' = [json EXCEPT ![p] = BrokenJson("missing")]
              /\ Goto(a, "rmdir")
           \/ /\ Faults
              /\ json[p].state # "missing"
              /\ GotoUnclean(a, "rmdir")
              /\ UNCHANGED json
        /\ UNCHANGED <<disk, catalog, selected, lex, writer, pending, serverUp,
                       search, history>>

(* Mutant: the chunks removed and the storage directory kept. *)
KeepStorageDir(a) ==
    /\ At(a, "rmdir")
    /\ Goto(a, "cat_read")
    /\ UNCHANGED <<disk, json, catalog, selected, lex, writer, pending,
                   serverUp, search, history>>

(* What a deletion of the directory that stops half-way may leave there.    *)
Leftovers(dir) ==
    {dir, DirWithout("bare")} \union
    (IF dir.docs # {} THEN {DirWithout("torn")} ELSE {})

(* remove_dir_all also deletes the lock file: the next opener creates and   *)
(* locks a new one, whoever still holds the old one.                        *)
RemoveStorageDir(a) ==
    LET p == task[a].project
    IN  /\ At(a, "rmdir")
        /\ \/ /\ lex' = [lex EXCEPT ![p] = NoDir]
              /\ writer' = [writer EXCEPT ![p] = NoOne]
              /\ Goto(a, "cat_read")
           \/ /\ Faults
              /\ lex[p] # NoDir
              /\ \E dir \in Leftovers(lex[p]) : lex' = [lex EXCEPT ![p] = dir]
              /\ \E w \in {writer[p], NoOne} : writer' = [writer EXCEPT ![p] = w]
              /\ GotoUnclean(a, "cat_read")
        /\ UNCHANGED <<disk, json, catalog, selected, pending, serverUp, search,
                       history>>

Deselect(a) ==
    /\ At(a, "deselect")
    /\ selected' = IF selected = task[a].project THEN NoProject ELSE selected
    /\ Succeed(a)
    /\ UNCHANGED <<disk, json, catalog, lex, writer, pending, serverUp, search,
                   lost>>

-----------------------------------------------------------------------------
(* The watchers of mcp-server *)

(* Somebody edits, creates or deletes a file; notify queues the event for   *)
(* every watcher of the project that runs.                                  *)
EditFile(p, f, v) ==
    /\ disk[p][f] # v
    /\ disk' = [disk EXCEPT ![p][f] = v]
    /\ pending' = [w \in Watchers |->
            IF serverUp /\ Watches[w] = p THEN pending[w] \union {f}
            ELSE pending[w]]
    /\ UNCHANGED <<store, serverUp, task, search, history>>

(* Mutant: one update answers for every queued event. *)
UpdateFileDropsRest(w, f) ==
    LET p == Watches[w]
    IN  /\ serverUp
        /\ ~Busy(w)
        /\ f \in pending[w]
        /\ pending' = [pending EXCEPT ![w] = {}]
        /\ IF Loads(p)
           THEN Begin(w, "watch", p, "truncate",
                      [json[p].chunks EXCEPT ![f] = disk[p][f]])
           ELSE UNCHANGED <<task, history>>
        /\ UNCHANGED <<disk, store, serverUp, search>>

(* Mutant: without an index the update starts an empty one. *)
UpdateFileAnyway(w, f) ==
    LET p == Watches[w]
    IN  /\ serverUp
        /\ ~Busy(w)
        /\ f \in pending[w]
        /\ pending' = [pending EXCEPT ![w] = @ \ {f}]
        /\ Begin(w, "watch", p, "truncate",
                 [json[p].chunks EXCEPT ![f] = disk[p][f]])
        /\ UNCHANGED <<disk, store, serverUp, search>>

(* update_json_and_lexical_index: without a loadable index the event ends   *)
(* in the error "project not indexed yet"; otherwise the chunks of the file *)
(* are dropped from the loaded index and extracted again.                   *)
UpdateFile(w, f) ==
    LET p == Watches[w]
    IN  /\ serverUp
        /\ ~Busy(w)
        /\ f \in pending[w]
        /\ pending' = [pending EXCEPT ![w] = @ \ {f}]
        /\ IF Loads(p)
           THEN Begin(w, "watch", p, "truncate",
                      [json[p].chunks EXCEPT ![f] = disk[p][f]])
           ELSE UNCHANGED <<task, history>>
        /\ UNCHANGED <<disk, store, serverUp, search>>

-----------------------------------------------------------------------------
(* Searches: scoped_project_results and lexical_ranked_ids *)

(* A request asks for the content of some chunk of the loaded index; one    *)
(* that finds no index or no chunk returns at once and changes nothing.     *)
SearchLoad(s, p, f) ==
    /\ serverUp
    /\ search[s].pc = "idle"
    /\ Loads(p)
    /\ json[p].chunks[f] # 0
    /\ search' = [search EXCEPT ![s] =
            [pc |-> "ranking", project |-> p,
             query |-> [file |-> f, version |-> json[p].chunks[f]]]]
    /\ UNCHANGED <<disk, store, pending, serverUp, task, history>>

(* Only a directory that has a meta.json is opened; without one, or when it *)
(* cannot be opened, an in-memory index is built from the loaded chunks and *)
(* answers the request.                                                     *)
SearchCheck(s) ==
    /\ search[s].pc = "ranking"
    /\ search' = [search EXCEPT ![s] =
            IF lex[@.project].state \in {"torn", "whole"}
            THEN [@ EXCEPT !.pc = "opening"] ELSE IdleSearch]
    /\ UNCHANGED <<disk, store, pending, serverUp, task, history>>

(* Mutant: the search opens and reads without the writer lock. *)
SearchOpenUnlocked(s) ==
    LET p == search[s].project
    IN  /\ search[s].pc = "opening"
        /\ lex[p].state # "torn"
        /\ lex' = [lex EXCEPT ![p] = Opened(@)]
        /\ search' = [search EXCEPT ![s].pc = "reading"]
        /\ UNCHANGED <<disk, json, catalog, selected, writer, pending, serverUp,
                       task, history>>

(* The search opens the persisted index as a writer too, so it needs the    *)
(* lock for the time of the search.  A directory that was removed since it  *)
(* was looked at gets an empty index.                                       *)
SearchOpen(s) ==
    LET p == search[s].project
    IN  /\ search[s].pc = "opening"
        /\ Opens(p)
        /\ lex' = [lex EXCEPT ![p] = Opened(@)]
        /\ writer' = [writer EXCEPT ![p] = s]
        /\ search' = [search EXCEPT ![s].pc = "reading"]
        /\ UNCHANGED <<disk, json, catalog, selected, pending, serverUp, task,
                       history>>

SearchInMemory(s) ==
    LET p == search[s].project
    IN  /\ search[s].pc = "opening"
        /\ ~Opens(p)
        /\ lex' = [lex EXCEPT ![p] = Opened(@)]
        /\ search' = [search EXCEPT ![s] = IdleSearch]
        /\ UNCHANGED <<disk, json, catalog, selected, writer, pending, serverUp,
                       task, history>>

SearchClose(s) ==
    /\ search[s].pc = "reading"
    /\ search' = [search EXCEPT ![s] = IdleSearch]
    /\ Release({s})
    /\ UNCHANGED <<disk, json, catalog, selected, lex, pending, serverUp, task,
                   history>>

-----------------------------------------------------------------------------
(* Failures *)

(* A CLI or UI command is killed or fails in the middle, or one update of a *)
(* watcher fails.                                                           *)
TaskFails(a) ==
    /\ Faults
    /\ Busy(a)
    /\ Abort({a})
    /\ Release({a})
    /\ UNCHANGED <<disk, json, catalog, selected, lex, pending, serverUp, search>>

(* mcp-server dies with everything in flight and every queued event.        *)
ServerCrash ==
    /\ Faults
    /\ serverUp
    /\ serverUp' = FALSE
    /\ Abort(Watchers)
    /\ Release(Watchers \union Searchers)
    /\ pending' = [w \in Watchers |-> {}]
    /\ search' = [s \in Searchers |-> IdleSearch]
    /\ UNCHANGED <<disk, json, catalog, selected, lex>>

ServerStart ==
    /\ ~serverUp
    /\ serverUp' = TRUE
    /\ UNCHANGED <<disk, store, pending, task, search, history>>

-----------------------------------------------------------------------------
(* The specification *)

Init ==
    /\ disk \in [Projects -> Snapshot]
    /\ json = [p \in Projects |-> IF p \in Indexed THEN WholeJson(disk[p])
                                  ELSE BrokenJson("missing")]
    /\ catalog = WholeCatalog([p \in Indexed |-> Count(disk[p])])
    /\ selected = NoProject
    /\ lex = [p \in Projects |->
            IF p \in Indexed
            THEN [state |-> "whole", docs |-> DocsOf(disk[p], "raw")]
            ELSE NoDir]
    /\ writer = [p \in Projects |-> NoOne]
    /\ pending = [w \in Watchers |-> {}]
    /\ serverUp = TRUE
    /\ task = [a \in Writers |-> IdleTask]
    /\ search = [s \in Searchers |-> IdleSearch]
    /\ settled = [p \in Projects |-> TRUE]
    /\ lost = {}
    /\ removal = [p \in Projects |-> IF p \in Indexed THEN "none" ELSE "clean"]

Command(a, p) ==
    \/ "index" \in Commands /\ IndexNow(a, p)
    \/ "add" \in Commands /\ AddRepo(a, p)
    \/ "remove" \in Commands /\ RemoveRepo(a, p)
    \/ "clear" \in Commands /\ ClearIndex(a, p)

Advance(a) ==
    \/ ScanAndExtract(a)
    \/ TruncateJson(a) \/ WriteJson(a)
    \/ ReadCatalog(a) \/ TruncateCatalog(a) \/ WriteCatalog(a)
    \/ OpenIndex(a) \/ OpenIndexFails(a)
    \/ ResetIndex(a) \/ CommitIndex(a) \/ IndexDirGone(a)
    \/ UnlinkJson(a) \/ RemoveStorageDir(a) \/ Deselect(a)

SearchStep(s) ==
    SearchCheck(s) \/ SearchOpen(s) \/ SearchInMemory(s) \/ SearchClose(s)

Next ==
    \/ \E a \in Indexers, p \in Projects : Command(a, p)
    \/ \E a \in Writers : Advance(a) \/ TaskFails(a)
    \/ \E p \in Projects, f \in Files, v \in Content : EditFile(p, f, v)
    \/ \E w \in Watchers, f \in Files : UpdateFile(w, f)
    \/ \E s \in Searchers, p \in Projects, f \in Files : SearchLoad(s, p, f)
    \/ \E s \in Searchers : SearchStep(s)
    \/ ServerCrash
    \/ ServerStart

Spec == Init /\ [][Next]_vars

(* Tokio and the operating system run every started task to its end, every  *)
(* watcher reads its queue and a server that died is started again.         *)
Fairness ==
    /\ \A a \in Writers : WF_vars(Advance(a))
    /\ \A w \in Watchers : \A f \in Files : SF_vars(UpdateFile(w, f))
    /\ \A s \in Searchers : WF_vars(SearchStep(s))
    /\ WF_vars(ServerStart)

FairSpec == Spec /\ Fairness

-----------------------------------------------------------------------------
(* Safety *)

(* A writer lock is held only by a process inside persist_tantivy_index or  *)
(* inside a search of that very directory: no path through the code, the    *)
(* failing ones and remove_dir_all included, leaves a stale lock that would *)
(* make every later rebuild of the project fail.                            *)
LockHeldByWorker ==
    \A p \in Projects :
        \/ writer[p] = NoOne
        \/ /\ writer[p] \in Writers
           /\ task[writer[p]].project = p
           /\ task[writer[p]].pc \in {"reset", "commit"}
        \/ /\ writer[p] \in Searchers
           /\ search[writer[p]].project = p
           /\ search[writer[p]].pc = "reading"

(* The documents of a persisted lexical index always come from one          *)
(* extraction: one version per file, one kind of id, whatever indexers,     *)
(* watchers, removals and crashes met in the directory.                     *)
LexicalIndexIsOneSnapshot ==
    \A p \in Projects : \A d, e \in lex[p].docs :
        /\ d.id = e.id
        /\ d.file = e.file => d = e

(* What the two properties above rest on: busy tasks work on a project and  *)
(* active searches too, a lock implies its directory, and a task that is    *)
(* about to commit chunks has emptied its index.                            *)
TypeInv ==
    /\ TypeOK
    /\ \A a \in Writers : Busy(a) => task[a].project \in Projects
    /\ \A s \in Searchers :
            search[s].pc # "idle" => search[s].project \in Projects

LockImpliesDir == \A p \in Projects : writer[p] # NoOne => lex[p] # NoDir
CommitStartsEmpty == \A a \in Writers : At(a, "commit") => task[a].view = {}

LockInv ==
    /\ LockHeldByWorker
    /\ LockImpliesDir
    /\ CommitStartsEmpty
    /\ LexicalIndexIsOneSnapshot

StoreInv == TypeInv /\ LockInv

(* The lexical index of a project as searches know it: a lock says who has  *)
(* it, a rebuild from the commit that empties it, and what a deletion that  *)
(* stopped half-way left cannot be opened as it is.  A task that works on   *)
(* after its directory was removed, if only in part, contests what comes    *)
(* there next.                                                              *)
RebuiltBy(p) == {a \in Writers : writer[p] = a /\ At(a, "commit")}
Contested(p) ==
    \E a \in Writers : /\ task[a].project = p /\ task[a].pc \in {"reset", "commit"}
                       /\ writer[p] # a \/ lex[p].state # "whole"

IndexState(p) ==
    IF lex[p].state # "whole" THEN "absent"
    ELSE IF writer[p] \in Searchers THEN "read"
    ELSE IF RebuiltBy(p) # {} THEN "rebuilding" ELSE "whole"

Extracted == {DocsOf(chunks, id) : chunks \in Snapshot, id \in {"raw", "stable"}}

Shown(p) == INSTANCE LexicalIndex
    WITH Readers <- Searchers, Extractions <- Extracted,
         state <- IndexState(p), docs <- lex[p].docs,
         readers <- {s \in Searchers : search[s].pc = "reading" /\ search[s].project = p},
         contested <- Contested(p)

(* The lock that searches take like writers keeps this promise: a search    *)
(* opens whole indexes only, a rebuild has its index alone, and without a   *)
(* removal in its way nobody else touches what it rebuilds, whoever dies.   *)
(* This is Shown(p)!Spec of every project.                                  *)
ImplementsLexicalIndex ==
    /\ \A p \in Projects : Shown(p)!Init
    /\ [][\A p \in Projects :
            UNCHANGED Shown(p)!vars \/ Shown(p)!Next]_vars

(* When the last operation on a project had the project to itself and       *)
(* succeeded in all it did, its stored index and its lexical index hold the *)
(* same chunks, and without a stored index nothing is left for a lexical    *)
(* search to find, whatever searches, crashes and operations on other       *)
(* projects came since: a search may create the removed directory again,    *)
(* but only with an empty index.  A stored index without chunks is the      *)
(* exception: add_repo saves one and leaves an older lexical index alone.   *)
SettledStoresAgree ==
    \A p \in Projects : settled[p] =>
        IF Loads(p)
        THEN json[p].chunks # NoChunks =>
                {<<d.file, d.version>> : d \in lex[p].docs} =
                {<<d.file, d.version>> : d \in DocsOf(json[p].chunks, "raw")}
        ELSE lex[p].docs = {}

(* The catalog lists a project exactly when it has an index, with its       *)
(* number of chunks, although every save of any project writes the whole    *)
(* catalog anew.  This takes more than the project being settled: since its *)
(* own entry was last written, no two tasks were between reading and        *)
(* writing the catalog at a time, and none died in that write.              *)
ListedRight(entries, p) ==
    /\ p \in DOMAIN entries <=> Loads(p)
    /\ Loads(p) => entries[p] = Count(json[p].chunks)

CatalogMatchesIndexes ==
    (\A a \in Writers : ~At(a, "cat_write")) =>
        \A p \in Projects :
            settled[p] /\ p \notin lost => ListedRight(catalog.entries, p)

(* "Remove repo": a project whose removal reported success has no index     *)
(* until somebody adds or indexes it again.  The code does not keep this:   *)
(* a deletion that fails is passed over, and an update that loaded the      *)
(* index before the removal saves it again.                                 *)
RemovedStaysGone ==
    \A p \in Projects : removal[p] # "none" => ~Loads(p)

(* A removal whose deletions took place and that met nobody else on its     *)
(* project lasts: no queued event of a watcher, no search that had passed   *)
(* its look at the directory, no command on another project, no crash and   *)
(* no later removal that fails brings chunks back into either store.        *)
UndisturbedRemovalLasts ==
    \A p \in Projects : removal[p] = "clean" => ~Loads(p) /\ lex[p].docs = {}

-----------------------------------------------------------------------------
(* What the documentation says and the code does not do *)

(* What a search that has the persisted index to itself finds there.        *)
HitsOf(s) == {d \in lex[search[s].project].docs :
                /\ d.file = search[s].query.file
                /\ d.version = search[s].query.version}

(* Hits become results through chunk_map, whose keys are stable ids.        *)
Resolves(d) == d.id = "stable"

(* When documents of the persisted index match a search for a chunk of the  *)
(* stored index, that chunk is among the results: "combining exact symbol,  *)
(* lexical BM25, and semantic retrieval".                                   *)
LexicalHitsResolve ==
    \A s \in Searchers :
        /\ search[s].pc = "reading"
        /\ writer[search[s].project] = s
        /\ HitsOf(s) # {}
        => \E d \in HitsOf(s) : Resolves(d)

-----------------------------------------------------------------------------
(* Liveness *)

(* "Background incremental updates": once a file of an indexed project is   *)
(* no longer edited, its stored chunks come to be those of its last         *)
(* content.                                                                 *)
StoredIndexCatchesUp ==
    \A p \in Projects, f \in Files, v \in Content :
        <>[](disk[p][f] = v) => <>[](json[p].state = "whole" =>
                                        json[p].chunks[f] = v)

(* The same of the persisted lexical index.                                 *)
LexicalIndexCatchesUp ==
    \A p \in Projects, f \in Files, v \in Content :
        <>[](disk[p][f] = v) =>
            []<>(\A d \in lex[p].docs : d.file = f => d.version = v)
=============================================================================
