-------------------------- MODULE IndexStoreProofs --------------------------
(***************************************************************************)
(* Theorems about IndexStore, for every set of projects, files, processes  *)
(* and searches: type correctness, the ownership of writer locks, what a   *)
(* search can meet in the lexical directory, and what the directory holds. *)
(***************************************************************************)
EXTENDS IndexStore, FiniteSetTheorems, TLAPS

-----------------------------------------------------------------------------
(* The operators return values of their types. *)

LEMMA NoEntriesType == NoEntries \in Entries
<1>1. NoEntries \in [{} -> 0..Cardinality(Files)]
  BY DEF NoEntries
<1> QED  BY <1>1 DEF Entries

LEMMA CountType ==
    ASSUME NEW chunks \in Snapshot
    PROVE  Count(chunks) \in 0..Cardinality(Files)
<1> DEFINE T == {f \in Files : chunks[f] # 0}
<1>1. T \in SUBSET Files  OBVIOUS
<1>2. IsFiniteSet(T) /\ Cardinality(T) <= Cardinality(Files)
  BY <1>1, FS_Subset, StoreAssumption
<1>3. Cardinality(T) \in Nat /\ Cardinality(Files) \in Nat
  BY <1>2, FS_CardinalityType, StoreAssumption
<1> QED  BY <1>2, <1>3 DEF Count

LEMMA UpsertType ==
    ASSUME NEW e \in Entries, NEW p \in Projects,
           NEW n \in 0..Cardinality(Files)
    PROVE  Upsert(e, p, n) \in Entries
<1>1. PICK S \in SUBSET Projects : e \in [S -> 0..Cardinality(Files)]
  BY DEF Entries
<1>2. Upsert(e, p, n) \in [S \union {p} -> 0..Cardinality(Files)]
  BY <1>1 DEF Upsert
<1> QED  BY <1>2 DEF Entries

LEMMA RetainType ==
    ASSUME NEW e \in Entries, NEW p \in Projects
    PROVE  Retain(e, p) \in Entries
<1>1. PICK S \in SUBSET Projects : e \in [S -> 0..Cardinality(Files)]
  BY DEF Entries
<1>2. Retain(e, p) \in [S \ {p} -> 0..Cardinality(Files)]
  BY <1>1 DEF Retain
<1> QED  BY <1>2 DEF Entries

LEMMA DocsOfType ==
    ASSUME NEW chunks \in Snapshot, NEW id \in {"raw", "stable"}
    PROVE  DocsOf(chunks, id) \in SUBSET Doc
BY DEF DocsOf, Doc, Snapshot, Content

LEMMA NoChunksType == NoChunks \in Snapshot
BY DEF NoChunks, Snapshot, Content

LEMMA IdleTaskType == IdleTask \in Task
BY NoEntriesType, NoChunksType DEF IdleTask, Task, Phases, Kinds

LEMMA IdleSearchType == IdleSearch \in Search
BY DEF IdleSearch, Search, Content

LEMMA JsonFileType ==
    /\ \A chunks \in Snapshot : WholeJson(chunks) \in JsonFile
    /\ \A state \in FileStates : BrokenJson(state) \in JsonFile
BY NoChunksType DEF WholeJson, BrokenJson, JsonFile, FileStates

LEMMA JsonAfterWriteType ==
    ASSUME NEW old \in JsonFile, NEW chunks \in Snapshot
    PROVE  JsonAfterWrite(old, chunks) \subseteq JsonFile
BY JsonFileType DEF JsonAfterWrite, JsonFile, FileStates

LEMMA CatalogFileType ==
    /\ \A entries \in Entries : WholeCatalog(entries) \in CatalogFile
    /\ \A state \in FileStates : BrokenCatalog(state) \in CatalogFile
BY NoEntriesType DEF WholeCatalog, BrokenCatalog, CatalogFile, FileStates

LEMMA CatalogAfterWriteType ==
    ASSUME NEW old \in CatalogFile, NEW entries \in Entries
    PROVE  CatalogAfterWrite(old, entries) \subseteq CatalogFile
BY CatalogFileType DEF CatalogAfterWrite, CatalogFile, FileStates

-----------------------------------------------------------------------------
(* Type correctness.  A busy task works on a project: this is what makes    *)
(* the updates of json, lex and writer well typed, so both are proved       *)
(* together.                                                                *)

LEMMA TypeInit == Init => TypeInv
<1> SUFFICES ASSUME Init PROVE TypeInv
  OBVIOUS
<1>1. \A p \in Projects : disk[p] \in Snapshot
  BY DEF Init
<1>2. catalog \in CatalogFile
  <2>1. Indexed \subseteq Projects
    BY StoreAssumption
  <2>2. \A p \in Indexed : Count(disk[p]) \in 0..Cardinality(Files)
    BY <1>1, <2>1, CountType
  <2>3. [p \in Indexed |-> Count(disk[p])] \in
            [Indexed -> 0..Cardinality(Files)]
    BY <2>2
  <2>4. [p \in Indexed |-> Count(disk[p])] \in Entries
    BY <2>1, <2>3 DEF Entries
  <2> QED  BY <2>4, CatalogFileType DEF Init
<1>3. json \in [Projects -> JsonFile]
  BY <1>1, JsonFileType DEF Init, FileStates
<1>4. lex \in [Projects -> LexDir]
  BY <1>1, DocsOfType DEF Init, LexDir, DirStates, NoDir, DirWithout
<1>5. TypeOK
  <2>1. /\ disk \in [Projects -> Snapshot]
        /\ selected \in Projects \union {NoProject}
        /\ writer \in [Projects -> Writers \union Searchers \union {NoOne}]
        /\ pending \in [Watchers -> SUBSET Files]
        /\ serverUp \in BOOLEAN
    BY DEF Init
  <2>2. /\ task \in [Writers -> Task]
        /\ search \in [Searchers -> Search]
    BY IdleTaskType, IdleSearchType DEF Init
  <2>3. /\ settled \in [Projects -> BOOLEAN]
        /\ lost \in SUBSET Projects
        /\ removal \in [Projects -> {"none", "clean", "other"}]
    BY DEF Init
  <2> QED  BY <1>2, <1>3, <1>4, <2>1, <2>2, <2>3 DEF TypeOK
<1>6. \A a \in Writers : ~Busy(a)
  BY DEF Init, Busy, IdleTask
<1>7. \A s \in Searchers : search[s].pc = "idle"
  BY DEF Init, IdleSearch
<1> QED  BY <1>5, <1>6, <1>7 DEF TypeInv

(* Starting, ending and aborting tasks keeps their types.                   *)
LEMMA BeginType ==
    ASSUME TypeInv, NEW a \in Writers, NEW kind \in Kinds,
           NEW p \in Projects, NEW pc \in Phases, NEW chunks \in Snapshot,
           Begin(a, kind, p, pc, chunks)
    PROVE  /\ task' \in [Writers -> Task]
           /\ \A b \in Writers : Busy(b)' => task'[b].project \in Projects
           /\ settled' \in [Projects -> BOOLEAN]
           /\ lost' \in SUBSET Projects
           /\ removal' \in [Projects -> {"none", "clean", "other"}]
<1>1. task' \in [Writers -> Task]
  BY IdleTaskType DEF TypeInv, TypeOK, Begin, Task, IdleTask
<1>2. \A b \in Writers : Busy(b)' => task'[b].project \in Projects
  BY IdleTaskType DEF TypeInv, TypeOK, Begin, Task, IdleTask, Busy
<1>3. lost' \in SUBSET Projects
  BY DEF TypeInv, TypeOK, Begin
<1>4. /\ settled' \in [Projects -> BOOLEAN]
      /\ removal' \in [Projects -> {"none", "clean", "other"}]
  BY DEF TypeInv, TypeOK, Begin
<1> QED  BY <1>1, <1>2, <1>3, <1>4

LEMMA SucceedType ==
    ASSUME TypeInv, NEW a \in Writers, Busy(a), Succeed(a)
    PROVE  /\ task' \in [Writers -> Task]
           /\ \A b \in Writers : Busy(b)' => task'[b].project \in Projects
           /\ settled' \in [Projects -> BOOLEAN]
           /\ removal' \in [Projects -> {"none", "clean", "other"}]
<1>1. task[a].project \in Projects /\ task[a].clean \in BOOLEAN
  BY DEF TypeInv, TypeOK, Task
<1>2. task' \in [Writers -> Task]
  BY IdleTaskType DEF TypeInv, TypeOK, Succeed
<1>3. \A b \in Writers : Busy(b)' => task'[b].project \in Projects
  BY IdleTaskType DEF TypeInv, TypeOK, Succeed, Busy, IdleTask
<1>4. /\ settled' \in [Projects -> BOOLEAN]
      /\ removal' \in [Projects -> {"none", "clean", "other"}]
  BY <1>1 DEF TypeInv, TypeOK, Succeed
<1> QED  BY <1>2, <1>3, <1>4

LEMMA AbortType ==
    ASSUME TypeInv, NEW S, Abort(S)
    PROVE  /\ task' \in [Writers -> Task]
           /\ \A b \in Writers : Busy(b)' => task'[b].project \in Projects
           /\ settled' \in [Projects -> BOOLEAN]
           /\ lost' \in SUBSET Projects
           /\ removal' \in [Projects -> {"none", "clean", "other"}]
<1>1. task' \in [Writers -> Task]
  BY IdleTaskType DEF TypeInv, TypeOK, Abort
<1>2. \A b \in Writers : Busy(b)' => task'[b].project \in Projects
  BY IdleTaskType DEF TypeInv, TypeOK, Abort, Busy, IdleTask
<1>3. lost' \in SUBSET Projects
  BY DEF TypeInv, TypeOK, Abort
<1> QED  BY <1>1, <1>2, <1>3 DEF TypeInv, TypeOK, Abort

LEMMA CommandType ==
    ASSUME TypeInv, NEW a \in Indexers, NEW p \in Projects, Command(a, p)
    PROVE  TypeInv'
<1> USE DEF TypeInv
<1>1. a \in Writers
  BY DEF Writers
<1>2. CASE IndexNow(a, p)
  <2>1. Begin(a, "index", p, "scan", NoChunks)
    BY <1>2 DEF IndexNow
  <2> QED
    BY <1>1, <1>2, <2>1, BeginType, NoChunksType
    DEF IndexNow, TypeOK, Kinds, Phases
<1>3. CASE AddRepo(a, p)
  <2>1. CASE Loads(p)
    BY <1>3, <2>1 DEF AddRepo, TypeOK, Busy
  <2>2. CASE ~Loads(p)
    <3>1. Begin(a, "add", p, "truncate", NoChunks)
      BY <1>3, <2>2 DEF AddRepo
    <3> QED
      BY <1>1, <1>3, <3>1, BeginType, NoChunksType
      DEF AddRepo, TypeOK, Kinds, Phases
  <2> QED  BY <2>1, <2>2
<1>4. CASE RemoveRepo(a, p)
  <2>1. Begin(a, "remove", p, "unlink", NoChunks)
    BY <1>4 DEF RemoveRepo
  <2> QED
    BY <1>1, <1>4, <2>1, BeginType, NoChunksType
    DEF RemoveRepo, TypeOK, Kinds, Phases, store
<1>5. CASE ClearIndex(a, p)
  <2>1. Begin(a, "clear", p, "unlink", NoChunks)
    BY <1>5 DEF ClearIndex
  <2> QED
    BY <1>1, <1>5, <2>1, BeginType, NoChunksType
    DEF ClearIndex, TypeOK, Kinds, Phases
<1> QED
  BY <1>2, <1>3, <1>4, <1>5 DEF Command

(* Only the pc, the chunks, the catalog read or the view of one task moves. *)
LEMMA GotoType ==
    ASSUME TypeInv, NEW a \in Writers, Busy(a), NEW pc \in Phases, Goto(a, pc)
    PROVE  /\ task' \in [Writers -> Task]
           /\ \A b \in Writers : Busy(b)' => task'[b].project \in Projects
BY DEF TypeInv, TypeOK, Goto, Busy, Task

LEMMA GotoUncleanType ==
    ASSUME TypeInv, NEW a \in Writers, Busy(a), NEW pc \in Phases,
           GotoUnclean(a, pc) \/ EndSave(a, pc)
    PROVE  /\ task' \in [Writers -> Task]
           /\ \A b \in Writers : Busy(b)' => task'[b].project \in Projects
<1>1. task[a] \in Task /\ task[a].project \in Projects
  BY DEF TypeInv, TypeOK
<1>2. PICK t \in Task : /\ task' = [task EXCEPT ![a] = t]
                        /\ t.project = task[a].project
  <2>1. CASE GotoUnclean(a, pc)
    <3> DEFINE t == [task[a] EXCEPT !.pc = pc, !.clean = FALSE]
    <3>1. t \in Task /\ t.project = task[a].project
      BY <1>1 DEF Task
    <3>2. task' = [task EXCEPT ![a] = t]
      BY <2>1 DEF GotoUnclean
    <3> QED  BY <3>1, <3>2
  <2>2. CASE EndSave(a, pc)
    <3> DEFINE t == [task[a] EXCEPT !.pc = pc, !.seen = NoEntries]
    <3>1. t \in Task /\ t.project = task[a].project
      BY <1>1, NoEntriesType DEF Task
    <3>2. task' = [task EXCEPT ![a] = t]
      BY <2>2 DEF EndSave
    <3> QED  BY <3>1, <3>2
  <2> QED  BY <2>1, <2>2
<1> QED  BY <1>1, <1>2 DEF TypeInv, TypeOK, Busy

(* What becomes of a directory is a directory.                              *)
LEMMA LexDirType ==
    /\ \A state \in DirStates : DirWithout(state) \in LexDir
    /\ \A docs \in SUBSET Doc : [state |-> "whole", docs |-> docs] \in LexDir
    /\ NoDir \in LexDir
    /\ \A dir \in LexDir : /\ Opened(dir) \in LexDir
                           /\ Opened(dir).docs = dir.docs
                           /\ Leftovers(dir) \subseteq LexDir
BY DEF LexDir, DirStates, DirWithout, NoDir, Opened, Leftovers

LEMMA LexType ==
    ASSUME TypeInv, NEW p \in Projects, NEW dir \in LexDir,
           lex' = [lex EXCEPT ![p] = dir]
    PROVE  /\ lex' \in [Projects -> LexDir]
           /\ lex'[p] = dir
           /\ \A q \in Projects \ {p} : lex'[q] = lex[q]
BY DEF TypeInv, TypeOK

LEMMA AdvanceType ==
    ASSUME TypeInv, NEW a \in Writers, Advance(a)
    PROVE  TypeInv'
<1> DEFINE p == task[a].project
<1> USE DEF TypeInv
<1>1. Busy(a)
  BY DEF Advance, Busy, At, ScanAndExtract, TruncateJson, WriteJson,
         ReadCatalog, TruncateCatalog, WriteCatalog, OpenIndex, OpenIndexFails,
         ResetIndex, CommitIndex, IndexDirGone, UnlinkJson, RemoveStorageDir,
         Deselect
<1>2. /\ p \in Projects
      /\ task[a] \in Task
      /\ task[a].chunks \in Snapshot
      /\ task[a].seen \in Entries
      /\ task[a].view \in SUBSET Doc
  BY <1>1 DEF TypeOK, Task
<1>3. CASE ScanAndExtract(a)
  <2>1. disk[p] \in Snapshot
    BY <1>2 DEF TypeOK
  <2>2. /\ task' \in [Writers -> Task]
        /\ \A b \in Writers : Busy(b)' => task'[b].project \in Projects
    BY <1>1, <1>2, <1>3, <2>1 DEF ScanAndExtract, TypeOK, Busy, Task, Phases
  <2> QED  BY <1>3, <2>2 DEF ScanAndExtract, TypeOK, store, history
<1>4. CASE TruncateJson(a)
  <2>1. json' \in [Projects -> JsonFile]
    BY <1>2, <1>4, JsonFileType DEF TruncateJson, TypeOK, FileStates
  <2> QED
    BY <1>1, <1>4, <2>1, GotoType DEF TruncateJson, TypeOK, Phases, history
<1>5. CASE WriteJson(a)
  <2>1. json' \in [Projects -> JsonFile]
    BY <1>2, <1>5, JsonAfterWriteType DEF WriteJson, TypeOK
  <2> QED  BY <1>1, <1>5, <2>1, GotoType DEF WriteJson, TypeOK, Phases, history
<1>6. CASE ReadCatalog(a)
  <2>1. catalog.entries \in Entries
    BY DEF TypeOK, CatalogFile
  <2>2. /\ task' \in [Writers -> Task]
        /\ \A b \in Writers : Busy(b)' => task'[b].project \in Projects
    BY <1>1, <1>2, <1>6, <2>1 DEF ReadCatalog, TypeOK, Busy, Task, Phases
  <2> QED  BY <1>6, <2>2 DEF ReadCatalog, TypeOK, store, history
<1>7. CASE TruncateCatalog(a)
  <2>1. catalog' \in CatalogFile
    BY <1>7, CatalogFileType DEF TruncateCatalog, FileStates
  <2> QED
    BY <1>1, <1>7, <2>1, GotoType DEF TruncateCatalog, TypeOK, Phases, history
<1>8. CASE WriteCatalog(a)
  <2>1. NewEntries(a) \in Entries
    BY <1>2, CountType, UpsertType, RetainType DEF NewEntries
  <2>2. catalog' \in CatalogFile
    BY <1>8, <2>1, CatalogAfterWriteType DEF WriteCatalog, TypeOK
  <2>3. lost' \in SUBSET Projects
    BY <1>8 DEF WriteCatalog, TypeOK
  <2>4. CASE /\ EndSave(a, "open") \/ EndSave(a, "deselect")
             /\ UNCHANGED <<settled, removal>>
    BY <1>1, <1>8, <2>2, <2>3, <2>4, GotoUncleanType
    DEF WriteCatalog, TypeOK, Phases
  <2>5. CASE Succeed(a)
    BY <1>1, <1>8, <2>2, <2>3, <2>5, SucceedType DEF WriteCatalog, TypeOK
  <2> QED  BY <1>8, <2>4, <2>5 DEF WriteCatalog
<1>9. CASE OpenIndex(a)
  <2>1. lex[p] \in LexDir /\ lex[p].docs \in SUBSET Doc
    BY <1>2 DEF TypeOK, LexDir
  <2>2. lex' \in [Projects -> LexDir]
    BY <1>2, <1>9, <2>1, LexDirType, LexType DEF OpenIndex
  <2>3. writer' \in [Projects -> Writers \union Searchers \union {NoOne}]
    BY <1>9 DEF OpenIndex, TypeOK
  <2>4. /\ task' \in [Writers -> Task]
        /\ \A b \in Writers : Busy(b)' => task'[b].project \in Projects
    BY <1>1, <1>2, <1>9, <2>1 DEF OpenIndex, TypeOK, Busy, Task, Phases
  <2> QED  BY <1>9, <2>2, <2>3, <2>4 DEF OpenIndex, TypeOK, history
<1>10. CASE OpenIndexFails(a)
  <2>1. lex[p] \in LexDir
    BY <1>2 DEF TypeOK
  <2>2. lex' \in [Projects -> LexDir]
    BY <1>2, <1>10, <2>1, LexDirType, LexType DEF OpenIndexFails
  <2> QED  BY <1>10, <2>2, AbortType DEF OpenIndexFails, TypeOK
<1>11. CASE ResetIndex(a)
  <2>1. lex' \in [Projects -> LexDir]
    BY <1>2, <1>11, LexDirType, LexType DEF ResetIndex, DirStates
  <2>2. /\ task' \in [Writers -> Task]
        /\ \A b \in Writers : Busy(b)' => task'[b].project \in Projects
    BY <1>1, <1>2, <1>11 DEF ResetIndex, TypeOK, Busy, Task, Phases
  <2> QED  BY <1>11, <2>1, <2>2 DEF ResetIndex, TypeOK, history
<1>12. CASE CommitIndex(a)
  <2>1. DocsOf(task[a].chunks, IdOf(task[a].kind)) \in SUBSET Doc
    BY <1>2, DocsOfType DEF IdOf
  <2>2. lex' \in [Projects -> LexDir]
    BY <1>2, <1>12, <2>1, LexDirType, LexType DEF CommitIndex
  <2>3. writer' \in [Projects -> Writers \union Searchers \union {NoOne}]
    BY <1>12 DEF CommitIndex, Release, TypeOK
  <2> QED
    BY <1>1, <1>12, <2>2, <2>3, SucceedType DEF CommitIndex, TypeOK
<1>13. CASE IndexDirGone(a)
  BY <1>13, AbortType DEF IndexDirGone, TypeOK, store
<1>14. CASE UnlinkJson(a)
  <2>1. json' \in [Projects -> JsonFile]
    <3>1. BrokenJson("missing") \in JsonFile
      BY JsonFileType DEF FileStates
    <3> QED  BY <1>2, <1>14, <3>1 DEF UnlinkJson, TypeOK
  <2> QED
    BY <1>1, <1>14, <2>1, GotoType, GotoUncleanType
    DEF UnlinkJson, TypeOK, Phases, history
<1>15. CASE RemoveStorageDir(a)
  <2>1. lex[p] \in LexDir
    BY <1>2 DEF TypeOK
  <2>2. lex' \in [Projects -> LexDir]
    <3>1. PICK dir \in LexDir : lex' = [lex EXCEPT ![p] = dir]
      BY <1>15, <2>1, LexDirType DEF RemoveStorageDir
    <3> QED  BY <1>2, <3>1, LexType
  <2>3. writer' \in [Projects -> Writers \union Searchers \union {NoOne}]
    BY <1>2, <1>15 DEF RemoveStorageDir, TypeOK
  <2> QED
    BY <1>1, <1>15, <2>2, <2>3, GotoType, GotoUncleanType
    DEF RemoveStorageDir, TypeOK, Phases, history
<1>16. CASE Deselect(a)
  BY <1>1, <1>16, SucceedType DEF Deselect, TypeOK
<1> QED
  BY <1>3, <1>4, <1>5, <1>6, <1>7, <1>8, <1>9, <1>10, <1>11, <1>12, <1>13,
     <1>14, <1>15, <1>16
  DEF Advance

LEMMA SearchType ==
    ASSUME TypeInv, NEW s \in Searchers,
           SearchStep(s) \/ \E p \in Projects, f \in Files : SearchLoad(s, p, f)
    PROVE  TypeInv'
<1> USE DEF TypeInv
<1>1. ASSUME NEW p \in Projects, NEW f \in Files, SearchLoad(s, p, f)
      PROVE  TypeInv'
  <2>1. json[p].chunks[f] \in Content
    BY DEF TypeOK, JsonFile, Snapshot
  <2>2. /\ search' \in [Searchers -> Search]
        /\ \A r \in Searchers :
                search'[r].pc # "idle" => search'[r].project \in Projects
    BY <1>1, <2>1 DEF SearchLoad, TypeOK, Search
  <2> QED  BY <1>1, <2>2 DEF SearchLoad, TypeOK, store, history, Busy
<1>2. ASSUME SearchCheck(s) \/ SearchOpen(s) \/ SearchInMemory(s)
      PROVE  /\ search' \in [Searchers -> Search]
             /\ \A r \in Searchers :
                    search'[r].pc # "idle" => search'[r].project \in Projects
             /\ search[s].project \in Projects
  <2>1. search[s].project \in Projects
    BY <1>2 DEF SearchCheck, SearchOpen, SearchInMemory
  <2>2. \E pc \in {"opening", "reading"} :
            \/ search' = [search EXCEPT ![s] = [@ EXCEPT !.pc = pc]]
            \/ search' = [search EXCEPT ![s] = IdleSearch]
    BY <1>2 DEF SearchCheck, SearchOpen, SearchInMemory
  <2>3. search[s] \in Search
    BY DEF TypeOK
  <2>4. \A pc \in {"opening", "reading"} :
            /\ [search[s] EXCEPT !.pc = pc] \in Search
            /\ [search[s] EXCEPT !.pc = pc].project \in Projects
    BY <2>1, <2>3 DEF Search
  <2>5. IdleSearch \in Search /\ IdleSearch.pc = "idle"
    BY IdleSearchType DEF IdleSearch
  <2> QED  BY <2>1, <2>2, <2>4, <2>5 DEF TypeOK
<1>3. CASE SearchCheck(s)
  BY <1>2, <1>3 DEF SearchCheck, TypeOK, store, history, Busy
<1>5. CASE SearchOpen(s) \/ SearchInMemory(s)
  <2> DEFINE p == search[s].project
  <2>1. p \in Projects /\ lex[p] \in LexDir
    BY <1>2, <1>5 DEF TypeOK
  <2>2. lex' \in [Projects -> LexDir]
    BY <1>5, <2>1, LexDirType, LexType DEF SearchOpen, SearchInMemory
  <2>3. writer' \in [Projects -> Writers \union Searchers \union {NoOne}]
    BY <1>5 DEF SearchOpen, SearchInMemory, TypeOK
  <2> QED
    BY <1>2, <1>5, <2>2, <2>3
    DEF SearchOpen, SearchInMemory, TypeOK, history, Busy
<1>4. CASE SearchClose(s)
  <2>1. /\ search' \in [Searchers -> Search]
        /\ \A r \in Searchers :
                search'[r].pc # "idle" => search'[r].project \in Projects
    BY <1>4, IdleSearchType DEF SearchClose, TypeOK, IdleSearch
  <2>2. writer' \in [Projects -> Writers \union Searchers \union {NoOne}]
    BY <1>4 DEF SearchClose, Release, TypeOK
  <2> QED  BY <1>4, <2>1, <2>2 DEF SearchClose, TypeOK, history, Busy
<1> QED  BY <1>1, <1>3, <1>4, <1>5 DEF SearchStep

LEMMA EnvironmentType ==
    ASSUME TypeInv,
           \/ \E p \in Projects, f \in Files, v \in Content : EditFile(p, f, v)
           \/ \E w \in Watchers, f \in Files : UpdateFile(w, f)
           \/ \E a \in Writers : TaskFails(a)
           \/ ServerCrash
           \/ ServerStart
    PROVE  TypeInv'
<1> USE DEF TypeInv
<1>1. ASSUME NEW p \in Projects, NEW f \in Files, NEW v \in Content,
             EditFile(p, f, v)
      PROVE  TypeInv'
  <2>1. disk' \in [Projects -> Snapshot]
    BY <1>1 DEF EditFile, TypeOK, Snapshot
  <2>2. pending' \in [Watchers -> SUBSET Files]
    BY <1>1 DEF EditFile, TypeOK
  <2> QED  BY <1>1, <2>1, <2>2 DEF EditFile, TypeOK, store, history, Busy
<1>2. ASSUME NEW w \in Watchers, NEW f \in Files, UpdateFile(w, f)
      PROVE  TypeInv'
  <2> DEFINE p == Watches[w]
  <2>1. w \in Writers /\ p \in Projects
    BY StoreAssumption DEF Writers
  <2>2. pending' \in [Watchers -> SUBSET Files]
    BY <1>2 DEF UpdateFile, TypeOK
  <2>3. CASE Loads(p)
    <3> DEFINE chunks == [json[p].chunks EXCEPT ![f] = disk[p][f]]
    <3>1. chunks \in Snapshot
      BY <2>1 DEF TypeOK, JsonFile, Snapshot
    <3>2. Begin(w, "watch", p, "truncate", chunks)
      BY <1>2, <2>3 DEF UpdateFile
    <3> HIDE DEF chunks, p
    <3> QED
      BY <1>2, <2>1, <2>2, <3>1, <3>2, BeginType
      DEF UpdateFile, TypeOK, store, Kinds, Phases
  <2>4. CASE ~Loads(p)
    BY <1>2, <2>2, <2>4 DEF UpdateFile, TypeOK, store, history, Busy
  <2> QED  BY <2>3, <2>4
<1>3. ASSUME NEW a \in Writers, TaskFails(a)
      PROVE  TypeInv'
  <2>1. writer' \in [Projects -> Writers \union Searchers \union {NoOne}]
    BY <1>3 DEF TaskFails, Release, TypeOK
  <2> QED  BY <1>3, <2>1, AbortType DEF TaskFails, TypeOK
<1>4. CASE ServerCrash
  <2>1. writer' \in [Projects -> Writers \union Searchers \union {NoOne}]
    BY <1>4 DEF ServerCrash, Release, TypeOK
  <2>2. /\ search' \in [Searchers -> Search]
        /\ \A r \in Searchers : search'[r].pc = "idle"
    BY <1>4, IdleSearchType DEF ServerCrash, IdleSearch
  <2>3. pending' \in [Watchers -> SUBSET Files]
    BY <1>4 DEF ServerCrash
  <2> QED  BY <1>4, <2>1, <2>2, <2>3, AbortType DEF ServerCrash, TypeOK
<1>5. CASE ServerStart
  BY <1>5 DEF ServerStart, TypeOK, store, history, Busy
<1> QED  BY <1>1, <1>2, <1>3, <1>4, <1>5

LEMMA TypeStep == TypeInv /\ [Next]_vars => TypeInv'
<1> SUFFICES ASSUME TypeInv, [Next]_vars PROVE TypeInv'
  OBVIOUS
<1>1. CASE UNCHANGED vars
  BY <1>1 DEF TypeInv, TypeOK, vars, store, history, Busy
<1>2. CASE Next
  BY <1>2, CommandType, AdvanceType, SearchType, EnvironmentType DEF Next
<1> QED  BY <1>1, <1>2

(* Every variable keeps its type in every behaviour.                        *)
THEOREM TypeCorrect == Spec => []TypeOK
<1>1. TypeInv => TypeOK
  BY DEF TypeInv
<1> QED  BY <1>1, TypeInit, TypeStep, PTL DEF Spec

-----------------------------------------------------------------------------
(* The writer locks.  LockInv is inductive relative to TypeInv.             *)

Locking == {"reset", "commit"}

LEMMA DocsOfIsOneSnapshot ==
    ASSUME NEW chunks \in Snapshot, NEW id
    PROVE  \A d, e \in DocsOf(chunks, id) :
                /\ d.id = e.id
                /\ d.file = e.file => d = e
BY DEF DocsOf

LEMMA LockInit == Init => LockInv
<1> SUFFICES ASSUME Init PROVE LockInv
  OBVIOUS
<1>1. LockHeldByWorker /\ LockImpliesDir
  BY StoreAssumption DEF Init, LockHeldByWorker, LockImpliesDir
<1>3. CommitStartsEmpty
  BY DEF Init, CommitStartsEmpty, At, IdleTask
<1>4. LexicalIndexIsOneSnapshot
  <2> SUFFICES ASSUME NEW p \in Projects, NEW d \in lex[p].docs,
                      NEW e \in lex[p].docs
               PROVE  d.id = e.id /\ (d.file = e.file => d = e)
    BY DEF LexicalIndexIsOneSnapshot
  <2>1. disk[p] \in Snapshot
    BY DEF Init
  <2>2. p \in Indexed /\ lex[p].docs = DocsOf(disk[p], "raw")
    BY DEF Init, NoDir, DirWithout
  <2> QED  BY <2>1, <2>2, DocsOfIsOneSnapshot
<1> QED  BY <1>1, <1>3, <1>4 DEF LockInv

(* A task that is not inside persist_tantivy_index holds no lock.           *)
LEMMA LockHolders ==
    ASSUME TypeInv, LockInv, NEW p \in Projects
    PROVE  /\ \A a \in Writers : writer[p] = a =>
                    task[a].pc \in Locking /\ task[a].project = p
           /\ \A s \in Searchers : writer[p] = s =>
                    search[s].pc = "reading" /\ search[s].project = p
           /\ \A a \in Writers : a # NoOne /\ a \notin Searchers
           /\ \A s \in Searchers : s # NoOne /\ s \notin Writers
<1>1. /\ \A a \in Writers : a # NoOne /\ a \notin Searchers
      /\ \A s \in Searchers : s # NoOne /\ s \notin Writers
  BY StoreAssumption
<1> QED  BY <1>1 DEF LockInv, LockHeldByWorker, Locking

(* No directory goes and no documents change, though an opener may create   *)
(* an empty index.                                                          *)
DirsStay ==
    \A p \in Projects : /\ lex'[p].docs = lex[p].docs
                        /\ lex'[p] = NoDir => lex[p] = NoDir

LEMMA UnchangedDirsStay == UNCHANGED lex => DirsStay
BY DEF DirsStay

LEMMA OpenedDirsStay ==
    ASSUME TypeInv, NEW p \in Projects, lex' = [lex EXCEPT ![p] = Opened(@)]
    PROVE  DirsStay /\ lex'[p] # NoDir
<1>1. lex[p] \in LexDir
  BY DEF TypeInv, TypeOK
<1>2. Opened(lex[p]).docs = lex[p].docs /\ Opened(lex[p]).state # "absent"
  BY <1>1, LexDirType DEF Opened, LexDir
<1>3. NoDir.state = "absent"
  BY DEF NoDir, DirWithout
<1>4. /\ lex'[p] = Opened(lex[p])
      /\ \A q \in Projects \ {p} : lex'[q] = lex[q]
  BY DEF TypeInv, TypeOK
<1> QED  BY <1>2, <1>3, <1>4 DEF DirsStay

(* Steps outside persist_tantivy_index do not touch what LockInv is about.  *)
LEMMA QuietStep ==
    ASSUME TypeInv, LockInv, DirsStay, UNCHANGED <<writer, search>>,
           \A b \in Writers :
                \/ /\ task'[b].pc = task[b].pc
                   /\ task'[b].project = task[b].project
                   /\ task'[b].view = task[b].view
                \/ task[b].pc \notin Locking /\ task'[b].pc \notin Locking
    PROVE  LockInv'
<1>1. LockHeldByWorker'
  BY LockHolders DEF LockInv, LockHeldByWorker, Locking
<1>3. CommitStartsEmpty'
  BY DEF LockInv, CommitStartsEmpty, Locking, At
<1>4. LockImpliesDir' /\ LexicalIndexIsOneSnapshot'
  BY DEF DirsStay, LockInv, LockImpliesDir, LexicalIndexIsOneSnapshot
<1> QED  BY <1>1, <1>3, <1>4 DEF LockInv

LEMMA BeginIsQuiet ==
    ASSUME TypeInv, LockInv, NEW a \in Writers, ~Busy(a), NEW kind, NEW p,
           NEW pc \in Phases \ Locking, NEW chunks,
           Begin(a, kind, p, pc, chunks),
           UNCHANGED <<lex, writer, search>>
    PROVE  LockInv'
<1>1. \A b \in Writers :
        \/ /\ task'[b].pc = task[b].pc
           /\ task'[b].project = task[b].project
           /\ task'[b].view = task[b].view
        \/ task[b].pc \notin Locking /\ task'[b].pc \notin Locking
  BY DEF Begin, Busy, Locking, TypeInv, TypeOK, Task, IdleTask
<1> QED  BY <1>1, QuietStep, UnchangedDirsStay

LEMMA GotoIsQuiet ==
    ASSUME TypeInv, LockInv, NEW a \in Writers, task[a].pc \notin Locking,
           NEW pc \in Phases \ Locking, Goto(a, pc),
           UNCHANGED <<lex, writer, search>>
    PROVE  LockInv'
<1>1. \A b \in Writers :
        \/ /\ task'[b].pc = task[b].pc
           /\ task'[b].project = task[b].project
           /\ task'[b].view = task[b].view
        \/ task[b].pc \notin Locking /\ task'[b].pc \notin Locking
  BY DEF Goto, TypeInv, TypeOK
<1> QED  BY <1>1, QuietStep, UnchangedDirsStay

LEMMA RecordIsQuiet ==
    ASSUME TypeInv, LockInv, NEW a \in Writers, task[a].pc \notin Locking,
           NEW pc \in Phases \ Locking, EndSave(a, pc) \/ GotoUnclean(a, pc),
           UNCHANGED <<lex, writer, search>>
    PROVE  LockInv'
<1>1. \A b \in Writers :
        \/ /\ task'[b].pc = task[b].pc
           /\ task'[b].project = task[b].project
           /\ task'[b].view = task[b].view
        \/ task[b].pc \notin Locking /\ task'[b].pc \notin Locking
  <2>1. task[a] \in Task
    BY DEF TypeInv, TypeOK
  <2>2. CASE EndSave(a, pc)
    BY <2>1, <2>2 DEF EndSave, TypeInv, TypeOK, Task
  <2>3. CASE GotoUnclean(a, pc)
    BY <2>1, <2>3 DEF GotoUnclean, TypeInv, TypeOK, Task
  <2> QED  BY <2>2, <2>3
<1> QED  BY <1>1, QuietStep, UnchangedDirsStay

LEMMA SucceedIsQuiet ==
    ASSUME TypeInv, LockInv, NEW a \in Writers, task[a].pc \notin Locking,
           Succeed(a), UNCHANGED <<lex, writer, search>>
    PROVE  LockInv'
<1>1. \A b \in Writers :
        \/ /\ task'[b].pc = task[b].pc
           /\ task'[b].project = task[b].project
           /\ task'[b].view = task[b].view
        \/ task[b].pc \notin Locking /\ task'[b].pc \notin Locking
  BY DEF Succeed, TypeInv, TypeOK, IdleTask, Locking
<1> QED  BY <1>1, QuietStep, UnchangedDirsStay

(* Whoever dies loses its locks, and only then.                             *)
LEMMA AbortKeepsLocks ==
    ASSUME TypeInv, LockInv, NEW S \in SUBSET Writers, NEW R \in SUBSET Searchers,
           Abort(S), DirsStay,
           writer' = [p \in Projects |->
                        IF writer[p] \in S \union R THEN NoOne ELSE writer[p]],
           \A s \in Searchers \ R : search'[s] = search[s]
    PROVE  LockInv'
<1>1. ASSUME NEW p \in Projects
      PROVE  \/ writer'[p] = NoOne
             \/ /\ writer'[p] = writer[p]
                /\ writer[p] \in Writers \ S
                /\ task'[writer[p]] = task[writer[p]]
             \/ /\ writer'[p] = writer[p]
                /\ writer[p] \in Searchers \ R
                /\ search'[writer[p]] = search[writer[p]]
  <2>1. writer[p] \in Writers \union Searchers \union {NoOne}
    BY DEF TypeInv, TypeOK
  <2> QED  BY <2>1 DEF Abort
<1>2. LockHeldByWorker'
  BY <1>1, StoreAssumption DEF LockInv, LockHeldByWorker
<1>3. LockImpliesDir'
  BY <1>1 DEF LockInv, LockImpliesDir, DirsStay
<1>5. CommitStartsEmpty'
  BY DEF LockInv, CommitStartsEmpty, At, Abort, IdleTask
<1>6. LexicalIndexIsOneSnapshot'
  BY DEF LockInv, LexicalIndexIsOneSnapshot, DirsStay
<1> QED  BY <1>2, <1>3, <1>5, <1>6 DEF LockInv

LEMMA OpenIndexLocks ==
    ASSUME TypeInv, LockInv, NEW a \in Writers,
           OpenIndex(a) \/ OpenIndexFails(a) \/ IndexDirGone(a)
    PROVE  LockInv'
<1> DEFINE p == task[a].project
<1>1. p \in Projects
  BY DEF OpenIndex, OpenIndexFails, IndexDirGone, TypeInv, Busy, At
<1>2. CASE OpenIndex(a)
  <2>1. \A q \in Projects : writer[q] # a
    BY <1>2, LockHolders DEF OpenIndex, At, Locking
  <2>5. DirsStay /\ lex'[p] # NoDir
    BY <1>1, <1>2, OpenedDirsStay DEF OpenIndex
  <2>2. /\ writer' = [writer EXCEPT ![p] = a]
        /\ task'[a].project = p /\ task'[a].pc = "reset"
        /\ \A b \in Writers : b # a => task'[b] = task[b]
    BY <1>2 DEF OpenIndex, TypeInv, TypeOK, Task
  <2>3. LockHeldByWorker'
    BY <1>1, <1>2, <2>1, <2>2
    DEF OpenIndex, LockInv, LockHeldByWorker, TypeInv, TypeOK
  <2>4. LockImpliesDir'
    <3>1. \A q \in Projects \ {p} : writer'[q] = writer[q]
      BY <2>2 DEF TypeInv, TypeOK
    <3> QED  BY <2>5, <3>1 DEF LockInv, LockImpliesDir, DirsStay
  <2>6. CommitStartsEmpty'
    BY <2>2 DEF LockInv, CommitStartsEmpty, At
  <2>7. LexicalIndexIsOneSnapshot'
    BY <2>5 DEF LockInv, LexicalIndexIsOneSnapshot, DirsStay
  <2> QED  BY <2>3, <2>4, <2>6, <2>7 DEF LockInv
<1>3. CASE OpenIndexFails(a) \/ IndexDirGone(a)
  <2>1. \A q \in Projects : writer[q] # a
    BY <1>1, <1>3, LockHolders
    DEF OpenIndexFails, IndexDirGone, At, Locking, LockInv, LockImpliesDir
  <2>2. writer' = [q \in Projects |->
                    IF writer[q] \in {a} \union {} THEN NoOne ELSE writer[q]]
    BY <1>3, <2>1
    DEF OpenIndexFails, IndexDirGone, store, TypeInv, TypeOK
  <2>3. Abort({a}) /\ DirsStay /\ UNCHANGED search
    BY <1>1, <1>3, OpenedDirsStay, UnchangedDirsStay
    DEF OpenIndexFails, IndexDirGone, store
  <2>4. {a} \in SUBSET Writers /\ {} \in SUBSET Searchers
    OBVIOUS
  <2>5. \A s \in Searchers \ {} : search'[s] = search[s]
    BY <2>3
  <2> QED  BY <2>2, <2>3, <2>4, <2>5, AbortKeepsLocks
<1> QED  BY <1>2, <1>3

LEMMA ResetIndexLocks ==
    ASSUME TypeInv, LockInv, NEW a \in Writers, ResetIndex(a)
    PROVE  LockInv'
<1> DEFINE p == task[a].project
<1>1. p \in Projects
  BY DEF ResetIndex, TypeInv, Busy, At
<1>2. /\ UNCHANGED writer /\ UNCHANGED search
      /\ task'[a].project = p /\ task'[a].pc = "commit" /\ task'[a].view = {}
      /\ \A b \in Writers : b # a => task'[b] = task[b]
  BY DEF ResetIndex, TypeInv, TypeOK, Task
<1>3. LockHeldByWorker'
  BY <1>2 DEF LockInv, LockHeldByWorker
<1>4. LockImpliesDir' /\ LexicalIndexIsOneSnapshot'
  <2>1. /\ lex'[p] = DirWithout("whole")
        /\ \A q \in Projects \ {p} : lex'[q] = lex[q]
    BY <1>1 DEF ResetIndex, TypeInv, TypeOK
  <2>2. DirWithout("whole") # NoDir /\ DirWithout("whole").docs = {}
    BY DEF DirWithout, NoDir
  <2> QED
    BY <1>2, <2>1, <2>2
    DEF LockInv, LockImpliesDir, LexicalIndexIsOneSnapshot
<1>6. CommitStartsEmpty'
  BY <1>2 DEF LockInv, CommitStartsEmpty, At
<1> QED  BY <1>3, <1>4, <1>6 DEF LockInv

LEMMA CommitIndexLocks ==
    ASSUME TypeInv, LockInv, NEW a \in Writers, CommitIndex(a)
    PROVE  LockInv'
<1> DEFINE p == task[a].project
<1>1. p \in Projects /\ task[a].chunks \in Snapshot /\ task[a].view = {}
  BY DEF CommitIndex, TypeInv, TypeOK, Busy, At, Task, LockInv, CommitStartsEmpty
<1>2. /\ UNCHANGED search
      /\ task'[a] = IdleTask
      /\ \A b \in Writers : b # a => task'[b] = task[b]
  BY DEF CommitIndex, Succeed, TypeInv, TypeOK
<1>3. \A q \in Projects :
        \/ writer[q] = a /\ q = p /\ writer'[q] = NoOne
        \/ writer[q] # a /\ writer'[q] = writer[q]
  BY LockHolders DEF CommitIndex, Release
<1>4. LockHeldByWorker'
  BY <1>2, <1>3 DEF LockInv, LockHeldByWorker
<1>5. LockImpliesDir'
  <2>1. \A q \in Projects \ {p} : lex'[q] = lex[q]
    BY <1>1 DEF CommitIndex, TypeInv, TypeOK
  <2>2. writer'[p] = NoOne \/ lex'[p].state = "whole"
    BY <1>1 DEF CommitIndex, TypeInv, TypeOK
  <2> QED
    BY <1>1, <1>3, <2>1, <2>2
    DEF LockInv, LockImpliesDir, NoDir, DirWithout
<1>7. CommitStartsEmpty'
  BY <1>2 DEF LockInv, CommitStartsEmpty, At, IdleTask
<1>8. LexicalIndexIsOneSnapshot'
  <2>1. lex'[p].docs = DocsOf(task[a].chunks, IdOf(task[a].kind))
    BY <1>1 DEF CommitIndex, TypeInv, TypeOK, LexDir
  <2>2. \A q \in Projects : q # p => lex'[q].docs = lex[q].docs
    BY <1>1 DEF CommitIndex, TypeInv, TypeOK, LexDir
  <2> QED
    BY <1>1, <2>1, <2>2, DocsOfIsOneSnapshot
    DEF LockInv, LexicalIndexIsOneSnapshot
<1> QED  BY <1>4, <1>5, <1>7, <1>8 DEF LockInv

LEMMA RemoveStorageDirLocks ==
    ASSUME TypeInv, LockInv, NEW a \in Writers, RemoveStorageDir(a)
    PROVE  LockInv'
<1> DEFINE p == task[a].project
<1>1. p \in Projects
  BY DEF RemoveStorageDir, TypeInv, Busy, At
<1>2. /\ UNCHANGED search
      /\ task'[a].pc = "cat_read" /\ task[a].pc = "rmdir"
      /\ \A b \in Writers : b # a => task'[b] = task[b]
  <2>1. task[a] \in Task
    BY DEF TypeInv, TypeOK
  <2>2. CASE Goto(a, "cat_read")
    BY <2>1, <2>2 DEF RemoveStorageDir, Goto, At, TypeInv, TypeOK, Task
  <2>3. CASE GotoUnclean(a, "cat_read")
    BY <2>1, <2>3 DEF RemoveStorageDir, GotoUnclean, At, TypeInv, TypeOK, Task
  <2> QED  BY <2>2, <2>3 DEF RemoveStorageDir
<1>3. /\ writer'[p] \in {writer[p], NoOne}
      /\ writer'[p] # NoOne => lex'[p] # NoDir
      /\ lex'[p].docs \subseteq lex[p].docs
      /\ \A q \in Projects : q # p => /\ writer'[q] = writer[q]
                                     /\ lex'[q] = lex[q]
  <2>1. CASE lex' = [lex EXCEPT ![p] = NoDir] /\ writer' = [writer EXCEPT ![p] = NoOne]
    BY <1>1, <2>1 DEF NoDir, DirWithout, TypeInv, TypeOK
  <2>2. ASSUME NEW dir \in Leftovers(lex[p]), lex' = [lex EXCEPT ![p] = dir],
               NEW w \in {writer[p], NoOne}, writer' = [writer EXCEPT ![p] = w],
               lex[p] # NoDir
        PROVE  /\ writer'[p] \in {writer[p], NoOne}
               /\ writer'[p] # NoOne => lex'[p] # NoDir
               /\ lex'[p].docs \subseteq lex[p].docs
               /\ \A q \in Projects : q # p => /\ writer'[q] = writer[q]
                                              /\ lex'[q] = lex[q]
    <3>1. dir.docs \subseteq lex[p].docs /\ dir # NoDir
      BY <2>2 DEF Leftovers, DirWithout, NoDir
    <3> QED  BY <1>1, <2>2, <3>1 DEF TypeInv, TypeOK
  <2> QED  BY <2>1, <2>2 DEF RemoveStorageDir
<1>4. \A q \in Projects : writer[q] # a
  BY <1>2, LockHolders DEF Locking
<1>5. LockHeldByWorker'
  BY <1>2, <1>3, <1>4 DEF LockInv, LockHeldByWorker
<1>6. LockImpliesDir' /\ LexicalIndexIsOneSnapshot'
  <2>1. \A q \in Projects : lex'[q].docs \subseteq lex[q].docs
    BY <1>3
  <2> QED
    BY <1>3, <2>1 DEF LockInv, LockImpliesDir, LexicalIndexIsOneSnapshot
<1>8. CommitStartsEmpty'
  BY <1>2 DEF LockInv, CommitStartsEmpty, At
<1> QED  BY <1>5, <1>6, <1>8 DEF LockInv

LEMMA SearchLocks ==
    ASSUME TypeInv, LockInv, NEW s \in Searchers,
           SearchStep(s) \/ \E p \in Projects, f \in Files : SearchLoad(s, p, f)
    PROVE  LockInv'
<1>1. /\ UNCHANGED task /\ DirsStay
      /\ \A r \in Searchers : r # s => search'[r] = search[r]
  <2>1. CASE SearchOpen(s) \/ SearchInMemory(s)
    <3>1. search[s].project \in Projects
      BY <2>1 DEF SearchOpen, SearchInMemory, TypeInv
    <3>2. DirsStay
      BY <2>1, <3>1, OpenedDirsStay DEF SearchOpen, SearchInMemory
    <3> QED  BY <2>1, <3>2 DEF SearchOpen, SearchInMemory, TypeInv, TypeOK
  <2>2. CASE \/ SearchCheck(s) \/ SearchClose(s)
             \/ \E p \in Projects, f \in Files : SearchLoad(s, p, f)
    BY <2>2, UnchangedDirsStay
    DEF SearchLoad, SearchCheck, SearchClose, store, history, TypeInv, TypeOK
  <2> QED  BY <2>1, <2>2 DEF SearchStep
<1>2. CommitStartsEmpty' /\ LexicalIndexIsOneSnapshot'
  BY <1>1 DEF LockInv, CommitStartsEmpty, LexicalIndexIsOneSnapshot, At, DirsStay
<1>3. CASE SearchOpen(s)
  <2> DEFINE p == search[s].project
  <2>1. p \in Projects /\ lex'[p] # NoDir /\ writer[p] = NoOne
    <3>1. p \in Projects
      BY <1>3 DEF SearchOpen, TypeInv
    <3> QED  BY <1>3, <3>1, OpenedDirsStay DEF SearchOpen, Opens
  <2>2. writer' = [writer EXCEPT ![p] = s]
    BY <1>3 DEF SearchOpen
  <2>3. search'[s].pc = "reading" /\ search'[s].project = p
    BY <1>3 DEF SearchOpen, TypeInv, TypeOK, Search
  <2>4. LockHeldByWorker'
    <3> SUFFICES ASSUME NEW q \in Projects
                 PROVE  \/ writer'[q] = NoOne
                        \/ /\ writer'[q] \in Writers
                           /\ task'[writer'[q]].project = q
                           /\ task'[writer'[q]].pc \in {"reset", "commit"}
                        \/ /\ writer'[q] \in Searchers
                           /\ search'[writer'[q]].project = q
                           /\ search'[writer'[q]].pc = "reading"
      BY DEF LockHeldByWorker
    <3>1. CASE q = p
      BY <2>1, <2>2, <2>3, <3>1 DEF TypeInv, TypeOK
    <3>2. CASE q # p
      <4>1. writer'[q] = writer[q] /\ writer[q] # s
        BY <1>3, <2>2, <3>2, LockHolders DEF SearchOpen, TypeInv, TypeOK
      <4> QED  BY <1>1, <4>1 DEF LockInv, LockHeldByWorker
    <3> QED  BY <3>1, <3>2
  <2>5. LockImpliesDir'
    <3>1. \A q \in Projects \ {p} : writer'[q] = writer[q]
      BY <2>2 DEF TypeInv, TypeOK
    <3> QED  BY <1>1, <2>1, <3>1 DEF LockInv, LockImpliesDir, DirsStay
  <2> QED  BY <1>2, <2>4, <2>5 DEF LockInv
<1>4. CASE SearchClose(s)
  <2>1. \A q \in Projects :
            \/ writer'[q] = NoOne /\ writer[q] = s
            \/ writer'[q] = writer[q] /\ writer[q] # s
    BY <1>4 DEF SearchClose, Release
  <2>2. LockHeldByWorker'
    BY <1>1, <2>1 DEF LockInv, LockHeldByWorker
  <2>3. LockImpliesDir'
    BY <1>1, <2>1 DEF LockInv, LockImpliesDir, DirsStay
  <2> QED  BY <1>2, <2>2, <2>3 DEF LockInv
<1>5. CASE \/ SearchCheck(s) \/ SearchInMemory(s)
           \/ \E p \in Projects, f \in Files : SearchLoad(s, p, f)
  <2>1. UNCHANGED writer
    BY <1>5 DEF SearchCheck, SearchInMemory, SearchLoad, store
  <2>2. \A q \in Projects : writer[q] # s
    BY <1>5, LockHolders DEF SearchCheck, SearchInMemory, SearchLoad
  <2>3. LockHeldByWorker' /\ LockImpliesDir'
    BY <1>1, <2>1, <2>2
    DEF LockInv, LockHeldByWorker, LockImpliesDir, DirsStay
  <2> QED  BY <1>2, <2>3 DEF LockInv
<1> QED  BY <1>3, <1>4, <1>5 DEF SearchStep

LEMMA AdvanceLocks ==
    ASSUME TypeInv, LockInv, NEW a \in Writers, Advance(a)
    PROVE  LockInv'
<1>1. CASE ScanAndExtract(a)
  <2>1. \A b \in Writers :
          \/ /\ task'[b].pc = task[b].pc
             /\ task'[b].project = task[b].project
             /\ task'[b].view = task[b].view
          \/ task[b].pc \notin Locking /\ task'[b].pc \notin Locking
    BY <1>1 DEF ScanAndExtract, At, Locking, TypeInv, TypeOK, Task
  <2>2. UNCHANGED <<lex, writer, search>>
    BY <1>1 DEF ScanAndExtract, store, history
  <2> QED  BY <2>1, <2>2, QuietStep, UnchangedDirsStay
<1>2. CASE ReadCatalog(a)
  <2>1. \A b \in Writers :
          \/ /\ task'[b].pc = task[b].pc
             /\ task'[b].project = task[b].project
             /\ task'[b].view = task[b].view
          \/ task[b].pc \notin Locking /\ task'[b].pc \notin Locking
    BY <1>2 DEF ReadCatalog, At, Locking, TypeInv, TypeOK, Task
  <2>2. UNCHANGED <<lex, writer, search>>
    BY <1>2 DEF ReadCatalog, store, history
  <2> QED  BY <2>1, <2>2, QuietStep, UnchangedDirsStay
<1>3. CASE TruncateJson(a) \/ WriteJson(a) \/ TruncateCatalog(a) \/ UnlinkJson(a)
  <2>1. /\ task[a].pc \notin Locking
        /\ \E pc \in Phases \ Locking : Goto(a, pc) \/ GotoUnclean(a, pc)
        /\ UNCHANGED <<lex, writer, search>>
    BY <1>3
    DEF TruncateJson, WriteJson, TruncateCatalog, UnlinkJson, At, Locking,
        Phases, history
  <2> QED  BY <2>1, GotoIsQuiet, RecordIsQuiet
<1>4. CASE WriteCatalog(a)
  <2>1. /\ task[a].pc \notin Locking
        /\ UNCHANGED <<lex, writer, search>>
        /\ (\E pc \in Phases \ Locking : EndSave(a, pc)) \/ Succeed(a)
    BY <1>4 DEF WriteCatalog, At, Locking, Phases
  <2> QED  BY <2>1, RecordIsQuiet, SucceedIsQuiet
<1>5. CASE Deselect(a)
  <2>1. /\ task[a].pc \notin Locking
        /\ Succeed(a)
        /\ UNCHANGED <<lex, writer, search>>
    BY <1>5 DEF Deselect, At, Locking
  <2> QED  BY <2>1, SucceedIsQuiet
<1> QED
  BY <1>1, <1>2, <1>3, <1>4, <1>5, OpenIndexLocks, ResetIndexLocks,
     CommitIndexLocks, RemoveStorageDirLocks
  DEF Advance

LEMMA CommandLocks ==
    ASSUME TypeInv, LockInv, NEW a \in Indexers, NEW p \in Projects, Command(a, p)
    PROVE  LockInv'
<1>1. a \in Writers
  BY DEF Writers
<1>2. CASE Loads(p) /\ AddRepo(a, p)
  <2>1. UNCHANGED <<lex, writer, search, task>>
    BY <1>2 DEF AddRepo
  <2> QED  BY <2>1, QuietStep, UnchangedDirsStay
<1>3. CASE ~(Loads(p) /\ AddRepo(a, p))
  <2>1. /\ ~Busy(a)
        /\ \E kind \in Kinds, pc \in Phases \ Locking :
                Begin(a, kind, p, pc, NoChunks)
        /\ UNCHANGED <<lex, writer, search>>
    BY <1>3
    DEF Command, IndexNow, AddRepo, RemoveRepo, ClearIndex, Locking, Phases,
        Kinds, store
  <2> QED  BY <1>1, <2>1, BeginIsQuiet
<1> QED  BY <1>2, <1>3

LEMMA EnvironmentLocks ==
    ASSUME TypeInv, LockInv,
           \/ \E p \in Projects, f \in Files, v \in Content : EditFile(p, f, v)
           \/ \E w \in Watchers, f \in Files : UpdateFile(w, f)
           \/ \E a \in Writers : TaskFails(a)
           \/ ServerCrash
           \/ ServerStart
    PROVE  LockInv'
<1>1. ASSUME NEW w \in Watchers, NEW f \in Files, UpdateFile(w, f)
      PROVE  LockInv'
  <2>1. w \in Writers
    BY DEF Writers
  <2>2. CASE Loads(Watches[w])
    <3>1. /\ ~Busy(w)
          /\ \E chunks : Begin(w, "watch", Watches[w], "truncate", chunks)
          /\ UNCHANGED <<lex, writer, search>>
      BY <1>1, <2>2 DEF UpdateFile, store
    <3>2. "truncate" \in Phases \ Locking
      BY DEF Phases, Locking
    <3> QED  BY <2>1, <3>1, <3>2, BeginIsQuiet
  <2>3. CASE ~Loads(Watches[w])
    <3>1. UNCHANGED <<lex, writer, search, task>>
      BY <1>1, <2>3 DEF UpdateFile, store, history
    <3> QED  BY <3>1, QuietStep, UnchangedDirsStay
  <2> QED  BY <2>2, <2>3
<1>2. CASE ServerStart \/ \E p \in Projects, f \in Files, v \in Content :
                              EditFile(p, f, v)
  <2>1. UNCHANGED <<lex, writer, search, task>>
    BY <1>2 DEF ServerStart, EditFile, store, history
  <2> QED  BY <2>1, QuietStep, UnchangedDirsStay
<1>3. ASSUME NEW a \in Writers, TaskFails(a)
      PROVE  LockInv'
  <2>1. {a} \in SUBSET Writers /\ {} \in SUBSET Searchers
    OBVIOUS
  <2>2. /\ Abort({a}) /\ UNCHANGED lex
        /\ writer' = [p \in Projects |->
                IF writer[p] \in {a} \union {} THEN NoOne ELSE writer[p]]
        /\ \A s \in Searchers \ {} : search'[s] = search[s]
    BY <1>3 DEF TaskFails, Release
  <2> QED  BY <2>1, <2>2, AbortKeepsLocks, UnchangedDirsStay
<1>4. CASE ServerCrash
  <2>1. Watchers \in SUBSET Writers /\ Searchers \in SUBSET Searchers
    BY DEF Writers
  <2>2. /\ Abort(Watchers) /\ UNCHANGED lex
        /\ writer' = [p \in Projects |->
                IF writer[p] \in Watchers \union Searchers
                THEN NoOne ELSE writer[p]]
        /\ \A s \in Searchers \ Searchers : search'[s] = search[s]
    BY <1>4 DEF ServerCrash, Release
  <2> QED  BY <2>1, <2>2, AbortKeepsLocks, UnchangedDirsStay
<1> QED  BY <1>1, <1>2, <1>3, <1>4

LEMMA LockStep == TypeInv /\ LockInv /\ [Next]_vars => LockInv'
<1> SUFFICES ASSUME TypeInv, LockInv, [Next]_vars PROVE LockInv'
  OBVIOUS
<1>1. CASE UNCHANGED vars
  <2>1. UNCHANGED <<lex, writer, search, task>>
    BY <1>1 DEF vars, store, history
  <2> QED  BY <2>1, QuietStep, UnchangedDirsStay
<1>2. CASE Next
  BY <1>2, CommandLocks, AdvanceLocks, SearchLocks, EnvironmentLocks DEF Next
<1> QED  BY <1>1, <1>2

THEOREM StoreInvariant == Spec => []StoreInv
<1>1. Init => StoreInv
  BY TypeInit, LockInit DEF StoreInv
<1>2. StoreInv /\ [Next]_vars => StoreInv'
  BY TypeStep, LockStep DEF StoreInv
<1> QED  BY <1>1, <1>2, PTL DEF Spec

-----------------------------------------------------------------------------
(* The properties of the runs, for every instance *)

(* No path of the code leaves a stale writer lock behind.                   *)
THEOREM NoStaleLock == Spec => []LockHeldByWorker
<1>1. StoreInv => LockHeldByWorker
  BY DEF StoreInv, LockInv
<1> QED  BY <1>1, StoreInvariant, PTL

(* The lexical directory of a project never mixes two extractions.          *)
THEOREM OneSnapshot == Spec => []LexicalIndexIsOneSnapshot
<1>1. StoreInv => LexicalIndexIsOneSnapshot
  BY DEF StoreInv, LockInv
<1> QED  BY <1>1, StoreInvariant, PTL

-----------------------------------------------------------------------------
(* The agreement of the stores.  A task is clean as long as it is alone on  *)
(* its project and none of its deletions failed; what it has done by now is *)
(* read off its step.                                                       *)

CatalogSteps == {"cat_read", "cat_truncate", "cat_write"}

TaskFits(t) ==
    /\ t.pc = "idle" => t = IdleTask
    /\ t.pc # "idle" => t.kind # "none"
    /\ t.pc \in {"scan", "open", "reset", "commit"} => t.kind \in {"index", "watch"}
    /\ t.pc \in {"truncate", "write"} => t.kind \in {"index", "watch", "add"}
    /\ t.pc \in {"unlink", "rmdir", "deselect"} => t.kind \in Removals
    /\ t.kind = "add" => t.chunks = NoChunks

HasSaved(t) ==
    \/ t.pc \in {"open", "reset", "commit"}
    \/ (t.pc \in CatalogSteps /\ t.kind \notin Removals)
HasRemoved(t) ==
    \/ t.pc = "deselect"
    \/ (t.pc \in CatalogSteps /\ t.kind \in Removals)

(* What a clean task finds in the stores of its project.                    *)
Progress(t, file, docs) ==
    /\ t.pc = "write" => file.state = "empty"
    /\ HasSaved(t) => file = WholeJson(t.chunks)
    /\ t.pc = "rmdir" \/ HasRemoved(t) => file.state = "missing"
    /\ HasRemoved(t) => docs = {}

Versioned(docs) == {<<d.file, d.version>> : d \in docs}
StoresAgree(p) ==
    IF Loads(p)
    THEN json[p].chunks # NoChunks =>
            Versioned(lex[p].docs) = Versioned(DocsOf(json[p].chunks, "raw"))
    ELSE lex[p].docs = {}

TasksFit == \A a \in Writers : TaskFits(task[a])
CleanTasks ==
    \A a \in Writers : task[a].clean =>
        /\ \A b \in Writers \ {a} : task[b].project # task[a].project
        /\ Progress(task[a], json[task[a].project], lex[task[a].project].docs)
SettledProjects ==
    \A p \in Projects : settled[p] =>
        /\ StoresAgree(p)
        /\ \A a \in Writers : task[a].project # p

Agreement == TasksFit /\ CleanTasks /\ SettledProjects

LEMMA DocsAgree ==
    ASSUME NEW chunks, NEW id, NEW other
    PROVE  Versioned(DocsOf(chunks, id)) = Versioned(DocsOf(chunks, other))
<1>1. ASSUME NEW i, NEW j, NEW v \in Versioned(DocsOf(chunks, i))
      PROVE  v \in Versioned(DocsOf(chunks, j))
  <2>1. PICK f \in {g \in Files : chunks[g] # 0} :
            v = <<[file |-> f, version |-> chunks[f], id |-> i].file,
                  [file |-> f, version |-> chunks[f], id |-> i].version>>
    BY <1>1 DEF Versioned, DocsOf
  <2> DEFINE d == [file |-> f, version |-> chunks[f], id |-> j]
  <2>2. d \in DocsOf(chunks, j)
    BY DEF DocsOf
  <2>3. v = <<d.file, d.version>>
    BY <2>1
  <2> QED  BY <2>2, <2>3 DEF Versioned
<1> QED  BY <1>1

LEMMA AgreementInit == Init => Agreement
<1> SUFFICES ASSUME Init PROVE Agreement
  OBVIOUS
<1>1. \A a \in Writers : task[a] = IdleTask
  BY DEF Init
<1>2. /\ IdleTask.pc = "idle" /\ IdleTask.kind = "none"
      /\ IdleTask.project = NoProject /\ IdleTask.clean = FALSE
  BY DEF IdleTask
<1>3. TasksFit /\ CleanTasks
  BY <1>1, <1>2 DEF TasksFit, TaskFits, CleanTasks
<1>4. ASSUME NEW p \in Projects PROVE StoresAgree(p)
  <2>1. CASE p \in Indexed
    <3>1. json[p] = WholeJson(disk[p]) /\ lex[p].docs = DocsOf(disk[p], "raw")
      BY <2>1 DEF Init
    <3>2. json[p].chunks = disk[p] /\ Loads(p)
      BY <3>1 DEF WholeJson, Loads
    <3> QED  BY <3>1, <3>2 DEF StoresAgree
  <2>2. CASE p \notin Indexed
    <3>1. json[p] = BrokenJson("missing") /\ lex[p] = NoDir
      BY <2>2 DEF Init
    <3> QED  BY <3>1 DEF StoresAgree, Loads, BrokenJson, NoDir, DirWithout
  <2> QED  BY <2>1, <2>2
<1>5. SettledProjects
  BY <1>1, <1>2, <1>4, StoreAssumption DEF SettledProjects
<1> QED  BY <1>3, <1>5 DEF Agreement

(* Nothing of what Agreement is about changes.                              *)
LEMMA StillAgrees ==
    ASSUME TypeInv, Agreement, DirsStay, UNCHANGED <<json, task, settled>>
    PROVE  Agreement'
<1>1. \A a \in Writers : task[a].clean => task[a].project \in Projects
  BY DEF TypeInv, Agreement, TasksFit, TaskFits, IdleTask, Busy
<1>2. \A p \in Projects : lex'[p].docs = lex[p].docs
  BY DEF DirsStay
<1>3. TasksFit' /\ CleanTasks'
  BY <1>1, <1>2 DEF Agreement, TasksFit, CleanTasks
<1>4. SettledProjects'
  BY <1>2 DEF Agreement, SettledProjects, StoresAgree, Loads
<1> QED  BY <1>3, <1>4 DEF Agreement

(* A command or update begins with one of three steps and has done nothing. *)
LEMMA BeginAgrees ==
    ASSUME TypeInv, Agreement, NEW a \in Writers, ~Busy(a), NEW kind,
           NEW p \in Projects, NEW pc, NEW chunks, Begin(a, kind, p, pc, chunks),
           UNCHANGED <<json, lex>>,
           \/ pc = "scan" /\ kind = "index"
           \/ pc = "truncate" /\ kind = "watch"
           \/ pc = "truncate" /\ kind = "add" /\ chunks = NoChunks
           \/ pc = "unlink" /\ kind \in {"remove", "clear"}
    PROVE  Agreement'
<1> DEFINE new == [IdleTask EXCEPT !.pc = pc, !.kind = kind, !.project = p,
                    !.chunks = chunks,
                    !.clean = \A c \in Writers : task[c].project # p]
           old(b) == [task[b] EXCEPT !.clean = @ /\ task[b].project # p]
<1> HIDE DEF new, old
<1>1. /\ new.pc = pc /\ new.kind = kind /\ new.project = p
      /\ new.chunks = chunks
      /\ new.clean = \A c \in Writers : task[c].project # p
  BY DEF new, IdleTask
<1>2. /\ task'[a] = new
      /\ \A b \in Writers \ {a} : task'[b] = old(b)
  BY DEF Begin, new, old
<1>3. \A b \in Writers :
        /\ task[b] \in Task
        /\ old(b).pc = task[b].pc /\ old(b).kind = task[b].kind
        /\ old(b).project = task[b].project
        /\ old(b).chunks = task[b].chunks /\ old(b).seen = task[b].seen
        /\ old(b).clean <=> task[b].clean /\ task[b].project # p
        /\ task[b] = IdleTask => old(b) = IdleTask
  <2> SUFFICES ASSUME NEW b \in Writers
               PROVE  /\ task[b] \in Task
                      /\ old(b).pc = task[b].pc /\ old(b).kind = task[b].kind
                      /\ old(b).project = task[b].project
                      /\ old(b).chunks = task[b].chunks
                      /\ old(b).seen = task[b].seen
                      /\ old(b).clean <=> task[b].clean /\ task[b].project # p
                      /\ task[b] = IdleTask => old(b) = IdleTask
    OBVIOUS
  <2>1. task[b] \in Task
    BY DEF TypeInv, TypeOK
  <2>2. ASSUME task[b] = IdleTask PROVE old(b) = IdleTask
    <3>1. IdleTask.clean = FALSE
      BY DEF IdleTask
    <3>2. (task[b].clean /\ task[b].project # p) = FALSE
      BY <2>2, <3>1
    <3>3. old(b) = [IdleTask EXCEPT !.clean = FALSE]
      BY <2>2, <3>2, Zenon DEF old
    <3>4. \A t \in Task : t.clean = FALSE => [t EXCEPT !.clean = FALSE] = t
      BY DEF Task
    <3> QED  BY <3>1, <3>3, <3>4, IdleTaskType
  <2>3. /\ old(b).pc = task[b].pc /\ old(b).kind = task[b].kind
        /\ old(b).project = task[b].project
        /\ old(b).chunks = task[b].chunks /\ old(b).seen = task[b].seen
    BY <2>1 DEF old, Task
  <2>4. old(b).clean = (task[b].clean /\ task[b].project # p)
    BY <2>1 DEF old, Task
  <2> QED  BY <2>1, <2>2, <2>3, <2>4
<1>4. TasksFit'
  <2>1. TaskFits(new)
    BY <1>1 DEF TaskFits, Removals
  <2>2. \A b \in Writers : TaskFits(old(b))
    BY <1>3 DEF Agreement, TasksFit, TaskFits
  <2> QED  BY <1>2, <2>1, <2>2 DEF TasksFit
<1>5. \A b \in Writers \ {a} : task'[b].project = task[b].project
  BY <1>2, <1>3
<1>6. CleanTasks'
  <2> SUFFICES ASSUME NEW b \in Writers, task'[b].clean
               PROVE  /\ \A c \in Writers \ {b} :
                            task'[c].project # task'[b].project
                      /\ Progress(task'[b], json[task'[b].project],
                                  lex[task'[b].project].docs)
    BY DEF CleanTasks
  <2>1. CASE b = a
    <3>1. task'[b] = new
      BY <1>2, <2>1
    <3>2. \A c \in Writers \ {b} : task'[c].project # p
      BY <1>1, <1>5, <2>1, <3>1
    <3>3. Progress(new, json[p], lex[p].docs)
      BY <1>1 DEF Progress, HasSaved, HasRemoved, CatalogSteps
    <3> QED  BY <1>1, <3>1, <3>2, <3>3
  <2>2. CASE b # a
    <3>1. task'[b] = old(b) /\ task[b].clean /\ task[b].project # p
      BY <1>2, <1>3, <2>2
    <3>2. /\ \A c \in Writers \ {b} : task[c].project # task[b].project
          /\ Progress(task[b], json[task[b].project],
                      lex[task[b].project].docs)
      BY <3>1 DEF Agreement, CleanTasks
    <3>3. \A c \in Writers \ {b} : task'[c].project # task'[b].project
      BY <1>1, <1>2, <1>3, <3>1, <3>2
    <3>4. Progress(old(b), json[task[b].project], lex[task[b].project].docs)
      BY <1>3, <3>2 DEF Progress, HasSaved, HasRemoved
    <3> QED  BY <1>3, <3>1, <3>3, <3>4
  <2> QED  BY <2>1, <2>2
<1>7. SettledProjects'
  <2> SUFFICES ASSUME NEW q \in Projects, settled'[q]
               PROVE  StoresAgree(q) /\ \A b \in Writers : task'[b].project # q
    BY DEF SettledProjects, StoresAgree, Loads
  <2>1. q # p /\ settled[q]
    BY DEF Begin, TypeInv, TypeOK
  <2> QED  BY <1>1, <1>2, <1>5, <2>1 DEF Agreement, SettledProjects
<1> QED  BY <1>4, <1>6, <1>7 DEF Agreement

(* Only a busy task is clean, and it works on a project.                    *)
LEMMA IdleTasks ==
    /\ IdleTask.pc = "idle" /\ IdleTask.kind = "none"
    /\ IdleTask.project = NoProject /\ IdleTask.clean = FALSE
    /\ TypeInv /\ Agreement => \A a \in Writers : task[a].clean =>
            Busy(a) /\ task[a].project \in Projects
<1>1. IdleTask.clean = FALSE
  BY DEF IdleTask
<1> QED
  BY <1>1 DEF IdleTask, TypeInv, Agreement, TasksFit, TaskFits, Busy

(* A task that fails is neither clean nor does it settle its project.       *)
LEMMA AbortAgrees ==
    ASSUME TypeInv, Agreement, NEW S \in SUBSET Writers, Abort(S),
           UNCHANGED json, DirsStay
    PROVE  Agreement'
<1>1. /\ \A a \in S : task'[a] = IdleTask
      /\ \A a \in Writers \ S : task'[a] = task[a]
      /\ settled' = settled
      /\ \A p \in Projects : lex'[p].docs = lex[p].docs
  BY DEF Abort, DirsStay
<1>2. TasksFit'
  BY <1>1, IdleTasks DEF Agreement, TasksFit, TaskFits
<1>3. CleanTasks'
  <2> SUFFICES ASSUME NEW a \in Writers, task'[a].clean
               PROVE  /\ \A b \in Writers \ {a} :
                            task'[b].project # task'[a].project
                      /\ Progress(task'[a], json[task'[a].project],
                                  lex'[task'[a].project].docs)
    BY DEF CleanTasks
  <2>1. task'[a] = task[a]
    BY <1>1, IdleTasks
  <2>2. /\ \A b \in Writers \ {a} : task[b].project # task[a].project
        /\ Progress(task[a], json[task[a].project], lex[task[a].project].docs)
    BY <2>1 DEF Agreement, CleanTasks
  <2>3. task[a].project \in Projects /\ task[a].project # NoProject
    BY <2>1, IdleTasks, StoreAssumption
  <2> QED  BY <1>1, <2>1, <2>2, <2>3, IdleTasks
<1>4. SettledProjects'
  <2> SUFFICES ASSUME NEW p \in Projects, settled'[p]
               PROVE  StoresAgree(p)' /\ \A a \in Writers : task'[a].project # p
    BY DEF SettledProjects
  <2>1. StoresAgree(p) /\ \A a \in Writers : task[a].project # p
    BY <1>1 DEF Agreement, SettledProjects
  <2>2. StoresAgree(p)'
    BY <1>1, <2>1 DEF StoresAgree, Loads
  <2> QED  BY <1>1, <2>1, <2>2, IdleTasks, StoreAssumption
<1> QED  BY <1>2, <1>3, <1>4 DEF Agreement

(* A task at work changes the stores of its own project only, and leaves    *)
(* them as its next step, or the end of the task, expects them.             *)
LEMMA OwnStepAgrees ==
    ASSUME TypeInv, Agreement, NEW a \in Writers, Busy(a),
           NEW p \in Projects, task[a].project = p,
           \A b \in Writers \ {a} : task'[b] = task[b],
           settled' \in [Projects -> BOOLEAN],
           \A q \in Projects \ {p} :
                /\ json'[q] = json[q] /\ lex'[q] = lex[q]
                /\ settled'[q] = settled[q],
           TaskFits(task'[a]),
           task'[a] = IdleTask \/ /\ task'[a].project = p
                                  /\ task'[a].clean => task[a].clean
                                  /\ task'[a].pc # "idle",
           task'[a].clean => Progress(task'[a], json'[p], lex'[p].docs),
           settled'[p] =>
                /\ task'[a] = IdleTask /\ task[a].clean
                /\ StoresAgree(p)'
    PROVE  Agreement'
<1>1. TasksFit'
  BY DEF Agreement, TasksFit, TaskFits
<1>2. CleanTasks'
  <2> SUFFICES ASSUME NEW b \in Writers, task'[b].clean
               PROVE  /\ \A c \in Writers \ {b} :
                            task'[c].project # task'[b].project
                      /\ Progress(task'[b], json'[task'[b].project],
                                  lex'[task'[b].project].docs)
    BY DEF CleanTasks
  <2>1. /\ task[b].clean /\ task'[b].project = task[b].project
        /\ b # a => task'[b] = task[b]
    BY IdleTasks
  <2>2. /\ \A c \in Writers \ {b} : task[c].project # task[b].project
        /\ Progress(task[b], json[task[b].project], lex[task[b].project].docs)
        /\ task[b].project \in Projects
    BY <2>1, IdleTasks DEF Agreement, CleanTasks
  <2>3. \A c \in Writers \ {b} : task'[c].project # task'[b].project
    BY <2>1, <2>2, IdleTasks, StoreAssumption
  <2>4. Progress(task'[b], json'[task'[b].project], lex'[task'[b].project].docs)
    BY <2>1, <2>2
  <2> QED  BY <2>3, <2>4
<1>3. SettledProjects'
  <2> SUFFICES ASSUME NEW q \in Projects, settled'[q]
               PROVE  StoresAgree(q)' /\ \A b \in Writers : task'[b].project # q
    BY DEF SettledProjects
  <2>1. CASE q = p
    <3>1. task'[a] = IdleTask /\ task[a].clean /\ StoresAgree(q)'
      BY <2>1
    <3>2. \A b \in Writers \ {a} : task[b].project # p
      BY <3>1 DEF Agreement, CleanTasks
    <3> QED  BY <2>1, <3>1, <3>2, IdleTasks, StoreAssumption
  <2>2. CASE q # p
    <3>1. StoresAgree(q) /\ \A b \in Writers : task[b].project # q
      BY <2>2 DEF Agreement, SettledProjects
    <3>2. StoresAgree(q)'
      BY <2>2, <3>1 DEF StoresAgree, Loads
    <3> QED  BY <2>2, <3>1, <3>2, IdleTasks, StoreAssumption
  <2> QED  BY <2>1, <2>2
<1> QED  BY <1>1, <1>2, <1>3 DEF Agreement

(* What a busy task knows before its step.                                  *)
LEMMA BusyTask ==
    ASSUME TypeInv, Agreement, NEW a \in Writers, Busy(a)
    PROVE  /\ task[a] \in Task /\ task[a].project \in Projects
           /\ TaskFits(task[a])
           /\ ~settled[task[a].project]
           /\ task[a].clean =>
                Progress(task[a], json[task[a].project],
                         lex[task[a].project].docs)
BY DEF TypeInv, TypeOK, Agreement, TasksFit, CleanTasks, SettledProjects

(* A step that goes on without a change of settled.                         *)
LEMMA GoingOnAgrees ==
    ASSUME TypeInv, Agreement, NEW a \in Writers, Busy(a),
           NEW p \in Projects, task[a].project = p,
           NEW t, task' = [task EXCEPT ![a] = t],
           UNCHANGED settled,
           \A q \in Projects \ {p} : json'[q] = json[q] /\ lex'[q] = lex[q],
           TaskFits(t), t.pc # "idle",
           t.project = p, t.clean = task[a].clean,
           task[a].clean => Progress(t, json'[p], lex'[p].docs)
    PROVE  Agreement'
<1>1. /\ task'[a] = t
      /\ \A b \in Writers \ {a} : task'[b] = task[b]
      /\ settled' \in [Projects -> BOOLEAN]
  BY DEF TypeInv, TypeOK
<1>2. ~settled'[p]
  BY BusyTask
<1> QED  BY <1>1, <1>2, OwnStepAgrees

LEMMA ScanAgrees ==
    ASSUME TypeInv, Agreement, NEW a \in Writers, ScanAndExtract(a)
    PROVE  Agreement'
<1> DEFINE p == task[a].project
           t == [task[a] EXCEPT !.pc = "truncate", !.chunks = disk[p]]
<1>1. Busy(a) /\ task[a].pc = "scan"
  BY DEF ScanAndExtract, At, Busy
<1>2. /\ task[a] \in Task /\ p \in Projects /\ TaskFits(task[a])
  BY <1>1, BusyTask
<1>3. /\ t.pc = "truncate" /\ t.kind = task[a].kind /\ t.project = p
      /\ t.clean = task[a].clean
  BY <1>2 DEF Task
<1>4. /\ task' = [task EXCEPT ![a] = t]
      /\ UNCHANGED <<json, lex, settled>>
  BY DEF ScanAndExtract, TypeInv, TypeOK, store, history
<1>5. task'[a] = t
  BY <1>4 DEF TypeInv, TypeOK
<1>6. TaskFits(t) /\ Progress(t, json'[p], lex'[p].docs)
  BY <1>1, <1>2, <1>3
  DEF TaskFits, Progress, HasSaved, HasRemoved, CatalogSteps
<1> HIDE DEF t
<1> QED  BY <1>1, <1>2, <1>3, <1>4, <1>6, GoingOnAgrees

(* A busy task that goes on to its next step, as a record.                  *)
LEMMA GotoRecord ==
    ASSUME TypeInv, NEW a \in Writers, NEW pc, Goto(a, pc) \/ EndSave(a, pc)
    PROVE  \E t : /\ task' = [task EXCEPT ![a] = t] /\ task'[a] = t
                  /\ t.pc = pc /\ t.kind = task[a].kind
                  /\ t.project = task[a].project /\ t.clean = task[a].clean
                  /\ t.chunks = task[a].chunks
<1>1. task[a] \in Task
  BY DEF TypeInv, TypeOK
<1>2. CASE Goto(a, pc)
  <2> DEFINE t == [task[a] EXCEPT !.pc = pc]
  <2>1. task' = [task EXCEPT ![a] = t]
    BY <1>2 DEF Goto
  <2>2. task'[a] = t
    BY <2>1 DEF TypeInv, TypeOK
  <2>3. /\ t.pc = pc /\ t.kind = task[a].kind
        /\ t.project = task[a].project /\ t.clean = task[a].clean
        /\ t.chunks = task[a].chunks
    BY <1>1 DEF Task
  <2> HIDE DEF t
  <2> QED  BY <2>1, <2>2, <2>3
<1>3. CASE EndSave(a, pc)
  <2> DEFINE t == [task[a] EXCEPT !.pc = pc, !.seen = NoEntries]
  <2>1. task' = [task EXCEPT ![a] = t]
    BY <1>3 DEF EndSave
  <2>2. task'[a] = t
    BY <2>1 DEF TypeInv, TypeOK
  <2>3. /\ t.pc = pc /\ t.kind = task[a].kind
        /\ t.project = task[a].project /\ t.clean = task[a].clean
        /\ t.chunks = task[a].chunks
    BY <1>1 DEF Task
  <2> HIDE DEF t
  <2> QED  BY <2>1, <2>2, <2>3
<1> QED  BY <1>2, <1>3

(* A deletion that fails promises nothing from then on.                     *)
LEMMA UncleanAgrees ==
    ASSUME TypeInv, Agreement, NEW a \in Writers, NEW pc, GotoUnclean(a, pc),
           NEW p \in Projects, task[a].project = p,
           \/ task[a].pc = "unlink" /\ pc = "rmdir"
           \/ task[a].pc = "rmdir" /\ pc = "cat_read",
           UNCHANGED <<json, settled>>,
           \A q \in Projects \ {p} : lex'[q] = lex[q]
    PROVE  Agreement'
<1> DEFINE t == [task[a] EXCEPT !.pc = pc, !.clean = FALSE]
<1>1. Busy(a) /\ task[a] \in Task /\ TaskFits(task[a]) /\ ~settled[p]
  BY BusyTask DEF Busy
<1>2. /\ task' = [task EXCEPT ![a] = t]
      /\ settled' \in [Projects -> BOOLEAN]
  BY DEF GotoUnclean, TypeInv, TypeOK
<1>3. /\ task'[a] = t
      /\ \A b \in Writers \ {a} : task'[b] = task[b]
  BY <1>2 DEF TypeInv, TypeOK
<1>4. /\ t.pc = pc /\ t.kind = task[a].kind /\ t.project = p
      /\ t.chunks = task[a].chunks
  BY <1>1 DEF Task
<1>5. ~t.clean
  BY <1>1 DEF Task
<1> HIDE DEF t
<1>6. TaskFits(t) /\ t.pc # "idle"
  BY <1>1, <1>4 DEF TaskFits, Removals
<1> QED  BY <1>1, <1>2, <1>3, <1>4, <1>5, <1>6, OwnStepAgrees

LEMMA JsonStepsAgree ==
    ASSUME TypeInv, Agreement, NEW a \in Writers,
           TruncateJson(a) \/ WriteJson(a) \/ UnlinkJson(a)
    PROVE  Agreement'
<1> DEFINE p == task[a].project
<1>1. Busy(a) /\ task[a].pc \in {"truncate", "write", "unlink"}
  BY DEF TruncateJson, WriteJson, UnlinkJson, At, Busy
<1>2. /\ task[a] \in Task /\ p \in Projects /\ TaskFits(task[a])
      /\ task[a].clean => Progress(task[a], json[p], lex[p].docs)
  BY <1>1, BusyTask
<1>3. /\ UNCHANGED <<lex, settled>>
      /\ \A q \in Projects \ {p} : json'[q] = json[q]
  BY <1>2 DEF TruncateJson, WriteJson, UnlinkJson, TypeInv, TypeOK, history
<1>4. CASE UnlinkJson(a) /\ GotoUnclean(a, "rmdir") /\ json' = json
  BY <1>1, <1>2, <1>3, <1>4, UncleanAgrees DEF UnlinkJson, At
<1>5. ASSUME NEW pc \in {"write", "cat_read", "rmdir"}, Goto(a, pc),
             \/ TruncateJson(a) /\ pc = "write"
             \/ WriteJson(a) /\ pc = "cat_read"
             \/ /\ UnlinkJson(a) /\ pc = "rmdir"
                /\ json' = [json EXCEPT ![p] = BrokenJson("missing")]
      PROVE  Agreement'
  <2>1. PICK t : /\ task' = [task EXCEPT ![a] = t] /\ task'[a] = t
                 /\ t.pc = pc /\ t.kind = task[a].kind
                 /\ t.project = p /\ t.clean = task[a].clean
                 /\ t.chunks = task[a].chunks
    BY <1>5, GotoRecord
  <2>2. TaskFits(t) /\ t.pc # "idle"
    BY <1>1, <1>2, <1>5, <2>1
    DEF TaskFits, Removals, TruncateJson, WriteJson, UnlinkJson, At
  <2>3. task[a].clean => Progress(t, json'[p], lex'[p].docs)
    <3> SUFFICES ASSUME task[a].clean PROVE Progress(t, json'[p], lex'[p].docs)
      OBVIOUS
    <3>1. CASE TruncateJson(a) /\ pc = "write"
      <4>1. json'[p].state = "empty"
        BY <1>2, <3>1 DEF TruncateJson, BrokenJson, TypeInv, TypeOK
      <4> QED
        BY <2>1, <3>1, <4>1 DEF Progress, HasSaved, HasRemoved, CatalogSteps
    <3>2. CASE WriteJson(a) /\ pc = "cat_read"
      <4>1. json[p].state = "empty"
        BY <1>2, <3>2 DEF Progress, WriteJson, At
      <4>2. PICK new \in JsonAfterWrite(json[p], task[a].chunks) :
              json' = [json EXCEPT ![p] = new]
        BY <3>2 DEF WriteJson
      <4>3. json'[p] = WholeJson(task[a].chunks)
        BY <1>2, <4>1, <4>2 DEF JsonAfterWrite, TypeInv, TypeOK
      <4>4. task[a].kind \notin Removals
        BY <1>2, <3>2 DEF TaskFits, WriteJson, At, Removals
      <4> QED
        BY <2>1, <3>2, <4>3, <4>4 DEF Progress, HasSaved, HasRemoved
    <3>3. CASE /\ UnlinkJson(a) /\ pc = "rmdir"
               /\ json' = [json EXCEPT ![p] = BrokenJson("missing")]
      <4>1. json'[p].state = "missing"
        BY <1>2, <3>3 DEF BrokenJson, TypeInv, TypeOK
      <4> QED
        BY <2>1, <3>3, <4>1 DEF Progress, HasSaved, HasRemoved, CatalogSteps
    <3> QED  BY <1>5, <3>1, <3>2, <3>3
  <2> QED  BY <1>1, <1>2, <1>3, <2>1, <2>2, <2>3, GoingOnAgrees
<1>6. CASE TruncateJson(a)
  BY <1>5, <1>6 DEF TruncateJson
<1>7. CASE WriteJson(a)
  BY <1>5, <1>7 DEF WriteJson
<1>8. CASE /\ UnlinkJson(a) /\ Goto(a, "rmdir")
           /\ json' = [json EXCEPT ![p] = BrokenJson("missing")]
  BY <1>5, <1>8
<1> QED  BY <1>4, <1>6, <1>7, <1>8 DEF UnlinkJson

LEMMA CatalogReadsAgree ==
    ASSUME TypeInv, Agreement, NEW a \in Writers,
           ReadCatalog(a) \/ TruncateCatalog(a)
    PROVE  Agreement'
<1> DEFINE p == task[a].project
<1>1. Busy(a) /\ task[a].pc \in {"cat_read", "cat_truncate"}
  BY DEF ReadCatalog, TruncateCatalog, At, Busy
<1>2. /\ task[a] \in Task /\ p \in Projects /\ TaskFits(task[a])
      /\ task[a].clean => Progress(task[a], json[p], lex[p].docs)
  BY <1>1, BusyTask
<1>3. UNCHANGED <<json, lex, settled>>
  BY DEF ReadCatalog, TruncateCatalog, store, history
<1>4. ASSUME NEW t, t.pc \in {"cat_truncate", "cat_write"},
             t.kind = task[a].kind, t.chunks = task[a].chunks
      PROVE  /\ TaskFits(t)
             /\ task[a].clean => Progress(t, json'[p], lex'[p].docs)
  BY <1>1, <1>2, <1>3, <1>4
  DEF TaskFits, Progress, HasSaved, HasRemoved, CatalogSteps
<1>5. CASE ReadCatalog(a)
  <2> DEFINE t == [task[a] EXCEPT !.pc = "cat_truncate",
                                  !.seen = catalog.entries]
  <2>1. /\ t.pc = "cat_truncate" /\ t.kind = task[a].kind
        /\ t.project = p /\ t.clean = task[a].clean
        /\ t.chunks = task[a].chunks /\ t.seen = catalog.entries
    BY <1>2 DEF Task
  <2>2. task' = [task EXCEPT ![a] = t]
    BY <1>5 DEF ReadCatalog
  <2> HIDE DEF t
  <2>3. TaskFits(t) /\ (task[a].clean => Progress(t, json'[p], lex'[p].docs))
    BY <1>4, <2>1
  <2>4. t.pc # "idle"
    BY <2>1
  <2> QED  BY <1>1, <1>2, <1>3, <2>1, <2>2, <2>3, <2>4, GoingOnAgrees
<1>6. CASE TruncateCatalog(a)
  <2>1. Goto(a, "cat_write")
    BY <1>6 DEF TruncateCatalog
  <2>2. PICK t : /\ task' = [task EXCEPT ![a] = t] /\ task'[a] = t
                 /\ t.pc = "cat_write" /\ t.kind = task[a].kind
                 /\ t.project = p /\ t.clean = task[a].clean
                 /\ t.chunks = task[a].chunks
    BY <2>1, GotoRecord
  <2>3. TaskFits(t) /\ (task[a].clean => Progress(t, json'[p], lex'[p].docs))
    BY <1>4, <2>2
  <2>4. t.pc # "idle"
    BY <2>2
  <2> QED  BY <1>1, <1>2, <1>3, <2>2, <2>3, <2>4, GoingOnAgrees
<1> QED  BY <1>5, <1>6

(* The end of a clean task.                                                 *)
LEMMA SucceedAgrees ==
    ASSUME TypeInv, Agreement, NEW a \in Writers, Busy(a), Succeed(a),
           UNCHANGED json,
           \A q \in Projects \ {task[a].project} : lex'[q] = lex[q],
           NEW p \in Projects, task[a].project = p,
           task[a].clean => StoresAgree(p)'
    PROVE  Agreement'
<1>1. /\ task'[a] = IdleTask
      /\ \A b \in Writers \ {a} : task'[b] = task[b]
      /\ settled' = [settled EXCEPT ![p] = task[a].clean]
  BY DEF Succeed, TypeInv, TypeOK
<1>2. task[a].clean \in BOOLEAN
  BY DEF TypeInv, TypeOK, Task
<1>3. /\ settled' \in [Projects -> BOOLEAN]
      /\ \A q \in Projects \ {p} : settled'[q] = settled[q]
      /\ settled'[p] => task[a].clean
  BY <1>1, <1>2 DEF TypeInv, TypeOK
<1>4. TaskFits(IdleTask) /\ Progress(IdleTask, json'[p], lex'[p].docs)
  BY IdleTasks
  DEF TaskFits, Progress, HasSaved, HasRemoved, CatalogSteps
<1> QED  BY <1>1, <1>3, <1>4, IdleTasks, OwnStepAgrees

LEMMA WriteCatalogAgrees ==
    ASSUME TypeInv, Agreement, NEW a \in Writers, WriteCatalog(a)
    PROVE  Agreement'
<1>1. Busy(a) /\ task[a].pc = "cat_write"
  BY DEF WriteCatalog, At, Busy
<1> PICK p \in Projects : task[a].project = p
  BY <1>1, BusyTask
<1>2. /\ task[a] \in Task /\ TaskFits(task[a])
      /\ task[a].clean => Progress(task[a], json[p], lex[p].docs)
      /\ task[a].kind \in Kinds
  BY <1>1, BusyTask DEF Task
<1>3. json' = json /\ lex' = lex
  BY DEF WriteCatalog
<1>5. ASSUME NEW pc, EndSave(a, pc), UNCHANGED settled,
             \/ pc = "open" /\ task[a].kind \in {"index", "watch"}
             \/ pc = "deselect" /\ task[a].kind = "remove"
      PROVE  Agreement'
  <2>1. PICK t : /\ task' = [task EXCEPT ![a] = t] /\ task'[a] = t
                 /\ t.pc = pc /\ t.kind = task[a].kind
                 /\ t.project = p /\ t.clean = task[a].clean
                 /\ t.chunks = task[a].chunks
    BY <1>5, GotoRecord
  <2>2. TaskFits(t) /\ t.pc # "idle"
    BY <1>2, <1>5, <2>1 DEF TaskFits, Removals
  <2>3. task[a].clean => Progress(t, json'[p], lex'[p].docs)
    BY <1>1, <1>2, <1>3, <1>5, <2>1
    DEF Progress, HasSaved, HasRemoved, CatalogSteps, Removals
  <2> QED  BY <1>1, <1>2, <1>3, <1>5, <2>1, <2>2, <2>3, GoingOnAgrees
<1>6. ASSUME Succeed(a), task[a].kind \in {"add", "clear"}
      PROVE  Agreement'
  <2>1. task[a].clean => StoresAgree(p)'
    <3> SUFFICES ASSUME task[a].clean
                 PROVE  IF json[p].state = "whole"
                        THEN json[p].chunks = NoChunks ELSE lex[p].docs = {}
      BY <1>2, <1>3 DEF StoresAgree, Loads, Succeed
    <3> QED
      BY <1>1, <1>2, <1>6
      DEF Progress, HasSaved, HasRemoved, CatalogSteps, Removals, TaskFits,
          WholeJson
  <2> QED  BY <1>1, <1>2, <1>3, <1>6, <2>1, SucceedAgrees
<1> QED  BY <1>5, <1>6 DEF WriteCatalog

LEMMA OpenAndResetAgree ==
    ASSUME TypeInv, Agreement, NEW a \in Writers, OpenIndex(a) \/ ResetIndex(a)
    PROVE  Agreement'
<1> DEFINE p == task[a].project
<1>1. Busy(a) /\ task[a].pc \in {"open", "reset"}
  BY DEF OpenIndex, ResetIndex, At, Busy
<1>2. /\ task[a] \in Task /\ p \in Projects /\ TaskFits(task[a])
      /\ task[a].clean => Progress(task[a], json[p], lex[p].docs)
  BY <1>1, BusyTask
<1>3. PICK pc \in {"reset", "commit"}, view \in SUBSET Doc :
        task' = [task EXCEPT ![a] = [@ EXCEPT !.pc = pc, !.view = view]]
  <2>1. CASE OpenIndex(a)
    <3>1. task' = [task EXCEPT
              ![a] = [@ EXCEPT !.pc = "reset", !.view = lex[p].docs]]
      BY <2>1 DEF OpenIndex
    <3>2. lex[p].docs \in SUBSET Doc
      BY <1>2 DEF TypeInv, TypeOK, LexDir
    <3> QED  BY <3>1, <3>2
  <2>2. CASE ResetIndex(a)
    <3>1. task' = [task EXCEPT ![a] = [@ EXCEPT !.pc = "commit", !.view = {}]]
      BY <2>2 DEF ResetIndex
    <3> QED  BY <3>1
  <2> QED  BY <2>1, <2>2
<1> DEFINE t == [task[a] EXCEPT !.pc = pc, !.view = view]
<1>4. /\ t.pc = pc /\ t.kind = task[a].kind /\ t.project = p
      /\ t.clean = task[a].clean /\ t.chunks = task[a].chunks
  BY <1>2 DEF Task
<1>5. task' = [task EXCEPT ![a] = t] /\ task'[a] = t
  BY <1>3 DEF TypeInv, TypeOK
<1> HIDE DEF t
<1>6. /\ UNCHANGED <<json, settled>>
      /\ \A q \in Projects \ {p} : lex'[q] = lex[q]
  BY <1>2 DEF OpenIndex, ResetIndex, TypeInv, TypeOK, history
<1>7. TaskFits(t) /\ t.pc # "idle"
  BY <1>1, <1>2, <1>4 DEF TaskFits
<1>8. task[a].clean => Progress(t, json'[p], lex'[p].docs)
  BY <1>1, <1>2, <1>4, <1>6
  DEF Progress, HasSaved, HasRemoved, CatalogSteps
<1> QED  BY <1>1, <1>2, <1>4, <1>5, <1>6, <1>7, <1>8, GoingOnAgrees

LEMMA CommitAgrees ==
    ASSUME TypeInv, LockInv, Agreement, NEW a \in Writers, CommitIndex(a)
    PROVE  Agreement'
<1>1. Busy(a) /\ task[a].pc = "commit"
  BY DEF CommitIndex, At, Busy
<1> PICK p \in Projects : task[a].project = p
  BY <1>1, BusyTask
<1>2. task[a].clean => Progress(task[a], json[p], lex[p].docs)
  BY <1>1, BusyTask
<1>3. /\ Succeed(a) /\ json' = json
      /\ \A q \in Projects \ {p} : lex'[q] = lex[q]
  BY DEF CommitIndex, TypeInv, TypeOK
<1>4. task[a].view = {}
  BY DEF LockInv, CommitStartsEmpty, CommitIndex
<1>5. lex'[p].docs = DocsOf(task[a].chunks, IdOf(task[a].kind))
  BY <1>4 DEF CommitIndex, TypeInv, TypeOK, LexDir
<1>6. task[a].clean => StoresAgree(p)'
  <2> SUFFICES ASSUME task[a].clean PROVE StoresAgree(p)'
    OBVIOUS
  <2>1. json'[p] = WholeJson(task[a].chunks)
    BY <1>1, <1>2, <1>3 DEF Progress, HasSaved
  <2>2. Loads(p)' /\ json'[p].chunks = task[a].chunks
    BY <2>1 DEF Loads, WholeJson
  <2>3. Versioned(lex'[p].docs) = Versioned(DocsOf(task[a].chunks, "raw"))
    BY <1>5, DocsAgree
  <2> QED  BY <2>2, <2>3 DEF StoresAgree
<1> QED  BY <1>1, <1>3, <1>6, SucceedAgrees

LEMMA RemoveStorageAgrees ==
    ASSUME TypeInv, Agreement, NEW a \in Writers, RemoveStorageDir(a)
    PROVE  Agreement'
<1>1. Busy(a) /\ task[a].pc = "rmdir"
  BY DEF RemoveStorageDir, At, Busy
<1> PICK p \in Projects : task[a].project = p
  BY <1>1, BusyTask
<1>2. /\ TaskFits(task[a])
      /\ task[a].clean => Progress(task[a], json[p], lex[p].docs)
  BY <1>1, BusyTask
<1>3. /\ UNCHANGED <<json, settled>>
      /\ \A q \in Projects \ {p} : lex'[q] = lex[q]
  BY DEF RemoveStorageDir, TypeInv, TypeOK, history
<1>4. CASE GotoUnclean(a, "cat_read")
  BY <1>1, <1>3, <1>4, UncleanAgrees
<1>5. CASE Goto(a, "cat_read") /\ lex' = [lex EXCEPT ![p] = NoDir]
  <2>1. PICK t : /\ task' = [task EXCEPT ![a] = t] /\ task'[a] = t
                 /\ t.pc = "cat_read" /\ t.kind = task[a].kind
                 /\ t.project = p /\ t.clean = task[a].clean
                 /\ t.chunks = task[a].chunks
    BY <1>5, GotoRecord
  <2>2. t.kind \in Removals /\ TaskFits(t) /\ t.pc # "idle"
    BY <1>1, <1>2, <2>1 DEF TaskFits, Removals
  <2>3. lex'[p].docs = {}
    BY <1>5 DEF NoDir, DirWithout, TypeInv, TypeOK
  <2>4. task[a].clean => Progress(t, json'[p], lex'[p].docs)
    BY <1>1, <1>2, <1>3, <2>1, <2>2, <2>3 DEF Progress, HasSaved, HasRemoved
  <2> QED  BY <1>1, <1>3, <2>1, <2>2, <2>4, GoingOnAgrees
<1> QED  BY <1>4, <1>5 DEF RemoveStorageDir

LEMMA DeselectAgrees ==
    ASSUME TypeInv, Agreement, NEW a \in Writers, Deselect(a)
    PROVE  Agreement'
<1>1. /\ Busy(a) /\ task[a].pc = "deselect" /\ Succeed(a)
      /\ json' = json /\ lex' = lex
  BY DEF Deselect, At, Busy
<1> PICK p \in Projects : task[a].project = p
  BY <1>1, BusyTask
<1>2. task[a].clean => Progress(task[a], json[p], lex[p].docs)
  BY <1>1, BusyTask
<1>3. task[a].clean => StoresAgree(p)'
  BY <1>1, <1>2 DEF Progress, HasSaved, HasRemoved, StoresAgree, Loads
<1> QED  BY <1>1, <1>3, SucceedAgrees

LEMMA AdvanceAgrees ==
    ASSUME TypeInv, LockInv, Agreement, NEW a \in Writers, Advance(a)
    PROVE  Agreement'
<1>1. CASE OpenIndexFails(a) \/ IndexDirGone(a)
  <2>1. task[a].project \in Projects
    BY <1>1 DEF OpenIndexFails, IndexDirGone, At, TypeInv, Busy
  <2>2. /\ Abort({a}) /\ {a} \in SUBSET Writers
        /\ UNCHANGED json /\ DirsStay
    BY <1>1, <2>1, OpenedDirsStay, UnchangedDirsStay
    DEF OpenIndexFails, IndexDirGone, store
  <2> QED  BY <2>2, AbortAgrees
<1> QED
  BY <1>1, ScanAgrees, JsonStepsAgree, CatalogReadsAgree, WriteCatalogAgrees,
     OpenAndResetAgree, CommitAgrees, RemoveStorageAgrees, DeselectAgrees
  DEF Advance

LEMMA CommandAgrees ==
    ASSUME TypeInv, Agreement, NEW a \in Indexers, NEW p \in Projects,
           Command(a, p)
    PROVE  Agreement'
<1>1. a \in Writers
  BY DEF Writers
<1>2. CASE Loads(p) /\ AddRepo(a, p)
  BY <1>2, StillAgrees, UnchangedDirsStay DEF AddRepo
<1>3. CASE ~(Loads(p) /\ AddRepo(a, p))
  <2>1. /\ ~Busy(a) /\ UNCHANGED <<json, lex>>
        /\ \/ Begin(a, "index", p, "scan", NoChunks)
           \/ Begin(a, "add", p, "truncate", NoChunks)
           \/ Begin(a, "remove", p, "unlink", NoChunks)
           \/ Begin(a, "clear", p, "unlink", NoChunks)
    BY <1>3
    DEF Command, IndexNow, AddRepo, RemoveRepo, ClearIndex, store
  <2> QED  BY <1>1, <2>1, BeginAgrees
<1> QED  BY <1>2, <1>3

LEMMA SearchDirsStay ==
    ASSUME TypeInv, NEW s \in Searchers, SearchStep(s)
    PROVE  DirsStay
<1>1. CASE SearchOpen(s) \/ SearchInMemory(s)
  <2>1. search[s].project \in Projects
    BY <1>1 DEF SearchOpen, SearchInMemory, TypeInv
  <2> QED  BY <1>1, <2>1, OpenedDirsStay DEF SearchOpen, SearchInMemory
<1>2. CASE SearchCheck(s) \/ SearchClose(s)
  BY <1>2, UnchangedDirsStay DEF SearchCheck, SearchClose, store
<1> QED  BY <1>1, <1>2 DEF SearchStep

LEMMA EnvironmentAgrees ==
    ASSUME TypeInv, Agreement,
           \/ \E p \in Projects, f \in Files, v \in Content : EditFile(p, f, v)
           \/ \E w \in Watchers, f \in Files : UpdateFile(w, f)
           \/ \E s \in Searchers, p \in Projects, f \in Files :
                    SearchLoad(s, p, f)
           \/ \E s \in Searchers : SearchStep(s)
           \/ \E a \in Writers : TaskFails(a)
           \/ ServerCrash
           \/ ServerStart
           \/ UNCHANGED vars
    PROVE  Agreement'
<1>1. ASSUME NEW w \in Watchers, NEW f \in Files, UpdateFile(w, f)
      PROVE  Agreement'
  <2>1. w \in Writers /\ Watches[w] \in Projects
    BY StoreAssumption DEF Writers
  <2>2. CASE Loads(Watches[w])
    <3>1. /\ ~Busy(w) /\ UNCHANGED <<json, lex>>
          /\ \E chunks : Begin(w, "watch", Watches[w], "truncate", chunks)
      BY <1>1, <2>2 DEF UpdateFile, store
    <3> QED  BY <2>1, <3>1, BeginAgrees
  <2>3. CASE ~Loads(Watches[w])
    BY <1>1, <2>3, StillAgrees, UnchangedDirsStay DEF UpdateFile, store, history
  <2> QED  BY <2>2, <2>3
<1>2. CASE \/ \E p \in Projects, f \in Files, v \in Content : EditFile(p, f, v)
           \/ \E s \in Searchers, p \in Projects, f \in Files :
                    SearchLoad(s, p, f)
           \/ \E s \in Searchers : SearchStep(s)
           \/ ServerStart
           \/ UNCHANGED vars
  <2>1. UNCHANGED <<json, task, settled>>
    BY <1>2
    DEF EditFile, SearchLoad, SearchStep, SearchCheck, SearchOpen,
        SearchInMemory, SearchClose, ServerStart, vars, store, history
  <2>2. DirsStay
    BY <1>2, SearchDirsStay, UnchangedDirsStay
    DEF EditFile, SearchLoad, ServerStart, vars, store
  <2> QED  BY <2>1, <2>2, StillAgrees
<1>3. ASSUME NEW a \in Writers, TaskFails(a)
      PROVE  Agreement'
  <2>1. /\ {a} \in SUBSET Writers /\ Abort({a})
        /\ UNCHANGED json /\ DirsStay
    BY <1>3, UnchangedDirsStay DEF TaskFails
  <2> QED  BY <2>1, AbortAgrees
<1>4. CASE ServerCrash
  <2>1. /\ Watchers \in SUBSET Writers /\ Abort(Watchers)
        /\ UNCHANGED json /\ DirsStay
    BY <1>4, UnchangedDirsStay DEF ServerCrash, Writers
  <2> QED  BY <2>1, AbortAgrees
<1> QED  BY <1>1, <1>2, <1>3, <1>4

LEMMA AgreementStep ==
    TypeInv /\ LockInv /\ Agreement /\ [Next]_vars => Agreement'
BY CommandAgrees, AdvanceAgrees, EnvironmentAgrees DEF Next

(* Clean tasks leave what they have written where the rest of the operation *)
(* expects it, and settled projects are left alone.                         *)
THEOREM AgreementInvariant == Spec => []Agreement
<1>1. Init => Agreement
  BY AgreementInit
<1>2. StoreInv /\ Agreement /\ [Next]_vars => Agreement'
  BY AgreementStep DEF StoreInv
<1> QED  BY <1>1, <1>2, StoreInvariant, PTL DEF Spec

(* The stored index and the lexical index of a project agree after every    *)
(* clean operation, for any projects, files, processes and faults, searches *)
(* that create the removed directory again included.                        *)
THEOREM StoresOfSettledProjectsAgree == Spec => []SettledStoresAgree
<1>1. Agreement => SettledStoresAgree
  BY DEF Agreement, SettledProjects, StoresAgree, Versioned, SettledStoresAgree
<1> QED  BY <1>1, AgreementInvariant, PTL

-----------------------------------------------------------------------------
(* The catalog.  The entry of a project is right from the moment a clean    *)
(* task has written it until the next task on the project begins: in the    *)
(* catalog as long as nobody rewrites it, and meanwhile in what the one who *)
(* rewrites it has read.                                                    *)

HasListed(t) == t.pc \in {"open", "reset", "commit", "deselect"}
Kept(p) ==
    \/ settled[p]
    \/ \E a \in Writers : /\ task[a].project = p /\ task[a].clean
                          /\ HasListed(task[a])

CatalogKept(p) ==
    /\ (\A a \in Writers : ~At(a, "cat_write")) => ListedRight(catalog.entries, p)
    /\ \A a \in Writers :
            (\A b \in Writers \ {a} : ~At(b, "cat_write")) =>
                /\ task[a].pc \in InCatalog => ListedRight(task[a].seen, p)
                /\ At(a, "cat_write") => catalog.state = "empty"

Listings == \A p \in Projects \ lost : Kept(p) => CatalogKept(p)

LEMMA ListingsInit == Init => Listings
<1> SUFFICES ASSUME Init, NEW p \in Projects PROVE CatalogKept(p)
  BY DEF Listings
<1>1. \A a \in Writers : task[a].pc = "idle"
  BY DEF Init, IdleTask
<1>2. catalog.entries = [q \in Indexed |-> Count(disk[q])]
  BY DEF Init, WholeCatalog
<1>3. json[p] = IF p \in Indexed THEN WholeJson(disk[p]) ELSE BrokenJson("missing")
  BY DEF Init
<1>4. ListedRight(catalog.entries, p)
  <2>1. CASE p \in Indexed
    <3>1. Loads(p) /\ json[p].chunks = disk[p]
      BY <1>3, <2>1 DEF Loads, WholeJson
    <3> QED  BY <1>2, <2>1, <3>1 DEF ListedRight
  <2>2. CASE p \notin Indexed
    <3>1. ~Loads(p)
      BY <1>3, <2>2 DEF Loads, BrokenJson
    <3> QED  BY <1>2, <2>2, <3>1 DEF ListedRight
  <2> QED  BY <2>1, <2>2
<1> QED  BY <1>1, <1>4 DEF CatalogKept, At, InCatalog

(* Nothing of the catalog changes, and nobody comes to rewrite it.          *)
LEMMA StillListed ==
    ASSUME Listings, catalog' = catalog, lost \subseteq lost',
           \A q \in Projects : Kept(q)' => Kept(q) /\ json'[q] = json[q],
           \A a \in Writers : task'[a].pc = "cat_write" <=> task[a].pc = "cat_write",
           \A a \in Writers : task'[a].pc \in InCatalog =>
                /\ task[a].pc = task'[a].pc
                /\ task[a].seen = task'[a].seen
    PROVE  Listings'
<1> SUFFICES ASSUME NEW p \in Projects, p \notin lost', Kept(p)'
             PROVE  CatalogKept(p)'
  BY DEF Listings
<1>1. CatalogKept(p) /\ json'[p] = json[p]
  BY DEF Listings
<1>2. (\A a \in Writers : ~At(a, "cat_write")') =>
            ListedRight(catalog.entries, p)'
  BY <1>1 DEF CatalogKept, At, ListedRight, Loads
<1>3. ASSUME NEW a \in Writers, \A b \in Writers \ {a} : ~At(b, "cat_write")'
      PROVE  /\ task'[a].pc \in InCatalog => ListedRight(task[a].seen, p)'
             /\ At(a, "cat_write")' => catalog'.state = "empty"
  <2>1. /\ task[a].pc \in InCatalog => ListedRight(task[a].seen, p)
        /\ At(a, "cat_write") => catalog.state = "empty"
    BY <1>1, <1>3 DEF CatalogKept, At
  <2>2. task'[a].pc \in InCatalog => ListedRight(task[a].seen, p)'
    BY <1>1, <2>1 DEF ListedRight, Loads
  <2> QED  BY <2>1, <2>2 DEF At
<1> QED  BY <1>2, <1>3 DEF CatalogKept

(* A project is not kept while somebody else is at work on it.              *)
LEMMA KeptUnbothered ==
    ASSUME TypeInv, Agreement, NEW a \in Writers, Busy(a), ~HasListed(task[a])
    PROVE  ~Kept(task[a].project)
<1>1. task[a].project \in Projects
  BY DEF TypeInv
<1>2. ~settled[task[a].project]
  BY <1>1 DEF Agreement, SettledProjects
<1>3. \A b \in Writers : task[b].clean /\ task[b].project = task[a].project => b = a
  BY DEF Agreement, CleanTasks
<1> QED  BY <1>2, <1>3 DEF Kept

(* A task goes on outside the catalog, or ends.                             *)
LEMMA OwnStepListed ==
    ASSUME TypeInv, Agreement, Listings, NEW a \in Writers, Busy(a),
           \A b \in Writers \ {a} : task'[b] = task[b],
           task[a].pc # "cat_write", task'[a].pc \notin InCatalog,
           task'[a] = IdleTask \/ /\ task'[a].project = task[a].project
                                  /\ task'[a].clean => task[a].clean,
           HasListed(task'[a]) => HasListed(task[a]),
           \A q \in Projects : settled'[q] =>
                \/ settled[q]
                \/ q = task[a].project /\ task[a].clean /\ HasListed(task[a]),
           catalog' = catalog, lost' = lost,
           \A q \in Projects :
                \/ json'[q] = json[q]
                \/ q = task[a].project /\ ~HasListed(task[a])
    PROVE  Listings'
<1>1. ASSUME NEW q \in Projects, Kept(q)'
      PROVE  Kept(q) /\ json'[q] = json[q]
  <2>1. ~HasListed(IdleTask)
    BY DEF HasListed, IdleTask
  <2>2. CASE settled'[q]
    <3>1. Kept(q)
      BY <2>2 DEF Kept
    <3> QED  BY <3>1, KeptUnbothered
  <2>3. ASSUME NEW b \in Writers, task'[b].project = q, task'[b].clean,
               HasListed(task'[b])
        PROVE  Kept(q) /\ json'[q] = json[q]
    <3>1. task[b].project = q /\ task[b].clean /\ HasListed(task[b])
      BY <2>1, <2>3
    <3>2. Kept(q)
      BY <3>1 DEF Kept
    <3> QED  BY <3>2, KeptUnbothered
  <2> QED  BY <1>1, <2>2, <2>3 DEF Kept
<1>2. \A b \in Writers : task'[b].pc = "cat_write" <=> task[b].pc = "cat_write"
  BY DEF InCatalog
<1>3. \A b \in Writers : task'[b].pc \in InCatalog => task[b] = task'[b]
  OBVIOUS
<1> QED  BY <1>1, <1>2, <1>3, StillListed

LEMMA BeginListed ==
    ASSUME TypeInv, Agreement, Listings, NEW a \in Writers, ~Busy(a), NEW kind,
           NEW p \in Projects, NEW pc \in {"scan", "truncate", "unlink"},
           NEW chunks, Begin(a, kind, p, pc, chunks),
           UNCHANGED <<json, catalog>>
    PROVE  Listings'
<1>1. /\ task'[a].pc = pc
      /\ \A b \in Writers \ {a} :
            /\ task'[b].pc = task[b].pc /\ task'[b].project = task[b].project
            /\ task'[b].seen = task[b].seen
            /\ task'[b].clean => task[b].clean
  <2>1. task'[a].pc = pc
    BY DEF Begin, IdleTask
  <2>2. ASSUME NEW b \in Writers \ {a}
        PROVE  /\ task'[b].pc = task[b].pc /\ task'[b].project = task[b].project
               /\ task'[b].seen = task[b].seen
               /\ task'[b].clean => task[b].clean
    <3>1. task[b] \in Task
      BY DEF TypeInv, TypeOK
    <3>2. task'[b] = [task[b] EXCEPT !.clean = @ /\ task[b].project # p]
      BY DEF Begin
    <3>3. task'[b].clean = (task[b].clean /\ task[b].project # p)
      BY <3>1, <3>2 DEF Task
    <3>4. /\ task'[b].pc = task[b].pc /\ task'[b].project = task[b].project
          /\ task'[b].seen = task[b].seen
      BY <3>1, <3>2 DEF Task
    <3> QED  BY <3>3, <3>4
  <2> QED  BY <2>1, <2>2
<1>2. /\ lost' = lost
      /\ \A q \in Projects : settled'[q] => settled[q]
  BY DEF Begin, TypeInv, TypeOK
<1>3. \A q \in Projects : Kept(q)' => Kept(q)
  BY <1>1, <1>2 DEF Kept, HasListed
<1>4. \A b \in Writers : task'[b].pc = "cat_write" <=> task[b].pc = "cat_write"
  BY <1>1 DEF Busy
<1>5. \A b \in Writers : task'[b].pc \in InCatalog =>
            task[b].pc = task'[b].pc /\ task[b].seen = task'[b].seen
  BY <1>1 DEF InCatalog
<1> QED  BY <1>2, <1>3, <1>4, <1>5, StillListed

(* Who dies in a rewrite of the catalog leaves no promise about it.         *)
LEMMA AbortListed ==
    ASSUME TypeInv, Listings, NEW S \in SUBSET Writers, Abort(S),
           UNCHANGED <<json, catalog>>
    PROVE  Listings'
<1>1. CASE \E a \in S : At(a, "cat_write")
  <2>1. lost' = Projects
    BY <1>1 DEF Abort
  <2> QED  BY <2>1 DEF Listings
<1>2. CASE \A a \in S : ~At(a, "cat_write")
  <2>1. /\ lost' = lost /\ settled' = settled
        /\ \A a \in S : task'[a] = IdleTask
        /\ \A a \in Writers \ S : task'[a] = task[a]
    BY <1>2 DEF Abort
  <2>2. IdleTask.pc = "idle"
    BY DEF IdleTask
  <2>3. \A q \in Projects : Kept(q)' => Kept(q)
    BY <2>1, <2>2 DEF Kept, HasListed
  <2>4. \A a \in Writers : task'[a].pc = "cat_write" <=> task[a].pc = "cat_write"
    BY <1>2, <2>1, <2>2 DEF At
  <2>5. \A a \in Writers : task'[a].pc \in InCatalog => task[a] = task'[a]
    BY <2>1, <2>2 DEF InCatalog
  <2> QED  BY <2>1, <2>3, <2>4, <2>5, StillListed
<1> QED  BY <1>1, <1>2

(* Steps of a task away from the catalog.                                   *)
LEMMA FileStepsListed ==
    ASSUME TypeInv, Agreement, Listings, NEW a \in Writers,
           \/ ScanAndExtract(a) \/ TruncateJson(a) \/ WriteJson(a)
           \/ OpenIndex(a) \/ ResetIndex(a)
           \/ UnlinkJson(a) \/ RemoveStorageDir(a)
    PROVE  Listings'
<1>1. /\ task \in [Writers -> Task] /\ task[a] \in Task
      /\ settled \in [Projects -> BOOLEAN]
  BY DEF TypeInv, TypeOK
<1>2. /\ UNCHANGED <<catalog, settled, lost>>
      /\ task[a].pc \in {"scan", "truncate", "write", "open", "reset", "unlink",
                         "rmdir"}
  BY DEF ScanAndExtract, TruncateJson, WriteJson, OpenIndex, ResetIndex,
         UnlinkJson, RemoveStorageDir, store, history, At
<1>3. Busy(a) /\ task[a].project \in Projects
  BY <1>2 DEF Busy, TypeInv
<1>4. /\ \A b \in Writers \ {a} : task'[b] = task[b]
      /\ task'[a].project = task[a].project
      /\ task'[a].clean => task[a].clean
      /\ task'[a].pc \notin InCatalog
      /\ HasListed(task'[a]) => HasListed(task[a])
  <2>1. CASE \/ TruncateJson(a) \/ WriteJson(a)
             \/ UnlinkJson(a) /\ Goto(a, "rmdir")
             \/ RemoveStorageDir(a) /\ Goto(a, "cat_read")
    <3>1. PICK pc \in {"write", "cat_read", "rmdir"} : Goto(a, pc)
      BY <2>1 DEF TruncateJson, WriteJson
    <3>2. task' = [task EXCEPT ![a] = [task[a] EXCEPT !.pc = pc]]
      BY <3>1 DEF Goto
    <3> QED  BY <1>1, <3>2 DEF Task, InCatalog, HasListed
  <2>2. CASE \/ UnlinkJson(a) /\ GotoUnclean(a, "rmdir")
             \/ RemoveStorageDir(a) /\ GotoUnclean(a, "cat_read")
    <3>1. PICK pc \in {"cat_read", "rmdir"} : GotoUnclean(a, pc)
      BY <2>2
    <3>2. task' = [task EXCEPT ![a] = [task[a] EXCEPT !.pc = pc, !.clean = FALSE]]
      BY <3>1 DEF GotoUnclean
    <3> QED  BY <1>1, <3>2 DEF Task, InCatalog, HasListed
  <2>3. CASE ScanAndExtract(a)
    <3> DEFINE t == [task[a] EXCEPT !.pc = "truncate",
                                    !.chunks = disk[task[a].project]]
    <3>1. task' = [task EXCEPT ![a] = t]
      BY <2>3 DEF ScanAndExtract
    <3>2. t.pc = "truncate" /\ t.project = task[a].project /\ t.clean = task[a].clean
      BY <1>1 DEF Task
    <3> HIDE DEF t
    <3>3. task'[a] = t /\ \A b \in Writers \ {a} : task'[b] = task[b]
      BY <1>1, <3>1
    <3> QED  BY <3>2, <3>3 DEF InCatalog, HasListed
  <2>4. CASE OpenIndex(a) \/ ResetIndex(a)
    <3>1. PICK pc \in {"reset", "commit"} : \E view :
              task' = [task EXCEPT ![a] = [task[a] EXCEPT !.pc = pc, !.view = view]]
      <4>1. CASE OpenIndex(a)
        <5>1. task' = [task EXCEPT ![a] = [task[a] EXCEPT !.pc = "reset",
                                             !.view = lex[task[a].project].docs]]
          BY <4>1 DEF OpenIndex
        <5> QED  BY <5>1
      <4>2. CASE ResetIndex(a)
        <5>1. task' = [task EXCEPT ![a] = [task[a] EXCEPT !.pc = "commit", !.view = {}]]
          BY <4>2 DEF ResetIndex
        <5> QED  BY <5>1
      <4> QED  BY <2>4, <4>1, <4>2
    <3>2. PICK view :
              task' = [task EXCEPT ![a] = [task[a] EXCEPT !.pc = pc, !.view = view]]
      BY <3>1
    <3> DEFINE t == [task[a] EXCEPT !.pc = pc, !.view = view]
    <3>3. t.pc = pc /\ t.project = task[a].project /\ t.clean = task[a].clean
      BY <1>1 DEF Task
    <3>4. task' = [task EXCEPT ![a] = t]
      BY <3>2
    <3> HIDE DEF t
    <3>5. task'[a] = t /\ \A b \in Writers \ {a} : task'[b] = task[b]
      BY <1>1, <3>4
    <3>6. HasListed(task[a])
      BY <2>4 DEF OpenIndex, ResetIndex, At, HasListed
    <3> QED  BY <3>3, <3>5, <3>6 DEF InCatalog
  <2> QED  BY <2>1, <2>2, <2>3, <2>4 DEF UnlinkJson, RemoveStorageDir
<1>5. ASSUME NEW q \in Projects
      PROVE  \/ json'[q] = json[q]
             \/ q = task[a].project /\ ~HasListed(task[a])
  <2>1. CASE TruncateJson(a) \/ WriteJson(a) \/ UnlinkJson(a)
    <3>1. q # task[a].project => json'[q] = json[q]
      BY <2>1 DEF TruncateJson, WriteJson, UnlinkJson, TypeInv, TypeOK
    <3>2. ~HasListed(task[a])
      BY <2>1 DEF TruncateJson, WriteJson, UnlinkJson, At, HasListed
    <3> QED  BY <3>1, <3>2
  <2>2. CASE ~(TruncateJson(a) \/ WriteJson(a) \/ UnlinkJson(a))
    BY <2>2 DEF ScanAndExtract, OpenIndex, ResetIndex, RemoveStorageDir, store
  <2> QED  BY <2>1, <2>2
<1>6. task[a].pc # "cat_write"
  BY <1>2
<1> QED  BY <1>2, <1>3, <1>4, <1>5, <1>6, OwnStepListed

(* What is settled when a task ends, and was not before, is its project.    *)
LEMMA SucceedSettles ==
    ASSUME TypeInv, NEW a \in Writers, Succeed(a), NEW q \in Projects, settled'[q]
    PROVE  settled[q] \/ (q = task[a].project /\ task[a].clean)
<1>1. settled' = [settled EXCEPT ![task[a].project] = task[a].clean]
  BY DEF Succeed
<1>2. settled \in [Projects -> BOOLEAN]
  BY DEF TypeInv, TypeOK
<1>3. task[a].clean \in BOOLEAN
  BY DEF TypeInv, TypeOK, Task
<1>4. /\ \A r \in Projects \ {task[a].project} : settled'[r] = settled[r]
      /\ settled'[q] /\ q = task[a].project => task[a].clean
  BY <1>1, <1>2, <1>3
<1>5. CASE q = task[a].project
  BY <1>4, <1>5
<1>6. CASE q # task[a].project
  <2>1. settled'[q] = settled[q]
    BY <1>4, <1>6
  <2> QED  BY <2>1
<1> QED  BY <1>5, <1>6

LEMMA EndsListed ==
    ASSUME TypeInv, Agreement, Listings, NEW a \in Writers,
           CommitIndex(a) \/ Deselect(a)
    PROVE  Listings'
<1>1. /\ Succeed(a) /\ UNCHANGED <<json, catalog, lost>>
      /\ Busy(a) /\ task[a].project \in Projects
      /\ task[a].pc # "cat_write" /\ HasListed(task[a])
  BY DEF CommitIndex, Deselect, At, Busy, HasListed, TypeInv
<1>2. /\ task'[a] = IdleTask
      /\ \A b \in Writers \ {a} : task'[b] = task[b]
      /\ settled' = [settled EXCEPT ![task[a].project] = task[a].clean]
  BY <1>1 DEF Succeed, TypeInv, TypeOK
<1>3. \A q \in Projects : settled'[q] =>
            \/ settled[q]
            \/ q = task[a].project /\ task[a].clean /\ HasListed(task[a])
  BY <1>1, SucceedSettles
<1>4. task'[a].pc \notin InCatalog
  BY <1>2 DEF IdleTask, InCatalog
<1> QED  BY <1>1, <1>2, <1>3, <1>4, OwnStepListed

LEMMA ReadCatalogListed ==
    ASSUME TypeInv, Listings, NEW a \in Writers, ReadCatalog(a)
    PROVE  Listings'
<1> DEFINE t == [task[a] EXCEPT !.pc = "cat_truncate", !.seen = catalog.entries]
<1>1. /\ task[a].pc = "cat_read"
      /\ task' = [task EXCEPT ![a] = t]
      /\ UNCHANGED <<json, catalog, settled, lost>>
  BY DEF ReadCatalog, At, store, history
<1>2. /\ t.pc = "cat_truncate" /\ t.seen = catalog.entries
      /\ t.project = task[a].project /\ t.clean = task[a].clean
  BY DEF TypeInv, TypeOK, Task
<1> HIDE DEF t
<1>3. task'[a] = t /\ \A b \in Writers \ {a} : task'[b] = task[b]
  BY <1>1 DEF TypeInv, TypeOK
<1> SUFFICES ASSUME NEW p \in Projects, p \notin lost, Kept(p)'
             PROVE  CatalogKept(p)'
  BY <1>1 DEF Listings
<1>4. Kept(p)
  BY <1>1, <1>2, <1>3 DEF Kept, HasListed
<1>5. CatalogKept(p)
  BY <1>4 DEF Listings
<1>6. \A b \in Writers : At(b, "cat_write")' <=> At(b, "cat_write")
  BY <1>1, <1>2, <1>3 DEF At
<1>7. (\A b \in Writers : ~At(b, "cat_write")) => ListedRight(catalog.entries, p)'
  BY <1>1, <1>5 DEF CatalogKept, ListedRight, Loads
<1>8. ASSUME NEW b \in Writers, \A c \in Writers \ {b} : ~At(c, "cat_write")
      PROVE  /\ task'[b].pc \in InCatalog => ListedRight(task[b].seen, p)'
             /\ At(b, "cat_write")' => catalog'.state = "empty"
  <2>1. CASE b = a
    <3>1. \A c \in Writers : ~At(c, "cat_write")
      BY <1>1, <1>8, <2>1 DEF At
    <3>2. task'[b].seen = catalog.entries
      BY <1>2, <1>3, <2>1
    <3>3. ListedRight(task[b].seen, p)'
      BY <1>1, <1>7, <3>1, <3>2 DEF ListedRight, Loads
    <3> QED  BY <1>6, <3>1, <3>3
  <2>2. CASE b # a
    <3>1. task'[b] = task[b]
      BY <1>3, <2>2
    <3>2. /\ task[b].pc \in InCatalog => ListedRight(task[b].seen, p)
          /\ At(b, "cat_write") => catalog.state = "empty"
      BY <1>5, <1>8 DEF CatalogKept
    <3> QED  BY <1>1, <1>6, <3>1, <3>2 DEF ListedRight, Loads
  <2> QED  BY <2>1, <2>2
<1> QED  BY <1>1, <1>6, <1>7, <1>8 DEF CatalogKept

LEMMA TruncateCatalogListed ==
    ASSUME TypeInv, Listings, NEW a \in Writers, TruncateCatalog(a)
    PROVE  Listings'
<1> DEFINE t == [task[a] EXCEPT !.pc = "cat_write"]
<1>1. /\ task[a].pc = "cat_truncate"
      /\ task' = [task EXCEPT ![a] = t]
      /\ catalog'.state = "empty"
      /\ UNCHANGED <<json, settled, lost>>
  BY DEF TruncateCatalog, Goto, At, BrokenCatalog, history
<1>2. /\ t.pc = "cat_write" /\ t.seen = task[a].seen
      /\ t.project = task[a].project /\ t.clean = task[a].clean
  BY DEF TypeInv, TypeOK, Task
<1> HIDE DEF t
<1>3. task'[a] = t /\ \A b \in Writers \ {a} : task'[b] = task[b]
  BY <1>1 DEF TypeInv, TypeOK
<1> SUFFICES ASSUME NEW p \in Projects, p \notin lost, Kept(p)'
             PROVE  CatalogKept(p)'
  BY <1>1 DEF Listings
<1>4. Kept(p)
  BY <1>1, <1>2, <1>3 DEF Kept, HasListed
<1>5. CatalogKept(p)
  BY <1>4 DEF Listings
<1>6. At(a, "cat_write")'
  BY <1>2, <1>3 DEF At
<1>7. ASSUME \A b \in Writers \ {a} : ~At(b, "cat_write")'
      PROVE  ListedRight(task[a].seen, p)'
  <2>1. \A b \in Writers \ {a} : ~At(b, "cat_write")
    BY <1>3, <1>7 DEF At
  <2>2. ListedRight(task[a].seen, p)
    BY <1>1, <1>5, <2>1 DEF CatalogKept, InCatalog
  <2>3. task'[a].seen = task[a].seen
    BY <1>2, <1>3
  <2> QED  BY <1>1, <2>2, <2>3 DEF ListedRight, Loads
<1> QED  BY <1>1, <1>6, <1>7 DEF CatalogKept

(* The entry that is written, or dropped, is right when the task is clean.  *)
LEMMA EntryOfClean ==
    ASSUME TypeInv, Agreement, NEW a \in Writers, At(a, "cat_write"),
           task[a].clean
    PROVE  ListedRight(NewEntries(a), task[a].project)
<1> DEFINE p == task[a].project
<1>1. /\ Busy(a) /\ p \in Projects /\ task[a].pc = "cat_write"
      /\ Progress(task[a], json[p], lex[p].docs)
  BY BusyTask DEF At, Busy
<1>2. CASE task[a].kind \in Removals
  <2>1. ~Loads(p)
    BY <1>1, <1>2 DEF Progress, HasRemoved, CatalogSteps, Loads
  <2>2. p \notin DOMAIN NewEntries(a)
    BY <1>2 DEF NewEntries, Retain
  <2> QED  BY <2>1, <2>2 DEF ListedRight
<1>3. CASE task[a].kind \notin Removals
  <2>1. json[p] = WholeJson(task[a].chunks)
    BY <1>1, <1>3 DEF Progress, HasSaved, CatalogSteps
  <2>2. Loads(p) /\ json[p].chunks = task[a].chunks
    BY <2>1 DEF Loads, WholeJson
  <2>3. p \in DOMAIN NewEntries(a) /\ NewEntries(a)[p] = Count(task[a].chunks)
    BY <1>3 DEF NewEntries, Upsert
  <2> QED  BY <2>2, <2>3 DEF ListedRight
<1> QED  BY <1>2, <1>3

LEMMA OtherEntries ==
    ASSUME NEW a \in Writers, NEW p \in Projects, p # task[a].project,
           ListedRight(task[a].seen, p)
    PROVE  ListedRight(NewEntries(a), p)
BY DEF ListedRight, NewEntries, Retain, Upsert

LEMMA WriteCatalogListed ==
    ASSUME TypeInv, Agreement, Listings, NEW a \in Writers, WriteCatalog(a)
    PROVE  Listings'
<1> DEFINE p == task[a].project
<1>1. /\ At(a, "cat_write") /\ Busy(a) /\ p \in Projects /\ ~HasListed(task[a])
      /\ json' = json
      /\ task[a] \in Task
  BY DEF WriteCatalog, At, Busy, TypeInv, TypeOK, HasListed
<1>2. /\ \A b \in Writers \ {a} : task'[b] = task[b]
      /\ task'[a].pc \notin InCatalog
      /\ task'[a].clean => task[a].clean
      /\ \A q \in Projects : settled'[q] =>
            settled[q] \/ (q = p /\ task[a].clean)
      /\ task'[a] = IdleTask \/ task'[a].project = p
  <2>1. CASE Succeed(a)
    <3>1. /\ task'[a] = IdleTask
          /\ \A b \in Writers \ {a} : task'[b] = task[b]
      BY <2>1 DEF Succeed, TypeInv, TypeOK
    <3>2. \A q \in Projects : settled'[q] =>
            settled[q] \/ (q = p /\ task[a].clean)
      BY <2>1, SucceedSettles
    <3>3. IdleTask.pc \notin InCatalog /\ IdleTask.clean = FALSE
      BY DEF IdleTask, InCatalog
    <3> QED  BY <3>1, <3>2, <3>3
  <2>2. ASSUME NEW pc \in {"open", "deselect"}, EndSave(a, pc), UNCHANGED settled
        PROVE  /\ \A b \in Writers \ {a} : task'[b] = task[b]
               /\ task'[a].pc \notin InCatalog
               /\ task'[a].clean => task[a].clean
               /\ task'[a].project = p
               /\ \A q \in Projects : settled'[q] => settled[q]
    <3>1. PICK t : /\ task' = [task EXCEPT ![a] = t] /\ task'[a] = t
                   /\ t.pc = pc /\ t.kind = task[a].kind
                   /\ t.project = task[a].project /\ t.clean = task[a].clean
                   /\ t.chunks = task[a].chunks
      BY <2>2, GotoRecord
    <3>2. \A b \in Writers \ {a} : task'[b] = task[b]
      BY <3>1 DEF TypeInv, TypeOK
    <3> QED  BY <2>2, <3>1, <3>2 DEF InCatalog
  <2>3. CASE \E pc \in {"open", "deselect"} : EndSave(a, pc) /\ UNCHANGED settled
    BY <2>2, <2>3
  <2> QED  BY <2>1, <2>3 DEF WriteCatalog
<1> SUFFICES ASSUME NEW q \in Projects, q \notin lost', Kept(q)'
             PROVE  CatalogKept(q)'
  BY DEF Listings
<1>3. /\ catalog'.state = "whole" /\ lost' = lost \ {p}
      /\ \A b \in Writers \ {a} : task[b].pc \notin InCatalog
  BY DEF WriteCatalog
<1>4. catalog'.entries = NewEntries(a)
  <2>1. catalog' \in CatalogAfterWrite(catalog, NewEntries(a))
    BY DEF WriteCatalog
  <2> QED
    BY <1>3, <2>1 DEF CatalogAfterWrite, WholeCatalog, BrokenCatalog
<1>5. ListedRight(NewEntries(a), q)
  <2>1. CASE q = p
    <3>1. task[a].clean
      <4>1. ~Kept(p)
        BY <1>1, KeptUnbothered
      <4>2. CASE settled'[p]
        BY <1>1, <1>2, <4>1, <4>2 DEF Kept
      <4>3. ASSUME NEW b \in Writers, task'[b].project = p, task'[b].clean,
                   HasListed(task'[b])
            PROVE  task[a].clean
        <5>1. CASE b = a
          BY <1>2, <4>3, <5>1
        <5>2. CASE b # a
          BY <1>2, <4>1, <4>3, <5>2 DEF Kept
        <5> QED  BY <5>1, <5>2
      <4> QED  BY <2>1, <4>2, <4>3 DEF Kept
    <3> QED  BY <1>1, <2>1, <3>1, EntryOfClean
  <2>2. CASE q # p
    <3>1. Kept(q)
      <4>1. CASE settled'[q]
        BY <1>2, <2>2, <4>1 DEF Kept
      <4>2. ASSUME NEW b \in Writers, task'[b].project = q, task'[b].clean,
                   HasListed(task'[b])
            PROVE  Kept(q)
        <5>1. b # a
          BY <1>2, <2>2, <4>2, IdleTasks
        <5> QED  BY <1>2, <4>2, <5>1 DEF Kept
      <4> QED  BY <4>1, <4>2 DEF Kept
    <3>2. CatalogKept(q)
      BY <1>3, <2>2, <3>1 DEF Listings
    <3>3. \A b \in Writers \ {a} : ~At(b, "cat_write")
      BY <1>3 DEF At, InCatalog
    <3>4. ListedRight(task[a].seen, q)
      BY <1>1, <3>2, <3>3 DEF CatalogKept, At, InCatalog
    <3> QED  BY <2>2, <3>4, OtherEntries
  <2> QED  BY <2>1, <2>2
<1>6. ListedRight(catalog.entries, q)'
  BY <1>1, <1>4, <1>5 DEF ListedRight, Loads
<1>7. \A b \in Writers : task'[b].pc \notin InCatalog
  BY <1>2, <1>3
<1> QED  BY <1>6, <1>7 DEF CatalogKept, At, InCatalog

LEMMA AdvanceListed ==
    ASSUME TypeInv, Agreement, Listings, NEW a \in Writers, Advance(a)
    PROVE  Listings'
<1>1. CASE OpenIndexFails(a) \/ IndexDirGone(a)
  <2>1. Abort({a}) /\ {a} \in SUBSET Writers /\ UNCHANGED <<json, catalog>>
    BY <1>1 DEF OpenIndexFails, IndexDirGone, store
  <2> QED  BY <2>1, AbortListed
<1> QED
  BY <1>1, FileStepsListed, EndsListed, ReadCatalogListed,
     TruncateCatalogListed, WriteCatalogListed DEF Advance

LEMMA OtherStepsListed ==
    ASSUME TypeInv, Agreement, Listings,
           \/ \E a \in Indexers, p \in Projects : Command(a, p)
           \/ \E p \in Projects, f \in Files, v \in Content : EditFile(p, f, v)
           \/ \E w \in Watchers, f \in Files : UpdateFile(w, f)
           \/ \E s \in Searchers, p \in Projects, f \in Files :
                    SearchLoad(s, p, f)
           \/ \E s \in Searchers : SearchStep(s)
           \/ \E a \in Writers : TaskFails(a)
           \/ ServerCrash
           \/ ServerStart
           \/ UNCHANGED vars
    PROVE  Listings'
<1>1. CASE UNCHANGED <<json, catalog, task, settled, lost>>
  BY <1>1, StillListed DEF Kept
<1>2. ASSUME NEW a \in Indexers, NEW p \in Projects, Command(a, p)
      PROVE  Listings'
  <2>1. a \in Writers
    BY DEF Writers
  <2>2. CASE Loads(p) /\ AddRepo(a, p)
    BY <1>1, <2>2 DEF AddRepo
  <2>3. CASE ~(Loads(p) /\ AddRepo(a, p))
    <3>1. /\ ~Busy(a) /\ UNCHANGED <<json, catalog>>
          /\ \/ Begin(a, "index", p, "scan", NoChunks)
             \/ Begin(a, "add", p, "truncate", NoChunks)
             \/ Begin(a, "remove", p, "unlink", NoChunks)
             \/ Begin(a, "clear", p, "unlink", NoChunks)
      BY <1>2, <2>3
      DEF Command, IndexNow, AddRepo, RemoveRepo, ClearIndex, store
    <3> QED  BY <2>1, <3>1, BeginListed
  <2> QED  BY <2>2, <2>3
<1>3. ASSUME NEW w \in Watchers, NEW f \in Files, UpdateFile(w, f)
      PROVE  Listings'
  <2>1. w \in Writers /\ Watches[w] \in Projects
    BY StoreAssumption DEF Writers
  <2>2. CASE Loads(Watches[w])
    <3>1. /\ ~Busy(w) /\ UNCHANGED <<json, catalog>>
          /\ \E chunks : Begin(w, "watch", Watches[w], "truncate", chunks)
      BY <1>3, <2>2 DEF UpdateFile, store
    <3> QED  BY <2>1, <3>1, BeginListed
  <2>3. CASE ~Loads(Watches[w])
    BY <1>1, <1>3, <2>3 DEF UpdateFile, store, history
  <2> QED  BY <2>2, <2>3
<1>4. ASSUME NEW a \in Writers, TaskFails(a)
      PROVE  Listings'
  <2>1. /\ {a} \in SUBSET Writers /\ Abort({a}) /\ UNCHANGED <<json, catalog>>
    BY <1>4 DEF TaskFails
  <2> QED  BY <2>1, AbortListed
<1>5. CASE ServerCrash
  <2>1. /\ Watchers \in SUBSET Writers /\ Abort(Watchers)
        /\ UNCHANGED <<json, catalog>>
    BY <1>5 DEF ServerCrash, Writers
  <2> QED  BY <2>1, AbortListed
<1>6. CASE \/ \E p \in Projects, f \in Files, v \in Content : EditFile(p, f, v)
           \/ \E s \in Searchers, p \in Projects, f \in Files :
                    SearchLoad(s, p, f)
           \/ \E s \in Searchers : SearchStep(s)
           \/ ServerStart
           \/ UNCHANGED vars
  BY <1>1, <1>6
  DEF EditFile, SearchLoad, SearchStep, SearchCheck, SearchOpen,
      SearchInMemory, SearchClose, ServerStart, vars, store, history
<1> QED  BY <1>2, <1>3, <1>4, <1>5, <1>6

LEMMA ListingsStep ==
    TypeInv /\ Agreement /\ Listings /\ [Next]_vars => Listings'
BY AdvanceListed, OtherStepsListed DEF Next

(* The catalog lists the stored indexes as they are, for any projects and   *)
(* processes: of what the searches, tasks, failing deletions and crashes of *)
(* the runs may do, only two tasks in the catalog at a time and a death in  *)
(* its write take an entry from it.                                         *)
THEOREM CatalogListsIndexes == Spec => []CatalogMatchesIndexes
<1>1. Init => Listings
  BY ListingsInit
<1>2. StoreInv /\ Agreement /\ Listings /\ [Next]_vars => Listings'
  BY ListingsStep DEF StoreInv
<1>3. Listings => CatalogMatchesIndexes
  BY DEF Listings, Kept, CatalogKept, CatalogMatchesIndexes
<1> QED  BY <1>1, <1>2, <1>3, StoreInvariant, AgreementInvariant, PTL DEF Spec

-----------------------------------------------------------------------------
(* Removals.  After a clean removal only other removals work on the project *)
(* until somebody adds or indexes it again: an update of a watcher would    *)
(* have to load the index that is gone.                                     *)

Removed ==
    \A p \in Projects : removal[p] = "clean" =>
        /\ ~Loads(p) /\ lex[p].docs = {}
        /\ \A a \in Writers : task[a].project = p => task[a].kind \in Removals

LEMMA RemovedInit == Init => Removed
<1> SUFFICES ASSUME Init, NEW p \in Projects, removal[p] = "clean"
             PROVE  /\ ~Loads(p) /\ lex[p].docs = {}
                    /\ \A a \in Writers : task[a].project # p
  BY DEF Removed
<1>1. p \notin Indexed
  BY DEF Init
<1>2. json[p] = BrokenJson("missing") /\ lex[p] = NoDir
  BY <1>1 DEF Init
<1> QED
  BY <1>2, StoreAssumption
  DEF Init, Loads, BrokenJson, NoDir, DirWithout, IdleTask

(* Nothing comes back into a removed project, and nobody begins there who   *)
(* could bring it.                                                          *)
LEMMA RemovalKept ==
    ASSUME Removed,
           \A p \in Projects : removal'[p] = "clean" =>
                /\ removal[p] = "clean"
                /\ ~Loads(p) => json'[p].state # "whole"
                /\ lex[p].docs = {} => lex'[p].docs = {},
           \A a \in Writers : task'[a].project \in Projects =>
                \/ task'[a].project = task[a].project /\ task'[a].kind = task[a].kind
                \/ task'[a].kind \in Removals
                \/ removal'[task'[a].project] # "clean"
    PROVE  Removed'
BY DEF Removed, Loads

(* A task at work changes the stores of its own project only.               *)
LEMMA OwnStepRemoves ==
    ASSUME TypeInv, Removed, NEW a \in Writers,
           NEW p \in Projects, task[a].project = p,
           \A b \in Writers \ {a} : task'[b] = task[b],
           task'[a] = IdleTask \/ /\ task'[a].project = p
                                  /\ task'[a].kind = task[a].kind,
           removal' = removal,
           \A q \in Projects \ {p} : json'[q] = json[q] /\ lex'[q] = lex[q],
           task[a].kind \in Removals =>
                /\ ~Loads(p) => json'[p].state # "whole"
                /\ lex[p].docs = {} => lex'[p].docs = {}
    PROVE  Removed'
<1>1. IdleTask.project \notin Projects
  BY StoreAssumption DEF IdleTask
<1>2. ASSUME NEW q \in Projects, removal[q] = "clean"
      PROVE  /\ ~Loads(q) => json'[q].state # "whole"
             /\ lex[q].docs = {} => lex'[q].docs = {}
  <2>1. q = p => task[a].kind \in Removals
    BY <1>2 DEF Removed
  <2> QED  BY <2>1 DEF Loads
<1> QED  BY <1>1, <1>2, RemovalKept

LEMMA BeginRemoves ==
    ASSUME TypeInv, Removed, NEW a \in Writers, NEW kind, NEW p \in Projects,
           NEW pc, NEW chunks, Begin(a, kind, p, pc, chunks),
           kind \in {"index", "add"} \union Removals \/ Loads(p),
           UNCHANGED <<json, lex>>
    PROVE  Removed'
<1>1. /\ task'[a].kind = kind /\ task'[a].project = p
      /\ \A b \in Writers \ {a} :
            task'[b].project = task[b].project /\ task'[b].kind = task[b].kind
  BY DEF Begin, IdleTask, TypeInv, TypeOK, Task
<1>2. /\ \A q \in Projects : removal'[q] = "clean" => removal[q] = "clean"
      /\ kind \in {"index", "add"} => removal'[p] # "clean"
  BY DEF Begin, TypeInv, TypeOK
<1>3. Loads(p) => removal'[p] # "clean"
  BY <1>2 DEF Removed
<1> QED  BY <1>1, <1>2, <1>3, RemovalKept DEF Loads

LEMMA AbortRemoves ==
    ASSUME TypeInv, Removed, NEW S \in SUBSET Writers, Abort(S),
           UNCHANGED json, DirsStay
    PROVE  Removed'
<1>1. /\ removal' = removal
      /\ \A a \in Writers : task'[a] \in {task[a], IdleTask}
  BY DEF Abort
<1>2. IdleTask.project \notin Projects
  BY StoreAssumption DEF IdleTask
<1>3. \A p \in Projects : lex'[p].docs = lex[p].docs
  BY DEF DirsStay
<1> QED  BY <1>1, <1>2, <1>3, RemovalKept DEF Loads

(* The end of a task.  What a clean removal leaves is read off its step.    *)
LEMMA SucceedRemoves ==
    ASSUME TypeInv, Agreement, Removed, NEW a \in Writers, Succeed(a), Busy(a),
           NEW p \in Projects, task[a].project = p,
           \A q \in Projects \ {p} : json'[q] = json[q] /\ lex'[q] = lex[q],
           task[a].kind \in Removals =>
                json' = json /\ lex' = lex /\ HasRemoved(task[a])
    PROVE  Removed'
<1>1. /\ task'[a] = IdleTask
      /\ \A b \in Writers \ {a} : task'[b] = task[b]
  BY DEF Succeed, TypeInv, TypeOK
<1>2. IdleTask.project \notin Projects
  BY StoreAssumption DEF IdleTask
<1>3. CASE task[a].kind \in Removals /\ task[a].clean
  <2>1. /\ ~Loads(p) /\ lex[p].docs = {}
        /\ \A b \in Writers \ {a} : task[b].project # p
    BY <1>3 DEF Agreement, CleanTasks, Progress, Loads
  <2> SUFFICES ASSUME NEW q \in Projects, removal'[q] = "clean"
               PROVE  /\ ~Loads(q)' /\ lex'[q].docs = {}
                      /\ \A b \in Writers : task'[b].project = q =>
                                                task'[b].kind \in Removals
    BY DEF Removed
  <2>2. CASE q = p
    BY <1>1, <1>2, <1>3, <2>1, <2>2 DEF Loads
  <2>3. CASE q # p
    <3>1. removal[q] = "clean"
      BY <2>3 DEF Succeed, TypeInv, TypeOK
    <3> QED  BY <1>1, <1>2, <1>3, <3>1 DEF Removed, Loads
  <2> QED  BY <2>2, <2>3
<1>4. CASE ~(task[a].kind \in Removals /\ task[a].clean)
  <2>1. \A q \in Projects : removal'[q] = "clean" => removal[q] = "clean"
    BY <1>4 DEF Succeed, TypeInv, TypeOK
  <2>2. ASSUME NEW q \in Projects, removal[q] = "clean"
        PROVE  json'[q] = json[q] /\ lex'[q] = lex[q]
    <3>1. q = p => task[a].kind \in Removals
      BY <2>2 DEF Removed
    <3> QED  BY <3>1
  <2> QED  BY <1>1, <1>2, <2>1, <2>2, RemovalKept DEF Loads
<1> QED  BY <1>3, <1>4

(* Whatever step a task takes, it is of the same kind and project after it. *)
LEMMA KindStays ==
    ASSUME TypeInv, NEW a \in Writers,
           \/ \E pc : Goto(a, pc) \/ GotoUnclean(a, pc) \/ EndSave(a, pc)
           \/ ScanAndExtract(a) \/ ReadCatalog(a) \/ OpenIndex(a) \/ ResetIndex(a)
    PROVE  /\ \A b \in Writers \ {a} : task'[b] = task[b]
           /\ task'[a].project = task[a].project
           /\ task'[a].kind = task[a].kind
<1>1. task \in [Writers -> Task] /\ task[a] \in Task
  BY DEF TypeInv, TypeOK
<1>2. ASSUME NEW t, task' = [task EXCEPT ![a] = t],
             t.project = task[a].project, t.kind = task[a].kind
      PROVE  /\ \A b \in Writers \ {a} : task'[b] = task[b]
             /\ task'[a].project = task[a].project
             /\ task'[a].kind = task[a].kind
  BY <1>1, <1>2
<1>3. ASSUME NEW pc, Goto(a, pc)
      PROVE  \E t : /\ task' = [task EXCEPT ![a] = t]
                    /\ t.project = task[a].project /\ t.kind = task[a].kind
  <2> DEFINE t == [task[a] EXCEPT !.pc = pc]
  <2>1. task' = [task EXCEPT ![a] = t]
    BY <1>3 DEF Goto
  <2>2. t.project = task[a].project /\ t.kind = task[a].kind
    BY <1>1 DEF Task
  <2> HIDE DEF t
  <2> QED  BY <2>1, <2>2
<1>4. ASSUME NEW pc, GotoUnclean(a, pc)
      PROVE  \E t : /\ task' = [task EXCEPT ![a] = t]
                    /\ t.project = task[a].project /\ t.kind = task[a].kind
  <2> DEFINE t == [task[a] EXCEPT !.pc = pc, !.clean = FALSE]
  <2>1. task' = [task EXCEPT ![a] = t]
    BY <1>4 DEF GotoUnclean
  <2>2. t.project = task[a].project /\ t.kind = task[a].kind
    BY <1>1 DEF Task
  <2> HIDE DEF t
  <2> QED  BY <2>1, <2>2
<1>5. ASSUME NEW pc, EndSave(a, pc)
      PROVE  \E t : /\ task' = [task EXCEPT ![a] = t]
                    /\ t.project = task[a].project /\ t.kind = task[a].kind
  <2> DEFINE t == [task[a] EXCEPT !.pc = pc, !.seen = NoEntries]
  <2>1. task' = [task EXCEPT ![a] = t]
    BY <1>5 DEF EndSave
  <2>2. t.project = task[a].project /\ t.kind = task[a].kind
    BY <1>1 DEF Task
  <2> HIDE DEF t
  <2> QED  BY <2>1, <2>2
<1>6. ASSUME ScanAndExtract(a)
      PROVE  \E t : /\ task' = [task EXCEPT ![a] = t]
                    /\ t.project = task[a].project /\ t.kind = task[a].kind
  <2> DEFINE t == [task[a] EXCEPT !.pc = "truncate",
                                  !.chunks = disk[task[a].project]]
  <2>1. task' = [task EXCEPT ![a] = t]
    BY <1>6 DEF ScanAndExtract
  <2>2. t.project = task[a].project /\ t.kind = task[a].kind
    BY <1>1 DEF Task
  <2> HIDE DEF t
  <2> QED  BY <2>1, <2>2
<1>7. ASSUME ReadCatalog(a)
      PROVE  \E t : /\ task' = [task EXCEPT ![a] = t]
                    /\ t.project = task[a].project /\ t.kind = task[a].kind
  <2> DEFINE t == [task[a] EXCEPT !.pc = "cat_truncate", !.seen = catalog.entries]
  <2>1. task' = [task EXCEPT ![a] = t]
    BY <1>7 DEF ReadCatalog
  <2>2. t.project = task[a].project /\ t.kind = task[a].kind
    BY <1>1 DEF Task
  <2> HIDE DEF t
  <2> QED  BY <2>1, <2>2
<1>8. ASSUME OpenIndex(a)
      PROVE  \E t : /\ task' = [task EXCEPT ![a] = t]
                    /\ t.project = task[a].project /\ t.kind = task[a].kind
  <2> DEFINE t == [task[a] EXCEPT !.pc = "reset", !.view = lex[task[a].project].docs]
  <2>1. task' = [task EXCEPT ![a] = t]
    BY <1>8 DEF OpenIndex
  <2>2. t.project = task[a].project /\ t.kind = task[a].kind
    BY <1>1 DEF Task
  <2> HIDE DEF t
  <2> QED  BY <2>1, <2>2
<1>9. ASSUME ResetIndex(a)
      PROVE  \E t : /\ task' = [task EXCEPT ![a] = t]
                    /\ t.project = task[a].project /\ t.kind = task[a].kind
  <2> DEFINE t == [task[a] EXCEPT !.pc = "commit", !.view = {}]
  <2>1. task' = [task EXCEPT ![a] = t]
    BY <1>9 DEF ResetIndex
  <2>2. t.project = task[a].project /\ t.kind = task[a].kind
    BY <1>1 DEF Task
  <2> HIDE DEF t
  <2> QED  BY <2>1, <2>2
<1> QED  BY <1>2, <1>3, <1>4, <1>5, <1>6, <1>7, <1>8, <1>9

LEMMA GoingOnRemoves ==
    ASSUME TypeInv, Agreement, Removed, NEW a \in Writers,
           \/ ScanAndExtract(a) \/ TruncateJson(a) \/ WriteJson(a)
           \/ ReadCatalog(a) \/ TruncateCatalog(a)
           \/ OpenIndex(a) \/ ResetIndex(a)
           \/ UnlinkJson(a) \/ RemoveStorageDir(a)
    PROVE  Removed'
<1>1. Busy(a)
  BY DEF ScanAndExtract, TruncateJson, WriteJson, ReadCatalog, TruncateCatalog,
         OpenIndex, ResetIndex, UnlinkJson, RemoveStorageDir, At, Busy
<1> PICK p \in Projects : task[a].project = p
  BY <1>1, BusyTask
<1>2. TaskFits(task[a])
  BY <1>1, BusyTask
<1>3. /\ \A b \in Writers \ {a} : task'[b] = task[b]
      /\ task'[a].project = p
      /\ task'[a].kind = task[a].kind
  BY KindStays
  DEF TruncateJson, WriteJson, TruncateCatalog, UnlinkJson, RemoveStorageDir
<1>4. removal' = removal
  BY DEF ScanAndExtract, TruncateJson, WriteJson, ReadCatalog, TruncateCatalog,
         OpenIndex, ResetIndex, UnlinkJson, RemoveStorageDir, history
<1>5. \A q \in Projects \ {p} : json'[q] = json[q] /\ lex'[q] = lex[q]
  BY DEF ScanAndExtract, TruncateJson, WriteJson, ReadCatalog, TruncateCatalog,
         OpenIndex, ResetIndex, UnlinkJson, RemoveStorageDir, store, TypeInv, TypeOK
<1>6. ASSUME task[a].kind \in Removals
      PROVE  /\ ~Loads(p) => json'[p].state # "whole"
             /\ lex[p].docs = {} => lex'[p].docs = {}
  <2>1. CASE ReadCatalog(a) \/ TruncateCatalog(a)
    BY <2>1 DEF ReadCatalog, TruncateCatalog, store, Loads
  <2>2. CASE UnlinkJson(a)
    <3>1. lex' = lex /\ json'[p].state \in {"missing", json[p].state}
      BY <2>2 DEF UnlinkJson, BrokenJson, TypeInv, TypeOK
    <3> QED  BY <3>1 DEF Loads
  <2>3. CASE RemoveStorageDir(a)
    <3>1. json' = json /\ lex'[p] \in Leftovers(lex[p]) \union {NoDir}
      BY <2>3 DEF RemoveStorageDir, TypeInv, TypeOK
    <3> QED  BY <3>1 DEF Loads, Leftovers, NoDir, DirWithout
  <2>4. CASE \/ ScanAndExtract(a) \/ TruncateJson(a) \/ WriteJson(a)
             \/ OpenIndex(a) \/ ResetIndex(a)
    BY <1>2, <1>6, <2>4
    DEF TaskFits, ScanAndExtract, TruncateJson, WriteJson, OpenIndex, ResetIndex,
        At, Removals
  <2> QED  BY <2>1, <2>2, <2>3, <2>4
<1> QED  BY <1>3, <1>4, <1>5, <1>6, OwnStepRemoves

LEMMA EndsRemove ==
    ASSUME TypeInv, Agreement, Removed, NEW a \in Writers,
           WriteCatalog(a) \/ CommitIndex(a) \/ Deselect(a)
    PROVE  Removed'
<1>1. Busy(a)
  BY DEF WriteCatalog, CommitIndex, Deselect, At, Busy
<1> PICK p \in Projects : task[a].project = p
  BY <1>1, BusyTask
<1>2. TaskFits(task[a])
  BY <1>1, BusyTask
<1>3. \A q \in Projects \ {p} : json'[q] = json[q] /\ lex'[q] = lex[q]
  BY DEF WriteCatalog, CommitIndex, Deselect, TypeInv, TypeOK
<1>4. CASE Succeed(a)
  <2>1. task[a].kind \in Removals => json' = json /\ lex' = lex /\ HasRemoved(task[a])
    BY <1>2
    DEF WriteCatalog, CommitIndex, Deselect, TaskFits, HasRemoved, Removals,
        CatalogSteps, At
  <2> QED  BY <1>1, <1>3, <1>4, <2>1, SucceedRemoves
<1>5. CASE WriteCatalog(a) /\ ~Succeed(a)
  <2>1. PICK pc : EndSave(a, pc)
    BY <1>5 DEF WriteCatalog
  <2>2. json' = json /\ lex' = lex /\ removal' = removal
    BY <1>5 DEF WriteCatalog
  <2>3. /\ \A b \in Writers \ {a} : task'[b] = task[b]
        /\ task'[a].project = p /\ task'[a].kind = task[a].kind
    BY <2>1, KindStays
  <2> QED  BY <2>2, <2>3, OwnStepRemoves DEF Loads
<1> QED  BY <1>4, <1>5 DEF CommitIndex, Deselect

LEMMA AdvanceRemoves ==
    ASSUME TypeInv, Agreement, Removed, NEW a \in Writers, Advance(a)
    PROVE  Removed'
<1>1. CASE OpenIndexFails(a) \/ IndexDirGone(a)
  <2>1. task[a].project \in Projects
    BY <1>1 DEF OpenIndexFails, IndexDirGone, At, TypeInv, Busy
  <2>2. Abort({a}) /\ {a} \in SUBSET Writers /\ UNCHANGED json /\ DirsStay
    BY <1>1, <2>1, OpenedDirsStay, UnchangedDirsStay
    DEF OpenIndexFails, IndexDirGone, store
  <2> QED  BY <2>2, AbortRemoves
<1> QED  BY <1>1, GoingOnRemoves, EndsRemove DEF Advance

LEMMA OtherStepsRemove ==
    ASSUME TypeInv, Removed,
           \/ \E a \in Indexers, p \in Projects : Command(a, p)
           \/ \E p \in Projects, f \in Files, v \in Content : EditFile(p, f, v)
           \/ \E w \in Watchers, f \in Files : UpdateFile(w, f)
           \/ \E s \in Searchers, p \in Projects, f \in Files :
                    SearchLoad(s, p, f)
           \/ \E s \in Searchers : SearchStep(s)
           \/ \E a \in Writers : TaskFails(a)
           \/ ServerCrash
           \/ ServerStart
           \/ UNCHANGED vars
    PROVE  Removed'
<1>1. CASE UNCHANGED <<json, task, removal>> /\ DirsStay
  BY <1>1, RemovalKept DEF DirsStay, Loads
<1>2. ASSUME NEW a \in Indexers, NEW p \in Projects, Command(a, p)
      PROVE  Removed'
  <2>1. a \in Writers
    BY DEF Writers
  <2>2. CASE Loads(p) /\ AddRepo(a, p)
    <3>1. /\ UNCHANGED <<json, lex, task>>
          /\ removal' = [removal EXCEPT ![p] = "none"]
      BY <2>2 DEF AddRepo
    <3>2. \A q \in Projects : removal'[q] = "clean" => removal[q] = "clean"
      BY <3>1 DEF TypeInv, TypeOK
    <3> QED  BY <3>1, <3>2, RemovalKept DEF Loads
  <2>3. CASE ~(Loads(p) /\ AddRepo(a, p))
    <3>1. /\ UNCHANGED <<json, lex>>
          /\ \/ Begin(a, "index", p, "scan", NoChunks)
             \/ Begin(a, "add", p, "truncate", NoChunks)
             \/ Begin(a, "remove", p, "unlink", NoChunks)
             \/ Begin(a, "clear", p, "unlink", NoChunks)
      BY <1>2, <2>3
      DEF Command, IndexNow, AddRepo, RemoveRepo, ClearIndex, store
    <3> QED  BY <2>1, <3>1, BeginRemoves DEF Removals
  <2> QED  BY <2>2, <2>3
<1>3. ASSUME NEW w \in Watchers, NEW f \in Files, UpdateFile(w, f)
      PROVE  Removed'
  <2>1. w \in Writers /\ Watches[w] \in Projects
    BY StoreAssumption DEF Writers
  <2>2. CASE Loads(Watches[w])
    <3>1. /\ UNCHANGED <<json, lex>>
          /\ \E chunks : Begin(w, "watch", Watches[w], "truncate", chunks)
      BY <1>3, <2>2 DEF UpdateFile, store
    <3> QED  BY <2>1, <2>2, <3>1, BeginRemoves
  <2>3. CASE ~Loads(Watches[w])
    BY <1>1, <1>3, <2>3, UnchangedDirsStay DEF UpdateFile, store, history
  <2> QED  BY <2>2, <2>3
<1>4. ASSUME NEW a \in Writers, TaskFails(a)
      PROVE  Removed'
  <2>1. {a} \in SUBSET Writers /\ Abort({a}) /\ UNCHANGED json /\ DirsStay
    BY <1>4, UnchangedDirsStay DEF TaskFails
  <2> QED  BY <2>1, AbortRemoves
<1>5. CASE ServerCrash
  <2>1. Watchers \in SUBSET Writers /\ Abort(Watchers) /\ UNCHANGED json /\ DirsStay
    BY <1>5, UnchangedDirsStay DEF ServerCrash, Writers
  <2> QED  BY <2>1, AbortRemoves
<1>6. CASE \/ \E p \in Projects, f \in Files, v \in Content : EditFile(p, f, v)
           \/ \E s \in Searchers, p \in Projects, f \in Files :
                    SearchLoad(s, p, f)
           \/ \E s \in Searchers : SearchStep(s)
           \/ ServerStart
           \/ UNCHANGED vars
  <2>1. UNCHANGED <<json, task, removal>>
    BY <1>6
    DEF EditFile, SearchLoad, SearchStep, SearchCheck, SearchOpen,
        SearchInMemory, SearchClose, ServerStart, vars, store, history
  <2>2. DirsStay
    BY <1>6, SearchDirsStay, UnchangedDirsStay
    DEF EditFile, SearchLoad, ServerStart, vars, store
  <2> QED  BY <1>1, <2>1, <2>2
<1> QED  BY <1>2, <1>3, <1>4, <1>5, <1>6

(* What a clean removal took stays gone, for any projects, files, processes *)
(* and faults, until somebody adds or indexes the project again.            *)
THEOREM RemovalsLast == Spec => []UndisturbedRemovalLasts
<1>1. Init => Removed
  BY RemovedInit
<1>2. StoreInv /\ Agreement /\ Removed /\ [Next]_vars => Removed'
  BY AdvanceRemoves, OtherStepsRemove DEF Next, StoreInv
<1>3. Removed => UndisturbedRemovalLasts
  BY DEF Removed, UndisturbedRemovalLasts
<1> QED  BY <1>1, <1>2, <1>3, StoreInvariant, AgreementInvariant, PTL DEF Spec

-----------------------------------------------------------------------------
(* The lexical index as searches know it *)

Whole(p) == lex[p].state = "whole"

(* A task that may write the lexical index of p, and one that lost it.      *)
Works(b, p) == task[b].project = p /\ task[b].pc \in Locking
Contests(b, p) == Works(b, p) /\ (writer[p] # b \/ ~Whole(p))

ReadersOf(p) == {s \in Searchers : search[s].pc = "reading" /\ search[s].project = p}

(* What a contested index is, and who has an index, in other words.         *)
LEMMA ContestedIs ==
    ASSUME NEW p \in Projects
    PROVE  /\ Contested(p) <=> \E b \in Writers : Contests(b, p)
           /\ Contested(p) \in BOOLEAN
  BY DEF Contested, Contests, Works, Whole, Locking

LEMMA ContestedThen ==
    ASSUME NEW p \in Projects
    PROVE  /\ Contested(p)' <=> \E b \in Writers : Contests(b, p)'
           /\ Contested(p)' \in BOOLEAN
  BY DEF Contested, Contests, Works, Whole, Locking

LEMMA SameContest ==
    ASSUME NEW p \in Projects, \A b \in Writers : Contests(b, p)' <=> Contests(b, p)
    PROVE  Contested(p)' = Contested(p)
<1>1. Contested(p)' <=> Contested(p)
  BY ContestedIs, ContestedThen
<1> QED  BY <1>1, ContestedIs, ContestedThen

LEMMA StateIs ==
    ASSUME NEW p \in Projects
    PROVE  /\ ~Whole(p) => IndexState(p) = "absent"
           /\ Whole(p) /\ writer[p] \in Searchers => IndexState(p) = "read"
           /\ Whole(p) /\ writer[p] \notin Searchers /\ RebuiltBy(p) # {} =>
                IndexState(p) = "rebuilding"
           /\ Whole(p) /\ writer[p] \notin Searchers /\ RebuiltBy(p) = {} =>
                IndexState(p) = "whole"
BY DEF IndexState, Whole

LEMMA StateThen ==
    ASSUME NEW p \in Projects
    PROVE  /\ ~Whole(p)' => IndexState(p)' = "absent"
           /\ Whole(p)' /\ writer'[p] \in Searchers => IndexState(p)' = "read"
           /\ Whole(p)' /\ writer'[p] \notin Searchers /\ RebuiltBy(p)' # {} =>
                IndexState(p)' = "rebuilding"
           /\ Whole(p)' /\ writer'[p] \notin Searchers /\ RebuiltBy(p)' = {} =>
                IndexState(p)' = "whole"
BY DEF IndexState, Whole

(* What a step leaves alone it does not show.                               *)
LEMMA NothingShown ==
    ASSUME NEW p \in Projects, lex'[p] = lex[p], writer'[p] = writer[p],
           ReadersOf(p)' = ReadersOf(p),
           \A b \in Writers :
               \/ task'[b].pc = task[b].pc /\ task'[b].project = task[b].project
               \/ writer[p] # b /\ ~Works(b, p) /\ ~Works(b, p)'
    PROVE  UNCHANGED Shown(p)!vars
<1>1. RebuiltBy(p)' = RebuiltBy(p)
  BY DEF RebuiltBy, At
<1>2. IndexState(p)' = IndexState(p)
  BY <1>1 DEF IndexState
<1>3. Contested(p)' = Contested(p)
  <2>1. \A b \in Writers : Contests(b, p)' <=> Contests(b, p)
    BY DEF Contests, Works, Whole
  <2> QED  BY <2>1, SameContest
<1> QED  BY <1>2, <1>3 DEF Shown!vars, ReadersOf

(* A task other than a is as before.                                        *)
OthersStay(a) ==
    \A b \in Writers : b # a =>
        task'[b].pc = task[b].pc /\ task'[b].project = task[b].project

(* Neither does a task show that is away from the lexical index.            *)
LEMMA TaskAwayShowsNothing ==
    ASSUME TypeInv, LockInv, NEW p \in Projects, NEW a \in Writers,
           UNCHANGED <<lex, writer, search>>, OthersStay(a),
           task[a].pc \notin Locking, task'[a].pc \notin Locking
    PROVE  UNCHANGED Shown(p)!vars
<1>1. ReadersOf(p)' = ReadersOf(p)
  BY DEF ReadersOf
<1>2. writer[p] # a
  BY LockHolders
<1>3. \A b \in Writers :
        \/ task'[b].pc = task[b].pc /\ task'[b].project = task[b].project
        \/ writer[p] # b /\ ~Works(b, p) /\ ~Works(b, p)'
  BY <1>2 DEF OthersStay, Works
<1> QED  BY <1>1, <1>3, NothingShown

(* What a project shows is about its own tasks and searches.                *)
LEMMA OtherProjectShowsNothing ==
    ASSUME TypeInv, LockInv, NEW p \in Projects, NEW a \in Writers,
           lex'[p] = lex[p], writer'[p] = writer[p], UNCHANGED search,
           OthersStay(a), task[a].project # p, task'[a].project # p
    PROVE  UNCHANGED Shown(p)!vars
<1>1. ReadersOf(p)' = ReadersOf(p)
  BY DEF ReadersOf
<1>2. writer[p] # a
  BY LockHolders
<1>3. \A b \in Writers :
        \/ task'[b].pc = task[b].pc /\ task'[b].project = task[b].project
        \/ writer[p] # b /\ ~Works(b, p) /\ ~Works(b, p)'
  BY <1>2 DEF OthersStay, Works
<1> QED  BY <1>1, <1>3, NothingShown

LEMMA CommandShown ==
    ASSUME TypeInv, LockInv, NEW p \in Projects,
           NEW a \in Indexers, NEW q \in Projects, Command(a, q)
    PROVE  UNCHANGED Shown(p)!vars
<1>1. a \in Writers /\ ~Busy(a) /\ UNCHANGED <<lex, writer, search>>
  BY DEF Writers, Command, IndexNow, AddRepo, RemoveRepo, ClearIndex, store
<1>2. CASE UNCHANGED task
  BY <1>1, <1>2, TaskAwayShowsNothing DEF OthersStay, Busy, Locking
<1>3. ASSUME NEW kind, NEW pc \in Phases \ Locking, Begin(a, kind, q, pc, NoChunks)
      PROVE  OthersStay(a) /\ task[a].pc \notin Locking /\ task'[a].pc \notin Locking
  BY <1>1, <1>3 DEF Begin, Busy, Locking, OthersStay, IdleTask, TypeInv, TypeOK, Task
<1>4. \/ UNCHANGED task
      \/ \E kind \in Kinds, pc \in Phases \ Locking : Begin(a, kind, q, pc, NoChunks)
  BY DEF Command, IndexNow, AddRepo, RemoveRepo, ClearIndex, Phases, Locking, Kinds
<1> QED  BY <1>1, <1>2, <1>3, <1>4, TaskAwayShowsNothing

(* Saving and removing the other files.                                     *)
LEMMA FileStepShown ==
    ASSUME TypeInv, LockInv, NEW p \in Projects, NEW a \in Writers,
           \/ ScanAndExtract(a) \/ TruncateJson(a) \/ WriteJson(a)
           \/ ReadCatalog(a) \/ TruncateCatalog(a) \/ WriteCatalog(a)
           \/ UnlinkJson(a) \/ Deselect(a)
    PROVE  UNCHANGED Shown(p)!vars
<1>1. UNCHANGED <<lex, writer, search>> /\ task[a].pc \notin Locking
  BY DEF ScanAndExtract, TruncateJson, WriteJson, ReadCatalog, TruncateCatalog,
         WriteCatalog, UnlinkJson, Deselect, store, At, Locking
<1>2. \/ \E pc \in Phases \ Locking :
            Goto(a, pc) \/ GotoUnclean(a, pc) \/ EndSave(a, pc)
      \/ Succeed(a)
      \/ ScanAndExtract(a)
      \/ ReadCatalog(a)
  BY DEF TruncateJson, WriteJson, TruncateCatalog, WriteCatalog, UnlinkJson,
         Deselect, Phases, Locking
<1>3. OthersStay(a) /\ task'[a].pc \notin Locking
  <2>1. task \in [Writers -> Task]
    BY DEF TypeInv, TypeOK
  <2>2. CASE \E pc \in Phases \ Locking :
                Goto(a, pc) \/ GotoUnclean(a, pc) \/ EndSave(a, pc)
    BY <2>1, <2>2 DEF Goto, GotoUnclean, EndSave, OthersStay, Task
  <2>3. CASE Succeed(a)
    BY <2>1, <2>3 DEF Succeed, OthersStay, IdleTask, Locking
  <2>4. CASE ScanAndExtract(a) \/ ReadCatalog(a)
    BY <2>1, <2>4 DEF ScanAndExtract, ReadCatalog, OthersStay, Task, Locking
  <2> QED  BY <1>2, <2>2, <2>3, <2>4
<1> QED  BY <1>1, <1>3, TaskAwayShowsNothing

LEMMA EmptyIsExtracted == {} \in Extracted
<1>1. DocsOf(NoChunks, "raw") = {}
  BY DEF DocsOf, NoChunks
<1> QED  BY <1>1, NoChunksType DEF Extracted

(* An index that is there again is in the hands of whoever kept its lock.   *)
LEMMA NewIndex ==
    ASSUME TypeInv, LockInv, NEW p \in Projects, ~Whole(p), Whole(p)',
           writer'[p] = writer[p] \/ writer'[p] = NoOne,
           RebuiltBy(p)' # {} => Contested(p)
    PROVE  IndexState(p)' \in {"whole"} \union
              (IF ReadersOf(p) # {} THEN {"read"} ELSE {}) \union
              (IF Contested(p) THEN {"rebuilding"} ELSE {})
<1>1. CASE writer'[p] \in Searchers
  <2>1. writer[p] \in Searchers
    BY <1>1, StoreAssumption
  <2>2. writer[p] \in ReadersOf(p)
    BY <2>1, LockHolders DEF ReadersOf
  <2> QED  BY <1>1, <2>2, StateThen
<1>2. CASE writer'[p] \notin Searchers /\ RebuiltBy(p)' # {}
  BY <1>2, StateThen
<1>3. CASE writer'[p] \notin Searchers /\ RebuiltBy(p)' = {}
  BY <1>3, StateThen
<1> QED  BY <1>1, <1>2, <1>3

(* An opener that does not get the lock may have created the index.         *)
LEMMA CreatedShown ==
    ASSUME TypeInv, LockInv, NEW p \in Projects,
           lex'[p] = Opened(lex[p]), writer'[p] = writer[p],
           ReadersOf(p)' = ReadersOf(p),
           \A b \in Writers :
               \/ task'[b].pc = task[b].pc /\ task'[b].project = task[b].project
               \/ writer[p] # b /\ ~Works(b, p) /\ ~Works(b, p)'
    PROVE  [Shown(p)!Next]_(Shown(p)!vars)
<1>1. lex[p] \in LexDir /\ lex'[p].docs = lex[p].docs
  BY DEF TypeInv, TypeOK, LexDir, Opened
<1>2. CASE lex'[p] = lex[p]
  BY <1>2, NothingShown
<1>3. CASE lex'[p] # lex[p]
  <2>1. ~Whole(p) /\ Whole(p)'
    BY <1>1, <1>3 DEF Whole, Opened, LexDir
  <2>2. \A b \in Writers : Works(b, p)' <=> Works(b, p)
    BY DEF Works
  <2>3. RebuiltBy(p)' # {} => Contested(p)
    <3>1. ASSUME NEW b \in RebuiltBy(p)' PROVE Contests(b, p)
      <4>1. b \in Writers /\ writer[p] = b
        BY <3>1 DEF RebuiltBy
      <4> QED  BY <2>1, <4>1, LockHolders DEF Contests, Works
    <3> QED  BY <3>1, ContestedIs DEF RebuiltBy
  <2>4. Contested(p)' \in {Contested(p), FALSE}
    <3>1. ASSUME Contested(p)' PROVE Contested(p)
      BY <2>1, <2>2, <3>1, ContestedIs, ContestedThen DEF Contests
    <3> QED  BY <3>1, ContestedIs, ContestedThen
  <2>5. IndexState(p) = "absent"
    BY <2>1, StateIs
  <2>6. Shown(p)!Create
    BY <1>1, <2>1, <2>3, <2>4, <2>5, NewIndex
    DEF Shown!Create, Shown!New, ReadersOf
  <2> QED  BY <2>6 DEF Shown!Next
<1> QED  BY <1>2, <1>3

LEMMA OpenIndexShown ==
    ASSUME TypeInv, LockInv, NEW p \in Projects, NEW a \in Writers, OpenIndex(a)
    PROVE  [Shown(p)!Next]_(Shown(p)!vars)
<1> DEFINE q == task[a].project
<1>1. /\ q \in Projects /\ task[a].pc = "open" /\ writer[q] = NoOne
      /\ lex[q].state # "torn"
      /\ writer' = [writer EXCEPT ![q] = a] /\ UNCHANGED search
      /\ task'[a].project = q /\ task'[a].pc = "reset"
      /\ OthersStay(a)
  BY DEF OpenIndex, Opens, TypeInv, TypeOK, Task, Busy, At, OthersStay
<1>2. /\ lex'[q] = Opened(lex[q])
      /\ \A r \in Projects : r # q => lex'[r] = lex[r] /\ writer'[r] = writer[r]
      /\ writer'[q] = a
  BY <1>1 DEF OpenIndex, TypeInv, TypeOK
<1>3. lex'[q].state = "whole" /\ lex'[q].docs = lex[q].docs
  BY <1>1, <1>2 DEF Opened, TypeInv, TypeOK, LexDir
<1>4. CASE p # q
  <2>1. UNCHANGED Shown(p)!vars
    BY <1>1, <1>2, <1>4, OtherProjectShowsNothing
  <2> QED  BY <2>1
<1>5. CASE p = q
  <2>1. ReadersOf(p)' = ReadersOf(p)
    BY <1>1 DEF ReadersOf
  <2>2. a \notin Searchers /\ NoOne \notin Writers /\ NoOne \notin Searchers
    BY StoreAssumption
  <2>3. Contested(p)' = Contested(p)
    <3>1. \A b \in Writers : Contests(b, p)' <=> Contests(b, p)
      BY <1>1, <1>2, <1>3, <1>5, <2>2 DEF Contests, Works, Whole, OthersStay, Locking
    <3> QED  BY <3>1, SameContest
  <2>4. RebuiltBy(p) = {} /\ RebuiltBy(p)' = {}
    BY <1>1, <1>2, <1>5, <2>2 DEF RebuiltBy, At
  <2>5. IndexState(p)' = "whole"
    BY <1>2, <1>3, <1>5, <2>2, <2>4, StateThen DEF Whole
  <2>6. CASE Whole(p)
    <3>1. IndexState(p) = "whole"
      BY <1>1, <1>5, <2>2, <2>4, <2>6, StateIs
    <3> QED  BY <1>3, <1>5, <2>1, <2>3, <2>5, <3>1 DEF Shown!vars, ReadersOf
  <2>7. CASE ~Whole(p)
    <3>1. IndexState(p) = "absent"
      BY <2>7, StateIs
    <3>2. Shown(p)!Create
      BY <1>3, <1>5, <2>1, <2>3, <2>5, <3>1
      DEF Shown!Create, Shown!New, ReadersOf
    <3> QED  BY <3>2 DEF Shown!Next
  <2> QED  BY <2>6, <2>7
<1> QED  BY <1>4, <1>5

LEMMA OpenIndexFailsShown ==
    ASSUME TypeInv, LockInv, NEW p \in Projects, NEW a \in Writers,
           OpenIndexFails(a)
    PROVE  [Shown(p)!Next]_(Shown(p)!vars)
<1> DEFINE q == task[a].project
<1>1. /\ q \in Projects /\ task[a].pc \notin Locking /\ task'[a].pc \notin Locking
      /\ UNCHANGED <<writer, search>> /\ OthersStay(a)
  BY DEF OpenIndexFails, Abort, IdleTask, At, TypeInv, Busy, Locking, OthersStay
<1>2. /\ lex'[q] = Opened(lex[q])
      /\ \A r \in Projects : r # q => lex'[r] = lex[r]
  BY <1>1 DEF OpenIndexFails, TypeInv, TypeOK
<1>3. ReadersOf(p)' = ReadersOf(p) /\ writer[p] # a
  BY <1>1, LockHolders DEF ReadersOf
<1>4. \A b \in Writers :
        \/ task'[b].pc = task[b].pc /\ task'[b].project = task[b].project
        \/ writer[p] # b /\ ~Works(b, p) /\ ~Works(b, p)'
  BY <1>1, <1>3 DEF OthersStay, Works
<1>5. CASE p # q
  <2>1. UNCHANGED Shown(p)!vars
    BY <1>1, <1>2, <1>3, <1>4, <1>5, NothingShown
  <2> QED  BY <2>1
<1>6. CASE p = q
  BY <1>1, <1>2, <1>3, <1>4, <1>6, CreatedShown
<1> QED  BY <1>5, <1>6

(* Whoever lost the index may write over what is there.                     *)
LEMMA ReplaceShown ==
    ASSUME TypeInv, LockInv, NEW p \in Projects, NEW a \in Writers,
           UNCHANGED search, OthersStay(a), Contests(a, p),
           Whole(p)', lex'[p].docs \in Extracted,
           \/ writer'[p] = writer[p] /\ (~Whole(p) \/ writer[p] # a)
           \/ writer'[p] = NoOne /\ ~Whole(p)
    PROVE  [Shown(p)!Next]_(Shown(p)!vars)
<1>1. ReadersOf(p)' = ReadersOf(p)
  BY DEF ReadersOf
<1>2. Contested(p) /\ Contested(p)' \in BOOLEAN
  BY ContestedIs, ContestedThen
<1>3. CASE ~Whole(p)
  <2>1. IndexState(p) = "absent"
    BY <1>3, StateIs
  <2>2. IndexState(p)' \in {"whole"} \union
              (IF ReadersOf(p) # {} THEN {"read"} ELSE {}) \union {"rebuilding"}
    BY <1>2, <1>3, NewIndex
  <2>3. Shown(p)!Replace
    BY <1>1, <1>2, <2>1, <2>2 DEF Shown!Replace, Shown!New, ReadersOf
  <2> QED  BY <2>3 DEF Shown!Next
<1>4. CASE Whole(p)
  <2>1. writer'[p] = writer[p] /\ writer[p] # a
    BY <1>4
  <2>2. RebuiltBy(p)' = RebuiltBy(p)
    BY <2>1 DEF RebuiltBy, At, OthersStay
  <2>3. IndexState(p)' = IndexState(p) /\ IndexState(p) # "absent"
    BY <1>4, <2>1, <2>2 DEF IndexState, Whole
  <2>4. Shown(p)!Replace
    BY <1>1, <1>2, <2>3 DEF Shown!Replace, ReadersOf
  <2> QED  BY <2>4 DEF Shown!Next
<1> QED  BY <1>3, <1>4

(* A rebuild that has not lost the index goes on.                           *)
LEMMA ResetIndexShown ==
    ASSUME TypeInv, LockInv, NEW p \in Projects, NEW a \in Writers, ResetIndex(a)
    PROVE  [Shown(p)!Next]_(Shown(p)!vars)
<1> DEFINE q == task[a].project
<1>1. /\ q \in Projects /\ task[a].pc = "reset"
      /\ UNCHANGED <<writer, search>>
      /\ task'[a].project = q /\ task'[a].pc = "commit"
      /\ OthersStay(a)
  BY DEF ResetIndex, TypeInv, TypeOK, Task, Busy, At, OthersStay
<1>2. /\ lex'[q] = DirWithout("whole")
      /\ \A r \in Projects : r # q => lex'[r] = lex[r]
  BY <1>1 DEF ResetIndex, TypeInv, TypeOK
<1>3. lex'[q].state = "whole" /\ lex'[q].docs = {}
  BY <1>2 DEF DirWithout
<1>4. CASE p # q
  <2>1. UNCHANGED Shown(p)!vars
    BY <1>1, <1>2, <1>4, OtherProjectShowsNothing
  <2> QED  BY <2>1
<1>5. CASE p = q /\ writer[p] = a /\ Whole(p)
  <2>1. ReadersOf(p)' = ReadersOf(p)
    BY <1>1 DEF ReadersOf
  <2>2. Contested(p)' = Contested(p)
    <3>1. \A b \in Writers : Contests(b, p)' <=> Contests(b, p)
      BY <1>1, <1>3, <1>5 DEF Contests, Works, Whole, OthersStay, Locking
    <3> QED  BY <3>1, SameContest
  <2>3. a \notin Searchers /\ RebuiltBy(p) = {} /\ a \in RebuiltBy(p)'
    BY <1>1, <1>5, StoreAssumption DEF RebuiltBy, At
  <2>4. IndexState(p) = "whole" /\ IndexState(p)' = "rebuilding"
    BY <1>1, <1>3, <1>5, <2>3, StateIs, StateThen DEF Whole
  <2>5. Shown(p)!Empty
    BY <1>3, <1>5, <2>1, <2>2, <2>4 DEF Shown!Empty, ReadersOf
  <2> QED  BY <2>5 DEF Shown!Next
<1>6. CASE p = q /\ ~(writer[p] = a /\ Whole(p))
  <2>1. Contests(a, p) /\ Whole(p)' /\ lex'[p].docs \in Extracted
    BY <1>1, <1>3, <1>6, EmptyIsExtracted DEF Contests, Works, Whole, Locking
  <2> QED  BY <1>1, <1>6, <2>1, ReplaceShown
<1> QED  BY <1>4, <1>5, <1>6

LEMMA CommitIndexShown ==
    ASSUME TypeInv, LockInv, NEW p \in Projects, NEW a \in Writers, CommitIndex(a)
    PROVE  [Shown(p)!Next]_(Shown(p)!vars)
<1> DEFINE q == task[a].project
<1>1. /\ q \in Projects /\ task[a].pc = "commit"
      /\ task[a].chunks \in Snapshot /\ task[a].view = {}
      /\ UNCHANGED search
  BY DEF CommitIndex, TypeInv, TypeOK, Task, Busy, At, LockInv, CommitStartsEmpty
<1>2. task'[a].project # p /\ task'[a].pc = "idle" /\ OthersStay(a)
  BY StoreAssumption
  DEF CommitIndex, Succeed, IdleTask, OthersStay, TypeInv, TypeOK
<1>3. \A r \in Projects :
        \/ writer[r] = a /\ r = q /\ writer'[r] = NoOne
        \/ writer[r] # a /\ writer'[r] = writer[r]
  BY LockHolders DEF CommitIndex, Release
<1>4. /\ lex'[q].state = "whole"
      /\ lex'[q].docs = DocsOf(task[a].chunks, IdOf(task[a].kind))
      /\ \A r \in Projects : r # q => lex'[r] = lex[r]
  BY <1>1 DEF CommitIndex, TypeInv, TypeOK, LexDir
<1>5. DocsOf(task[a].chunks, IdOf(task[a].kind)) \in Extracted
  BY <1>1 DEF Extracted, IdOf
<1>6. CASE p # q
  <2>1. UNCHANGED Shown(p)!vars
    BY <1>1, <1>2, <1>3, <1>4, <1>6, OtherProjectShowsNothing
  <2> QED  BY <2>1
<1>7. CASE p = q /\ writer[p] = a /\ Whole(p)
  <2>1. ReadersOf(p)' = ReadersOf(p)
    BY <1>1 DEF ReadersOf
  <2>2. NoOne \notin Writers /\ NoOne \notin Searchers /\ a \notin Searchers
    BY StoreAssumption
  <2>3. writer'[p] = NoOne
    BY <1>3, <1>7
  <2>4. Contested(p)' = Contested(p)
    <3>1. \A b \in Writers : Contests(b, p)' <=> Contests(b, p)
      BY <1>2, <1>4, <1>7, <2>2, <2>3 DEF Contests, Works, Whole, OthersStay, Locking
    <3> QED  BY <3>1, SameContest
  <2>5. a \in RebuiltBy(p) /\ RebuiltBy(p)' = {}
    BY <1>1, <1>7, <2>2, <2>3 DEF RebuiltBy, At
  <2>6. IndexState(p) = "rebuilding" /\ IndexState(p)' = "whole"
    BY <1>4, <1>7, <2>2, <2>3, <2>5, StateIs, StateThen DEF Whole
  <2>7. Shown(p)!Fill
    BY <1>4, <1>5, <1>7, <2>1, <2>4, <2>6 DEF Shown!Fill, ReadersOf
  <2> QED  BY <2>7 DEF Shown!Next
<1>8. CASE p = q /\ ~(writer[p] = a /\ Whole(p))
  <2>1. Contests(a, p) /\ Whole(p)' /\ lex'[p].docs \in Extracted
    BY <1>1, <1>4, <1>5, <1>8 DEF Contests, Works, Whole, Locking
  <2> QED  BY <1>1, <1>2, <1>3, <1>8, <2>1, ReplaceShown
<1> QED  BY <1>6, <1>7, <1>8

(* A task that lost the index ends.                                         *)
LEMMA LoserEnds ==
    ASSUME NEW p \in Projects, NEW a \in Writers, UNCHANGED search,
           lex'[p] = lex[p], Contests(a, p),
           \/ writer'[p] = writer[p] /\ writer[p] # a
           \/ writer[p] \in Writers /\ writer'[p] = NoOne /\ ~Whole(p),
           OthersStay(a), task'[a].pc = "idle"
    PROVE  [Shown(p)!Next]_(Shown(p)!vars)
<1>1. ReadersOf(p)' = ReadersOf(p)
  BY DEF ReadersOf
<1>2. IndexState(p)' = IndexState(p)
  <2>1. CASE Whole(p)
    <3>1. RebuiltBy(p)' = RebuiltBy(p)
      BY <2>1 DEF RebuiltBy, At, OthersStay
    <3> QED  BY <2>1, <3>1 DEF IndexState
  <2>2. CASE ~Whole(p)
    BY <2>2, StateIs, StateThen DEF Whole
  <2> QED  BY <2>1, <2>2
<1>3. Contested(p)
  BY ContestedIs
<1>4. CASE Contested(p)'
  <2>1. Contested(p)' = Contested(p)
    BY <1>3, <1>4, ContestedIs, ContestedThen
  <2> QED  BY <1>1, <1>2, <2>1 DEF Shown!vars, ReadersOf
<1>5. CASE ~Contested(p)'
  <2>1. Shown(p)!Settle
    BY <1>1, <1>2, <1>3, <1>5 DEF Shown!Settle, ReadersOf
  <2> QED  BY <2>1 DEF Shown!Next
<1> QED  BY <1>4, <1>5

LEMMA IndexDirGoneShown ==
    ASSUME TypeInv, LockInv, NEW p \in Projects, NEW a \in Writers, IndexDirGone(a)
    PROVE  [Shown(p)!Next]_(Shown(p)!vars)
<1> DEFINE q == task[a].project
<1>1. /\ q \in Projects /\ task[a].pc \in Locking /\ lex[q] = NoDir
      /\ UNCHANGED <<lex, writer, search>>
  BY DEF IndexDirGone, TypeInv, Busy, Locking, store
<1>2. task'[a].project # p /\ task'[a].pc = "idle" /\ OthersStay(a)
  BY StoreAssumption DEF IndexDirGone, Abort, IdleTask, OthersStay
<1>3. writer[q] # a
  BY <1>1, StoreAssumption DEF LockInv, LockImpliesDir
<1>4. CASE p # q
  <2>1. UNCHANGED Shown(p)!vars
    BY <1>1, <1>2, <1>4, OtherProjectShowsNothing
  <2> QED  BY <2>1
<1>5. CASE p = q
  <2>1. Contests(a, p)
    BY <1>1, <1>3, <1>5 DEF Contests, Works
  <2> QED  BY <1>1, <1>2, <1>3, <1>5, <2>1, LoserEnds
<1> QED  BY <1>4, <1>5

(* A removal takes the index, or fails and takes no more than its lock.     *)
LEMMA RemoveStorageDirShown ==
    ASSUME TypeInv, LockInv, NEW p \in Projects, NEW a \in Writers, RemoveStorageDir(a)
    PROVE  [Shown(p)!Next]_(Shown(p)!vars)
<1> DEFINE q == task[a].project
<1>1. /\ q \in Projects /\ task[a].pc \notin Locking
      /\ UNCHANGED search
      /\ Goto(a, "cat_read") \/ GotoUnclean(a, "cat_read")
  BY DEF RemoveStorageDir, TypeInv, Busy, At, Locking
<1>2. task'[a].pc \notin Locking /\ task'[a].project = q /\ OthersStay(a)
  BY <1>1 DEF Goto, GotoUnclean, TypeInv, TypeOK, Task, Locking, OthersStay
<1>3. \/ lex'[q].state # "whole" /\ lex'[q].docs = {}
      \/ lex'[q] = lex[q] /\ writer'[q] \in {writer[q], NoOne}
  BY <1>1 DEF RemoveStorageDir, Leftovers, DirWithout, NoDir, TypeInv, TypeOK
<1>4. \A r \in Projects : r # q => lex'[r] = lex[r] /\ writer'[r] = writer[r]
  BY <1>1 DEF RemoveStorageDir, TypeInv, TypeOK
<1>5. CASE p # q
  <2>1. UNCHANGED Shown(p)!vars
    BY <1>1, <1>2, <1>4, <1>5, OtherProjectShowsNothing
  <2> QED  BY <2>1
<1>6. ReadersOf(p)' = ReadersOf(p)
  BY <1>1 DEF ReadersOf
<1>7. \A b \in Writers : Works(b, p)' <=> Works(b, p)
  BY <1>1, <1>2 DEF Works, OthersStay
<1>8. CASE p = q /\ lex'[q].state # "whole" /\ lex'[q].docs = {}
  <2>1. IndexState(p)' = "absent" /\ lex'[p].docs = {}
    BY <1>8, StateThen DEF Whole
  <2>2. ASSUME Contested(p)', IndexState(p) = "absent"  PROVE  Contested(p)
    <3>1. ~Whole(p)
      BY <2>2 DEF IndexState, Whole
    <3>2. PICK b \in Writers : Works(b, p)'
      BY <2>2, ContestedThen DEF Contests
    <3> QED  BY <1>7, <3>1, <3>2, ContestedIs DEF Contests
  <2>3. Shown(p)!Remove
    BY <1>6, <2>1, <2>2, ContestedThen DEF Shown!Remove, ReadersOf
  <2> QED  BY <2>3 DEF Shown!Next
<1>9. CASE p = q /\ lex'[q] = lex[q] /\ writer'[q] \in {writer[q], NoOne}
  <2>1. CASE writer'[p] = writer[p]
    <3>1. \A b \in Writers :
            \/ task'[b].pc = task[b].pc /\ task'[b].project = task[b].project
            \/ writer[p] # b /\ ~Works(b, p) /\ ~Works(b, p)'
      BY <1>1, <1>2, LockHolders DEF OthersStay, Works
    <3>2. UNCHANGED Shown(p)!vars
      BY <1>6, <1>9, <2>1, <3>1, NothingShown
    <3> QED  BY <3>2
  <2>2. CASE writer'[p] = NoOne /\ ~Whole(p)
    <3>1. IndexState(p)' = IndexState(p)
      BY <1>9, <2>2, StateIs, StateThen DEF Whole
    <3>2. \A b \in Writers : Contests(b, p)' <=> Contests(b, p)
      BY <1>7, <1>9, <2>2 DEF Contests, Whole
    <3>3. UNCHANGED Shown(p)!vars
      BY <1>6, <1>9, <3>1, <3>2, SameContest DEF Shown!vars, ReadersOf
    <3> QED  BY <3>3
  <2>3. CASE writer'[p] = NoOne /\ Whole(p)
    <3>1. NoOne \notin Writers /\ NoOne \notin Searchers
      BY StoreAssumption
    <3>2. RebuiltBy(p)' = {}
      BY <2>3, <3>1 DEF RebuiltBy
    <3>3. IndexState(p)' = "whole"
      BY <1>9, <2>3, <3>1, <3>2, StateThen DEF Whole
    <3>4. IndexState(p) # "absent"
      BY <2>3 DEF IndexState, Whole
    <3>5. Shown(p)!Unlock
      BY <1>6, <1>9, <3>3, <3>4, ContestedThen DEF Shown!Unlock, ReadersOf
    <3> QED  BY <3>5 DEF Shown!Next
  <2> QED  BY <1>9, <2>1, <2>2, <2>3
<1> QED  BY <1>3, <1>5, <1>8, <1>9

LEMMA TaskFailsShown ==
    ASSUME TypeInv, LockInv, NEW p \in Projects, NEW a \in Writers, TaskFails(a)
    PROVE  [Shown(p)!Next]_(Shown(p)!vars)
<1> DEFINE q == task[a].project
<1>1. /\ UNCHANGED <<lex, search>> /\ OthersStay(a)
      /\ task'[a].project # p /\ task'[a].pc = "idle"
  BY StoreAssumption DEF TaskFails, Abort, IdleTask, OthersStay
<1>2. \A r \in Projects :
        \/ writer[r] = a /\ r = q /\ writer'[r] = NoOne
        \/ writer[r] # a /\ writer'[r] = writer[r]
  BY LockHolders DEF TaskFails, Release
<1>3. CASE p # q
  <2>1. UNCHANGED Shown(p)!vars
    BY <1>1, <1>2, <1>3, OtherProjectShowsNothing
  <2> QED  BY <2>1
<1>4. CASE p = q /\ writer[p] # a /\ task[a].pc \in Locking
  <2>1. Contests(a, p)
    BY <1>4 DEF Contests, Works
  <2> QED  BY <1>1, <1>2, <1>4, <2>1, LoserEnds
<1>5. CASE p = q /\ writer[p] # a /\ task[a].pc \notin Locking
  <2>1. writer' = writer
    <3>1. \A r \in Projects : writer[r] # a
      BY <1>5, LockHolders
    <3> QED  BY <1>2, <3>1 DEF TaskFails, Release, TypeInv, TypeOK
  <2>2. UNCHANGED Shown(p)!vars
    BY <1>1, <1>5, <2>1, TaskAwayShowsNothing DEF Locking
  <2> QED  BY <2>2
<1>6. CASE p = q /\ writer[p] = a /\ ~Whole(p)
  <2>1. writer'[p] = NoOne /\ Contests(a, p)
    BY <1>2, <1>6, LockHolders DEF Contests, Works
  <2> QED  BY <1>1, <1>6, <2>1, LoserEnds
<1>7. CASE p = q /\ writer[p] = a /\ Whole(p)
  <2>1. ReadersOf(p)' = ReadersOf(p)
    BY <1>1 DEF ReadersOf
  <2>2. /\ NoOne \notin Writers /\ NoOne \notin Searchers /\ a \notin Searchers
        /\ writer'[p] = NoOne /\ task[a].pc \in Locking
    BY <1>2, <1>7, StoreAssumption, LockHolders
  <2>3. Contested(p)' = Contested(p)
    <3>1. \A b \in Writers : Contests(b, p)' <=> Contests(b, p)
      BY <1>1, <1>7, <2>2 DEF Contests, Works, Whole, OthersStay, Locking
    <3> QED  BY <3>1, SameContest
  <2>4. IndexState(p)' = "whole"
    <3>1. Whole(p)' /\ RebuiltBy(p)' = {}
      BY <1>1, <1>7, <2>2 DEF Whole, RebuiltBy
    <3> QED  BY <2>2, <3>1, StateThen
  <2>5. CASE task[a].pc = "commit"
    <3>1. a \in RebuiltBy(p)
      BY <1>7, <2>5 DEF RebuiltBy, At
    <3>2. IndexState(p) = "rebuilding"
      BY <1>7, <2>2, <3>1, StateIs
    <3>3. Shown(p)!GiveUp
      BY <1>1, <2>1, <2>3, <2>4, <3>2 DEF Shown!GiveUp, ReadersOf
    <3> QED  BY <3>3 DEF Shown!Next
  <2>6. CASE task[a].pc = "reset"
    <3>1. RebuiltBy(p) = {}
      BY <1>7, <2>6 DEF RebuiltBy, At
    <3>2. IndexState(p) = "whole"
      BY <1>7, <2>2, <3>1, StateIs
    <3> QED  BY <1>1, <2>1, <2>3, <2>4, <3>2 DEF Shown!vars, ReadersOf
  <2> QED  BY <2>2, <2>5, <2>6 DEF Locking
<1> QED  BY <1>3, <1>4, <1>5, <1>6, <1>7

(* Searches have an index alone, and leave it free.                         *)
LEMMA SearchOpenShown ==
    ASSUME TypeInv, LockInv, NEW p \in Projects, NEW s \in Searchers, SearchOpen(s)
    PROVE  [Shown(p)!Next]_(Shown(p)!vars)
<1> DEFINE q == search[s].project
<1>1. /\ q \in Projects /\ search[s].pc = "opening" /\ lex[q].state # "torn"
      /\ writer[q] = NoOne /\ writer' = [writer EXCEPT ![q] = s]
      /\ lex' = [lex EXCEPT ![q] = Opened(@)]
      /\ UNCHANGED task
  BY DEF SearchOpen, Opens, TypeInv
<1>2. /\ search'[s].pc = "reading" /\ search'[s].project = q
      /\ \A r \in Searchers : r # s => search'[r] = search[r]
  BY DEF SearchOpen, TypeInv, TypeOK, Search
<1>3. /\ writer'[q] = s /\ \A r \in Projects : r # q => writer'[r] = writer[r]
      /\ lex'[q].state = "whole" /\ lex'[q].docs = lex[q].docs
      /\ \A r \in Projects : r # q => lex'[r] = lex[r]
  BY <1>1 DEF TypeInv, TypeOK, LexDir, Opened
<1>4. CASE p # q
  <2>1. ReadersOf(p)' = ReadersOf(p)
    BY <1>1, <1>2, <1>4 DEF ReadersOf
  <2>2. UNCHANGED Shown(p)!vars
    BY <1>1, <1>3, <1>4, <2>1, NothingShown
  <2> QED  BY <2>2
<1>5. CASE p = q
  <2>1. s \notin ReadersOf(p) /\ ReadersOf(p)' = ReadersOf(p) \union {s}
    BY <1>1, <1>2, <1>5 DEF ReadersOf
  <2>2. NoOne \notin Writers /\ NoOne \notin Searchers /\ s \notin Writers
    BY StoreAssumption
  <2>3. Contested(p)' = Contested(p)
    <3>1. \A b \in Writers : Contests(b, p)' <=> Contests(b, p)
      BY <1>1, <1>3, <1>5, <2>2 DEF Contests, Works
    <3> QED  BY <3>1, SameContest
  <2>4. RebuiltBy(p) = {}
    BY <1>1, <1>5, <2>2 DEF RebuiltBy
  <2>5. IndexState(p) \in {"absent", "whole"}
    BY <1>1, <1>5, <2>2, <2>4, StateIs
  <2>6. IndexState(p)' = "read"
    BY <1>3, <1>5, StateThen DEF Whole
  <2>7. Shown(p)!Open
    BY <1>3, <1>5, <2>1, <2>3, <2>5, <2>6 DEF Shown!Open, ReadersOf
  <2> QED  BY <2>7 DEF Shown!Next
<1> QED  BY <1>4, <1>5

LEMMA SearchInMemoryShown ==
    ASSUME TypeInv, LockInv, NEW p \in Projects, NEW s \in Searchers, SearchInMemory(s)
    PROVE  [Shown(p)!Next]_(Shown(p)!vars)
<1> DEFINE q == search[s].project
<1>1. /\ q \in Projects /\ search[s].pc = "opening"
      /\ lex' = [lex EXCEPT ![q] = Opened(@)]
      /\ UNCHANGED <<writer, task>>
  BY DEF SearchInMemory, TypeInv
<1>2. /\ search'[s].pc = "idle"
      /\ \A r \in Searchers : r # s => search'[r] = search[r]
  BY DEF SearchInMemory, TypeInv, TypeOK, IdleSearch
<1>3. ReadersOf(p)' = ReadersOf(p)
  BY <1>1, <1>2 DEF ReadersOf
<1>4. /\ lex'[q] = Opened(lex[q])
      /\ \A r \in Projects : r # q => lex'[r] = lex[r]
  BY <1>1 DEF TypeInv, TypeOK
<1>5. CASE p # q
  <2>1. UNCHANGED Shown(p)!vars
    BY <1>1, <1>3, <1>4, <1>5, NothingShown
  <2> QED  BY <2>1
<1>6. CASE p = q
  BY <1>1, <1>3, <1>4, <1>6, CreatedShown
<1> QED  BY <1>5, <1>6

LEMMA SearchCloseShown ==
    ASSUME TypeInv, LockInv, NEW p \in Projects, NEW s \in Searchers, SearchClose(s)
    PROVE  [Shown(p)!Next]_(Shown(p)!vars)
<1> DEFINE q == search[s].project
<1>1. /\ q \in Projects /\ search[s].pc = "reading" /\ UNCHANGED <<lex, task>>
  BY DEF SearchClose, TypeInv
<1>2. /\ search'[s].pc = "idle"
      /\ \A r \in Searchers : r # s => search'[r] = search[r]
  BY DEF SearchClose, TypeInv, TypeOK, IdleSearch
<1>3. \A r \in Projects :
        \/ writer[r] = s /\ r = q /\ writer'[r] = NoOne
        \/ writer[r] # s /\ writer'[r] = writer[r]
  BY LockHolders DEF SearchClose, Release
<1>4. CASE p # q
  <2>1. ReadersOf(p)' = ReadersOf(p)
    BY <1>1, <1>2, <1>4 DEF ReadersOf
  <2>2. UNCHANGED Shown(p)!vars
    BY <1>1, <1>3, <1>4, <2>1, NothingShown
  <2> QED  BY <2>2
<1>5. CASE p = q
  <2>1. s \in ReadersOf(p) /\ ReadersOf(p)' = ReadersOf(p) \ {s}
    BY <1>1, <1>2, <1>5 DEF ReadersOf
  <2>2. NoOne \notin Writers /\ NoOne \notin Searchers /\ s \notin Writers
    BY StoreAssumption
  <2>3. Contested(p)' = Contested(p)
    <3>1. \A b \in Writers : Contests(b, p)' <=> Contests(b, p)
      BY <1>1, <1>3, <1>5, <2>2 DEF Contests, Works, Whole
    <3> QED  BY <3>1, SameContest
  <2>4. \/ IndexState(p) = "read" /\ IndexState(p)' = "whole"
        \/ /\ IndexState(p) = "read" => ReadersOf(p)' # {}
           /\ IndexState(p)' = IndexState(p)
    <3>1. CASE writer[p] = s /\ Whole(p)
      <4>1. writer'[p] = NoOne /\ Whole(p)' /\ RebuiltBy(p)' = {}
        BY <1>1, <1>3, <2>2, <3>1 DEF Whole, RebuiltBy
      <4> QED  BY <2>2, <3>1, <4>1, StateIs, StateThen
    <3>2. CASE ~Whole(p)
      <4>1. ~Whole(p)'
        BY <1>1, <3>2 DEF Whole
      <4> QED  BY <3>2, <4>1, StateIs, StateThen
    <3>3. CASE writer[p] # s
      <4>1. IndexState(p)' = IndexState(p)
        BY <1>1, <1>3, <3>3 DEF IndexState, RebuiltBy, At
      <4>2. ASSUME IndexState(p) = "read"  PROVE  writer[p] \in ReadersOf(p)'
        <5>1. writer[p] \in Searchers
          BY <4>2 DEF IndexState, RebuiltBy
        <5> QED  BY <2>1, <3>3, <5>1, LockHolders DEF ReadersOf
      <4> QED  BY <4>1, <4>2
    <3> QED  BY <3>1, <3>2, <3>3
  <2>5. Shown(p)!Close
    BY <1>1, <2>1, <2>3, <2>4 DEF Shown!Close, ReadersOf
  <2> QED  BY <2>5 DEF Shown!Next
<1> QED  BY <1>4, <1>5

LEMMA SearchElsewhereShown ==
    ASSUME TypeInv, LockInv, NEW p \in Projects, NEW s \in Searchers,
           SearchCheck(s) \/ \E q \in Projects, f \in Files : SearchLoad(s, q, f)
    PROVE  UNCHANGED Shown(p)!vars
<1>1. /\ UNCHANGED <<lex, writer, task>>
      /\ search[s].pc # "reading" /\ search'[s].pc # "reading"
      /\ \A r \in Searchers : r # s => search'[r] = search[r]
  BY DEF SearchCheck, SearchLoad, store, IdleSearch, TypeInv, TypeOK, Search
<1>2. ReadersOf(p)' = ReadersOf(p)
  BY <1>1 DEF ReadersOf
<1> QED  BY <1>1, <1>2, NothingShown

(* mcp-server dies with its searches and its watchers.                      *)
LEMMA ServerCrashShown ==
    ASSUME TypeInv, LockInv, NEW p \in Projects, ServerCrash
    PROVE  [Shown(p)!Next]_(Shown(p)!vars)
<1>1. /\ UNCHANGED lex
      /\ \A a \in Watchers : task'[a] = IdleTask
      /\ \A a \in Writers \ Watchers : task'[a] = task[a]
      /\ \A s \in Searchers : search'[s] = IdleSearch
      /\ writer'[p] = IF writer[p] \in Watchers \union Searchers THEN NoOne ELSE writer[p]
  BY DEF ServerCrash, Abort, Release, Writers
<1>2. /\ NoOne \notin Writers /\ NoOne \notin Searchers
      /\ \A s \in Searchers : s \notin Writers
      /\ Watchers \subseteq Writers
  BY StoreAssumption DEF Writers
<1>3. ReadersOf(p)' = {}
  BY <1>1 DEF ReadersOf, IdleSearch
<1>4. Contested(p)' \in {Contested(p), FALSE}
  <2>1. ASSUME Contested(p)'  PROVE  Contested(p)
    <3>1. PICK b \in Writers : Contests(b, p)'
      BY <2>1, ContestedThen
    <3>2. b \notin Watchers
      BY <1>1, <3>1 DEF Contests, Works, Locking, IdleTask
    <3>3. Contests(b, p)
      BY <1>1, <1>2, <3>1, <3>2 DEF Contests, Works, Whole
    <3> QED  BY <3>3, ContestedIs
  <2> QED  BY <2>1, ContestedIs, ContestedThen
<1>5. Whole(p)' <=> Whole(p)
  BY <1>1 DEF Whole
<1>6. \/ IndexState(p) \in {"read", "rebuilding"} /\ IndexState(p)' = "whole"
      \/ IndexState(p) # "read" /\ IndexState(p)' = IndexState(p)
  <2>1. CASE ~Whole(p)
    BY <1>5, <2>1, StateIs, StateThen
  <2>2. CASE Whole(p) /\ writer[p] \in Watchers \union Searchers
    <3>1. IndexState(p)' = "whole"
      <4>1. writer'[p] = NoOne /\ RebuiltBy(p)' = {}
        BY <1>1, <1>2, <2>2 DEF RebuiltBy
      <4> QED  BY <1>2, <1>5, <2>2, <4>1, StateThen
    <3>2. IndexState(p) \in {"read", "rebuilding", "whole"}
      BY <2>2 DEF IndexState, Whole
    <3> QED  BY <3>1, <3>2
  <2>3. CASE Whole(p) /\ writer[p] \notin Watchers \union Searchers
    <3>1. writer'[p] = writer[p]
      BY <1>1, <2>3
    <3>2. RebuiltBy(p)' = RebuiltBy(p)
      BY <1>1, <2>3, <3>1 DEF RebuiltBy, At
    <3> QED  BY <1>1, <2>3, <3>1, <3>2 DEF IndexState
  <2> QED  BY <2>1, <2>2, <2>3
<1>7. Shown(p)!Crash
  BY <1>1, <1>3, <1>4, <1>6 DEF Shown!Crash, ReadersOf
<1> QED  BY <1>7 DEF Shown!Next

LEMMA EnvironmentShown ==
    ASSUME TypeInv, LockInv, NEW p \in Projects,
           \/ \E q \in Projects, f \in Files, v \in Content : EditFile(q, f, v)
           \/ \E w \in Watchers, f \in Files : UpdateFile(w, f)
           \/ ServerStart
    PROVE  UNCHANGED Shown(p)!vars
<1>1. UNCHANGED <<lex, writer, search>>
  BY DEF EditFile, UpdateFile, ServerStart, store
<1>2. CASE UNCHANGED task
  <2>1. ReadersOf(p)' = ReadersOf(p)
    BY <1>1 DEF ReadersOf
  <2> QED  BY <1>1, <1>2, <2>1, NothingShown
<1>3. ASSUME NEW w \in Watchers, NEW q, NEW chunks, ~Busy(w),
             Begin(w, "watch", q, "truncate", chunks)
      PROVE  UNCHANGED Shown(p)!vars
  <2>1. w \in Writers
    BY DEF Writers
  <2>2. task'[w].pc = "truncate" /\ task[w].pc = "idle"
    BY <1>3, <2>1 DEF Begin, Busy, IdleTask
  <2>3. OthersStay(w) /\ task[w].pc \notin Locking /\ task'[w].pc \notin Locking
    BY <1>3, <2>1, <2>2 DEF Begin, Locking, OthersStay, TypeInv, TypeOK, Task
  <2> QED  BY <1>1, <2>1, <2>3, TaskAwayShowsNothing
<1>4. \/ UNCHANGED task
      \/ \E w \in Watchers : \E q, chunks :
            ~Busy(w) /\ Begin(w, "watch", q, "truncate", chunks)
  BY DEF EditFile, UpdateFile, ServerStart
<1> QED  BY <1>2, <1>3, <1>4

LEMMA AdvanceShown ==
    ASSUME TypeInv, LockInv, NEW p \in Projects, NEW a \in Writers, Advance(a)
    PROVE  [Shown(p)!Next]_(Shown(p)!vars)
<1>1. CASE OpenIndex(a) \/ OpenIndexFails(a)
  BY <1>1, OpenIndexShown, OpenIndexFailsShown
<1>2. CASE ~(OpenIndex(a) \/ OpenIndexFails(a))
  BY <1>2, FileStepShown, ResetIndexShown, CommitIndexShown, IndexDirGoneShown,
     RemoveStorageDirShown DEF Advance
<1> QED  BY <1>1, <1>2

LEMMA ShownStep ==
    StoreInv /\ [Next]_vars => \A p \in Projects : [Shown(p)!Next]_(Shown(p)!vars)
<1> SUFFICES ASSUME TypeInv, LockInv, [Next]_vars, NEW p \in Projects
             PROVE  [Shown(p)!Next]_(Shown(p)!vars)
  BY DEF StoreInv
<1>1. CASE UNCHANGED vars
  <2>1. UNCHANGED <<lex, writer, search, task>>
    BY <1>1 DEF vars, store
  <2>2. ReadersOf(p)' = ReadersOf(p)
    BY <2>1 DEF ReadersOf
  <2> QED  BY <2>1, <2>2, NothingShown
<1>2. CASE Next
  BY <1>2, CommandShown, AdvanceShown, TaskFailsShown, SearchOpenShown,
     SearchInMemoryShown, SearchCloseShown, SearchElsewhereShown, ServerCrashShown, EnvironmentShown
  DEF Next, SearchStep
<1> QED  BY <1>1, <1>2

LEMMA ShownInit == Init => \A p \in Projects : Shown(p)!Init
<1> SUFFICES ASSUME Init, NEW p \in Projects  PROVE  Shown(p)!Init
  OBVIOUS
<1>1. writer[p] = NoOne /\ NoOne \notin Writers /\ NoOne \notin Searchers
  BY StoreAssumption DEF Init
<1>2. ReadersOf(p) = {}
  BY DEF Init, IdleSearch, ReadersOf
<1>3. Contested(p) = FALSE
  BY DEF Init, Contested, IdleTask
<1>4. lex[p].docs \in Extracted /\ (~Whole(p) => lex[p].docs = {})
  <2>1. CASE p \in Indexed
    BY <2>1 DEF Init, Extracted, Whole
  <2>2. CASE p \notin Indexed
    BY <2>2, EmptyIsExtracted DEF Init, NoDir, DirWithout, Whole
  <2> QED  BY <2>1, <2>2
<1>5. IndexState(p) = IF Whole(p) THEN "whole" ELSE "absent"
  BY <1>1 DEF IndexState, RebuiltBy, Whole
<1> QED  BY <1>2, <1>3, <1>4, <1>5 DEF Shown!Init, ReadersOf

(* Every project's lexical index is the abstract one.                       *)
THEOREM StoreImplementsLexicalIndex == Spec => ImplementsLexicalIndex
<1> DEFINE A == \A p \in Projects : UNCHANGED Shown(p)!vars \/ Shown(p)!Next
<1>1. StoreInv /\ [Next]_vars => [A]_vars
  BY ShownStep
<1>2. Spec => [][A]_vars
  <2> HIDE DEF A
  <2> QED  BY <1>1, StoreInvariant, PTL DEF Spec
<1> QED  BY <1>2, ShownInit DEF ImplementsLexicalIndex, Spec
=============================================================================
