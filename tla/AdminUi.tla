------------------------------- MODULE AdminUi -------------------------------
(***************************************************************************)
(* The admin page, the handlers of the admin UI's server behind it, and    *)
(* what both see of mcp-server and of the stored indexes.  A click starts  *)
(* a request that the page does not wait for before it accepts the next;   *)
(* the selection is a file that other processes write, and every handler   *)
(* reads it on its own; the telemetry stream repaints the page meanwhile.  *)
(*                                                                         *)
(* What an index action does inside its stores is IndexStore's and         *)
(* VectorSync's; here each store of it is one step.                        *)
(***************************************************************************)
EXTENDS Naturals, Sequences

CONSTANTS
    Projects,
    Clicks,        \* requests the page, or a script, has running at once
    Offers,        \* the kinds of request a click may be
    MaxOutside,    \* commands of mcp-code-indexer and stops of mcp-server
    Before,        \* the project that is selected and indexed at the start
    Repeated,      \* the searches that are ever made again, with their scope
    Asked,         \* those of them mcp-server remembers at the start
    NoProject,     \* the empty path: nothing is selected, or typed
    Torn,          \* the path two overlapping writes leave in the file
    NoClick

Kinds == {"search", "smoke", "agent", "select", "start", "clear"}

ASSUME UiAssumption ==
    /\ Offers \in [Clicks -> SUBSET Kinds]
    /\ MaxOutside \in Nat
    /\ Before \in Projects
    /\ Repeated \subseteq (Kinds \X (1..2)) \X Projects
    /\ Asked \subseteq Repeated
    /\ NoProject \notin Projects
    /\ Torn \notin Projects \union {NoProject}
    /\ NoClick \notin Clicks

VARIABLES
    selected,   \* selected-project.txt
    stored,     \* which stores of a project hold what was last extracted
    up,         \* mcp-server answers
    cached,     \* the searches whose items are in its query cache
    task,       \* the request of every click
    page,       \* what the admin page shows
    telemetry,  \* the snapshots on their way to the page
    outside     \* how often something outside the admin UI came between

(* History: the tasks during which, or after which, another hand changed    *)
(* the selection or a store, or mcp-server went or came; the search clicked *)
(* last; and whether that one ran beside another search.                    *)
VARIABLES disturbed, last, overlapped

vars == <<selected, stored, up, cached, task, page, telemetry, outside,
          disturbed, last, overlapped>>
searches == <<last, overlapped>>
server == <<up, cached>>

-----------------------------------------------------------------------------
(* Values *)

Paths == Projects \union {NoProject, Torn}
Stores == {"entry", "index", "lexical", "vectors"}

(* The requests to mcp-server each kind makes, in their order.              *)
Calls == [k \in Kinds |->
            CASE k = "search" -> <<"rpc", "sse">>
              [] k = "smoke"  -> <<"rpc", "sse", "open">>
              [] k = "agent"  -> <<"rpc", "rpc", "open", "sse">>
              [] OTHER        -> << >>]

(* The items of an answer are told apart by the project they are of.        *)
Phases == {"idle", "send", "wait", "truncate", "write", "save",
           "lexical", "vectors", "remove", "drop", "respond", "done"}
Task == [kind : Kinds, pc : Phases,
         project : Paths,   \* what select and the index actions work on
         filter : Paths,    \* repo_filter: the scope that was read first
         header : Paths,    \* x-codivex-project: the scope of this call
         answers : Seq(Paths), counted : BOOLEAN]
NoTask == [kind |-> "search", pc |-> "idle", project |-> NoProject,
           filter |-> NoProject, header |-> NoProject, answers |-> << >>,
           counted |-> FALSE]

Output == [by : Clicks \union {NoClick}, of : Paths]
NoOutput == [by |-> NoClick, of |-> NoProject]
Page == [status : Paths, input : Paths, rows : Output, stream : Output,
         searching : {"idle", "running", "complete"}, catalog : SUBSET Paths]

(* An answer of mcp-server that is an error has neither field.              *)
Snapshot == [selected : Paths, catalog : SUBSET Paths]
Failure == [selected |-> NoProject, catalog |-> {}]
Channels == {"load", "stream"}

TypeOK ==
    /\ selected \in Paths
    /\ stored \in [Paths -> SUBSET Stores]
    /\ up \in BOOLEAN
    /\ cached \subseteq Repeated
    /\ task \in [Clicks -> Task]
    /\ page \in Page
    /\ telemetry \in [Channels -> [pc : {"ready", "sent", "closed"},
                                   snapshot : Snapshot]]
    /\ outside \in 0..MaxOutside
    /\ disturbed \subseteq Clicks
    /\ last \in Clicks \union {NoClick}
    /\ overlapped \in BOOLEAN

At(c, pc) == task[c].pc = pc
Running(c) == ~At(c, "idle") /\ ~At(c, "done")
Indexed(p) == p # NoProject /\ "index" \in stored[p]
Catalog == {p \in Paths : "entry" \in stored[p]}

(* A change of the selection or of a store, seen by every other task.       *)
Disturb(others) == disturbed' = disturbed \union others

-----------------------------------------------------------------------------
(* Searches, the smoke test and the agent test *)

(* A request begins with project_scope, for the repo_filter of its searches.*)
Begin(c, kind) ==
    /\ At(c, "idle")
    /\ kind \in Offers[c]
    /\ task' = [task EXCEPT ![c].kind = kind, ![c].pc = "send",
                            ![c].filter = selected]
    /\ disturbed' = disturbed \ {c}
    /\ UNCHANGED <<selected, stored, server, telemetry, outside>>

(* btn-search: nothing keeps a second click from starting another search.   *)
ClickSearch(c) ==
    /\ Begin(c, "search")
    /\ page' = [page EXCEPT !.searching = "running"]
    /\ last' = c
    /\ overlapped' = \E d \in Clicks : Running(d) /\ task[d].kind = "search"

(* A request to /api/smoke-test or /api/agent-test.                         *)
RunTest(c, kind) ==
    /\ kind \in {"smoke", "agent"}
    /\ Begin(c, kind)
    /\ UNCHANGED <<page, searches>>

Call(c) == Calls[task[c].kind][Len(task[c].answers) + 1]

(* The location of the first item of the searches that had one.             *)
Target(c) ==
    LET found == {i \in DOMAIN task[c].answers :
                    /\ Calls[task[c].kind][i] = "rpc"
                    /\ task[c].answers[i] # NoProject}
    IN  IF found = {} THEN NoProject
        ELSE task[c].answers[CHOOSE i \in found : \A j \in found : i <= j]

(* Mutant: the header is what the page shows as selected.                   *)
SendShown(c) ==
    /\ At(c, "send")
    /\ task' = [task EXCEPT ![c].pc = "wait", ![c].header = page.status]
    /\ UNCHANGED <<selected, stored, server, page, telemetry, outside, disturbed,
                   searches>>

(* The scope of a call is read again for its header.                        *)
Send(c) ==
    /\ At(c, "send")
    /\ task' = [task EXCEPT ![c].pc = "wait", ![c].header = selected]
    /\ UNCHANGED <<selected, stored, server, page, telemetry, outside, disturbed,
                   searches>>

(* mcp-server's choice of a scope: the repo_filter of a search, the header, *)
(* or what is selected when the request arrives.                            *)
ScopeOf(c) ==
    IF Call(c) = "rpc" /\ task[c].filter # NoProject THEN task[c].filter
    ELSE IF task[c].header # NoProject THEN task[c].header
    ELSE selected

(* What the query cache is asked for: a query and a scope.  The rpc calls   *)
(* of a test have a query of their own each, and the user repeats one.      *)
QuestionOf(c) == <<<<task[c].kind, Len(task[c].answers) + 1>>, ScopeOf(c)>>

(* What a search finds in the index, and what it answers.  Items that were  *)
(* found once come from the cache, before the index is looked at, whether   *)
(* it still has them or not; of what the cache has evicted it is asked.     *)
Found(c) == IF Indexed(ScopeOf(c)) THEN ScopeOf(c) ELSE NoProject
Cached(c) == IF Call(c) = "rpc" /\ QuestionOf(c) \in cached THEN {ScopeOf(c)} ELSE {}

(* What comes back: items, or an error without any.  The paths of items     *)
(* are absolute, so that a location opens whatever the header says; without *)
(* an item there is nothing to open and no request.                         *)
Answers(c) ==
    IF ~up THEN {NoProject}
    ELSE IF Call(c) = "open" THEN {Target(c)}
    ELSE {Found(c)} \union Cached(c)

(* Only items are cached; what nobody asks again need not be kept.          *)
Remember(c, answer) ==
    cached' = IF ~up \/ Call(c) # "rpc" THEN cached
              ELSE IF answer = NoProject THEN cached \ {QuestionOf(c)}
              ELSE cached \union ({QuestionOf(c)} \intersect Repeated)

(* Mutant: an answer without items leaves the table as it is.               *)
RenderFound(c, answer) ==
    LET output == [by |-> c, of |-> answer]
    IN  IF task[c].kind # "search" \/ (Call(c) = "rpc" /\ answer = NoProject)
        THEN page
        ELSE IF Call(c) = "rpc" THEN [page EXCEPT !.rows = output]
        ELSE [page EXCEPT !.stream = output, !.searching = "complete"]

(* The page renders the rows when the first answer is there, empty ones     *)
(* included, and then the text of the stream.                               *)
Render(c, answer) ==
    LET output == [by |-> c, of |-> answer]
    IN  IF task[c].kind # "search" THEN page
        ELSE IF Call(c) = "rpc" THEN [page EXCEPT !.rows = output]
        ELSE [page EXCEPT !.stream = output, !.searching = "complete"]

Receive(c) ==
    LET over == Len(task[c].answers) + 1 = Len(Calls[task[c].kind])
    IN  /\ At(c, "wait")
        /\ \E answer \in Answers(c) :
             /\ task' = [task EXCEPT ![c].answers = Append(@, answer),
                     ![c].pc = IF over THEN "done" ELSE "send",
                     ![c].header = NoProject,
                     ![c].filter = IF over THEN NoProject ELSE @]
             /\ page' = Render(c, answer)
             /\ Remember(c, answer)
        /\ UNCHANGED <<selected, stored, up, telemetry, outside, disturbed,
                       searches>>

-----------------------------------------------------------------------------
(* Selecting and indexing *)

(* The user types or picks a folder and applies it.                         *)
ClickSelect(c, p) ==
    /\ At(c, "idle")
    /\ "select" \in Offers[c]
    /\ task' = [task EXCEPT ![c].kind = "select", ![c].pc = "truncate",
                            ![c].project = p]
    /\ page' = [page EXCEPT !.input = p]
    /\ disturbed' = disturbed \ {c}
    /\ UNCHANGED <<selected, stored, server, telemetry, outside, searches>>

(* The buttons send the path that is typed.  Without one api_index_action   *)
(* works on the selection; what it works on is written as the selection,    *)
(* also when it is the empty path.                                          *)
ClickIndex(c, kind) ==
    /\ At(c, "idle")
    /\ kind \in {"start", "clear"} \intersect Offers[c]
    /\ task' = [task EXCEPT ![c].kind = kind, ![c].pc = "truncate",
            ![c].project = IF page.input = NoProject THEN selected
                           ELSE page.input]
    /\ disturbed' = disturbed \ {c}
    /\ UNCHANGED <<selected, stored, server, page, telemetry, outside, searches>>

AfterSelection(c) ==
    CASE task[c].kind = "start" -> "save"
      [] task[c].kind = "clear" -> "remove"
      [] OTHER -> "respond"

(* fs::write empties the file and then fills it.                            *)
Truncate(c) ==
    /\ At(c, "truncate")
    /\ selected' = NoProject
    /\ task' = [task EXCEPT ![c].pc = "write"]
    /\ Disturb(Clicks \ {c})
    /\ UNCHANGED <<stored, server, page, telemetry, outside, searches>>

(* What is there by now was written since this task emptied the file, and   *)
(* is overwritten from its start on.                                        *)
Write(c) ==
    /\ At(c, "write")
    /\ selected' \in IF selected \in {NoProject, task[c].project}
                     THEN {task[c].project} ELSE {task[c].project, Torn}
    /\ task' = [task EXCEPT ![c].pc = AfterSelection(c)]
    /\ Disturb(Clicks \ {c})
    /\ UNCHANGED <<stored, server, page, telemetry, outside, searches>>

(* A failure to write the selection is ignored.                             *)
SelectFails(c) ==
    /\ At(c, "truncate")
    /\ task' = [task EXCEPT ![c].pc = AfterSelection(c)]
    /\ UNCHANGED <<selected, stored, server, page, telemetry, outside, disturbed,
                   searches>>

StoreInto(c, stores) ==
    /\ stored' = [stored EXCEPT ![task[c].project] = stores]
    /\ Disturb(Clicks \ {c})
    /\ UNCHANGED <<selected, server, page, telemetry, outside, searches>>

(* save_project_index: from here on the other stores are behind.  A path    *)
(* that is no directory has no files, and gets an entry all the same.       *)
Save(c) ==
    /\ At(c, "save")
    /\ StoreInto(c, IF task[c].project \in Projects THEN {"entry", "index"}
                    ELSE {"entry"})
    /\ task' = [task EXCEPT ![c].pc = "lexical"]

PersistLexical(c) ==
    /\ At(c, "lexical")
    /\ StoreInto(c, stored[task[c].project] \union {"lexical"})
    /\ task' = [task EXCEPT ![c].pc = "vectors"]

(* persist_qdrant_vectors, with a Qdrant configured.                        *)
PersistVectors(c) ==
    /\ At(c, "vectors")
    /\ StoreInto(c, stored[task[c].project] \union {"vectors"})
    /\ task' = [task EXCEPT ![c].pc = "respond",
                            ![c].counted = task[c].project \in Projects]

(* Mutant: a failure of Qdrant does not fail the action.                    *)
IndexFailsQuietly(c) ==
    /\ task[c].pc \in {"save", "lexical", "vectors"}
    /\ task' = [task EXCEPT ![c].pc = "respond", ![c].counted =
                    At(c, "vectors") /\ task[c].project \in Projects]
    /\ UNCHANGED <<selected, stored, server, page, telemetry, outside, disturbed,
                   searches>>

(* Any of them may fail, and the answer is then the one of a project        *)
(* without files, whatever is stored by now.                                *)
IndexFails(c) ==
    /\ task[c].pc \in {"save", "lexical", "vectors"}
    /\ task' = [task EXCEPT ![c].pc = "respond"]
    /\ UNCHANGED <<selected, stored, server, page, telemetry, outside, disturbed,
                   searches>>

(* remove_project_index: a deletion that fails is passed over.  What it     *)
(* leaves of the lexical index alone is of no more use.                     *)
Deletions == {{"index", "lexical"}, {"lexical"}}

(* clear: the files are removed and then the entry; an error of the catalog *)
(* ends the action.                                                         *)
Remove(c) ==
    /\ At(c, "remove")
    /\ \E gone \in Deletions :
         \/ /\ StoreInto(c, stored[task[c].project] \ (gone \union {"entry"}))
            /\ task' = [task EXCEPT ![c].pc = "drop"]
         \/ /\ StoreInto(c, stored[task[c].project] \ gone)
            /\ task' = [task EXCEPT ![c].pc = "respond"]

(* A failure to drop the collection is ignored.  The selection stays.       *)
DropVectors(c) ==
    /\ At(c, "drop")
    /\ \E dropped \in SUBSET {"vectors"} :
            StoreInto(c, stored[task[c].project] \ dropped)
    /\ task' = [task EXCEPT ![c].pc = "respond"]

(* The page takes the path the server answers with, unless it is empty.     *)
Respond(c) ==
    /\ At(c, "respond")
    /\ task' = [task EXCEPT ![c].pc = "done"]
    /\ page' = IF task[c].project = NoProject THEN page
               ELSE [page EXCEPT !.status = task[c].project,
                                 !.input = task[c].project]
    /\ UNCHANGED <<selected, stored, server, telemetry, outside, disturbed,
                   searches>>

-----------------------------------------------------------------------------
(* Telemetry *)

(* One snapshot is fetched when the page is loaded.  The stream asks for    *)
(* one every second and keeps them in their order: one on its way at a time *)
(* is a bound.                                                              *)
AskTelemetry(h) ==
    /\ telemetry[h].pc = "ready"
    /\ telemetry' = [telemetry EXCEPT ![h] = [pc |-> "sent", snapshot |->
            IF up THEN [selected |-> selected, catalog |-> Catalog]
            ELSE Failure]]
    /\ UNCHANGED <<selected, stored, server, task, page, outside, disturbed,
                   searches>>

(* Mutant: the status is left alone once it shows a project.                *)
UpdateTelemetryOnce(h) ==
    LET snapshot == telemetry[h].snapshot
    IN  /\ telemetry[h].pc = "sent"
        /\ page' = [page EXCEPT !.catalog = snapshot.catalog,
                        !.status = IF @ # NoProject THEN @
                                   ELSE snapshot.selected]
        /\ telemetry' = [telemetry EXCEPT ![h] =
                [pc |-> IF h = "load" THEN "closed" ELSE "ready",
                 snapshot |-> Failure]]
        /\ UNCHANGED <<selected, stored, server, task, outside, disturbed,
                       searches>>

(* updateTelemetry: a selection that is not there changes nothing, a        *)
(* catalog that is not there is an empty one.                               *)
UpdateTelemetry(h) ==
    LET snapshot == telemetry[h].snapshot
    IN  /\ telemetry[h].pc = "sent"
        /\ page' = [page EXCEPT !.catalog = snapshot.catalog,
                        !.status = IF snapshot.selected = NoProject THEN @
                                   ELSE snapshot.selected]
        /\ telemetry' = [telemetry EXCEPT ![h] =
                [pc |-> IF h = "load" THEN "closed" ELSE "ready",
                 snapshot |-> Failure]]
        /\ UNCHANGED <<selected, stored, server, task, outside, disturbed,
                       searches>>

-----------------------------------------------------------------------------
(* Outside the admin UI *)

Outside ==
    /\ outside < MaxOutside
    /\ outside' = outside + 1
    /\ Disturb(Clicks)
    /\ UNCHANGED <<task, page, telemetry, searches>>

(* mcp-code-indexer add-repo: the selection, and an entry that is empty.    *)
CliAdd(p) ==
    /\ Outside
    /\ selected' = p
    /\ stored' = [stored EXCEPT ![p] = @ \union {"entry"}]
    /\ UNCHANGED server

(* remove-repo, which takes back the selection of what it removes.          *)
CliRemove(p) ==
    /\ Outside
    /\ p \in Catalog
    /\ selected' = IF selected = p THEN NoProject ELSE selected
    /\ \E gone \in Deletions :
         stored' = [stored EXCEPT ![p] = @ \ (gone \union {"entry"})]
    /\ UNCHANGED server

(* The query cache goes with the process.                                   *)
StopServer ==
    /\ Outside
    /\ up
    /\ up' = FALSE
    /\ cached' = {}
    /\ UNCHANGED <<selected, stored>>

StartServer ==
    /\ ~up
    /\ up' = TRUE
    /\ Disturb(Clicks)
    /\ UNCHANGED <<selected, stored, cached, task, page, telemetry, outside,
                   searches>>

-----------------------------------------------------------------------------
(* The page has just been loaded, and the snapshot for it is on its way.    *)
Init ==
    /\ selected = Before
    /\ stored = [p \in Paths |-> IF p = Before THEN Stores ELSE {}]
    /\ up = TRUE
    /\ cached = Asked
    /\ task = [c \in Clicks |-> NoTask]
    /\ page = [status |-> NoProject, input |-> NoProject, rows |-> NoOutput,
               stream |-> NoOutput, searching |-> "idle", catalog |-> {}]
    /\ telemetry = [h \in Channels |->
            IF h = "load" THEN [pc |-> "sent", snapshot |->
                    [selected |-> Before, catalog |-> {Before}]]
            ELSE [pc |-> "ready", snapshot |-> Failure]]
    /\ outside = 0
    /\ disturbed = {}
    /\ last = NoClick
    /\ overlapped = FALSE

SearchSteps(c) ==
    \/ ClickSearch(c)
    \/ \E kind \in {"smoke", "agent"} : RunTest(c, kind)
    \/ Send(c) \/ Receive(c)

IndexSteps(c) ==
    \/ \E p \in Projects : ClickSelect(c, p)
    \/ \E kind \in {"start", "clear"} : ClickIndex(c, kind)
    \/ Truncate(c) \/ Write(c) \/ SelectFails(c)
    \/ Save(c) \/ PersistLexical(c) \/ PersistVectors(c)
    \/ IndexFails(c) \/ Remove(c) \/ DropVectors(c) \/ Respond(c)

TelemetrySteps(h) == AskTelemetry(h) \/ UpdateTelemetry(h)

OutsideSteps ==
    \/ \E p \in Projects : CliAdd(p) \/ CliRemove(p)
    \/ StopServer \/ StartServer

Next ==
    \/ \E c \in Clicks : SearchSteps(c) \/ IndexSteps(c)
    \/ \E h \in Channels : TelemetrySteps(h)
    \/ OutsideSteps

Spec == Init /\ [][Next]_vars

(* The browser keeps the event stream open and the server's ticker goes on; *)
(* nothing says that a request of the user ever ends.                       *)
FairSpec == Spec /\ \A h \in Channels : WF_vars(TelemetrySteps(h))

-----------------------------------------------------------------------------
(* Properties *)

(* The parts of a search, a smoke test or an agent test that nothing        *)
(* disturbed are all about the project that is selected: the repo_filter,   *)
(* the headers and mcp-server's own reading of the file come to the same.   *)
(* Each finds its items while it has an index; without one only the query   *)
(* cache may still answer, and never a stream.                              *)
UndisturbedAnswersAgree ==
    \A c \in Clicks \ disturbed : \A i \in DOMAIN task[c].answers :
        /\ task[c].answers[i] \in {selected, NoProject}
        /\ up /\ Indexed(selected) => task[c].answers[i] = selected
        /\ ~(up /\ Indexed(selected)) /\ (~up \/ Calls[task[c].kind][i] = "sse")
                => task[c].answers[i] = NoProject

(* A search that ran alone has left its own rows and its own stream on the  *)
(* page, empty answers included: never its stream beside the rows of the    *)
(* search before it.                                                        *)
PageShowsLastSearch ==
    last # NoClick /\ At(last, "done") /\ ~overlapped =>
        /\ page.searching = "complete"
        /\ page.rows = [by |-> last, of |-> task[last].answers[1]]
        /\ page.stream = [by |-> last, of |-> task[last].answers[2]]

(* An index action that answers with counts has left the project in all of  *)
(* its stores, unless another hand was at work: (0, 0) is the only answer   *)
(* of an action that failed half-way.                                       *)
CountMeansStored ==
    \A c \in Clicks \ disturbed :
        At(c, "done") /\ task[c].counted => stored[task[c].project] = Stores

(* While mcp-server stays up, a page comes back to the selection once that  *)
(* changes no more, and comes to show the catalog once that changes no      *)
(* more, whatever late answers and snapshots showed before.                 *)
PageFollows ==
    /\ <>[]up /\ <>[](selected # NoProject) /\ <>[][UNCHANGED selected]_vars
            => []<>(page.status = selected)
    /\ <>[]up /\ <>[][UNCHANGED Catalog]_vars
            => <>[](page.catalog = Catalog)
=============================================================================
