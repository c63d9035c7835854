--------------------------- MODULE SearchRequests ---------------------------
(***************************************************************************)
(* The search requests of mcp-server: how the project scope is resolved,   *)
(* the query cache in front of the index, and the latencies that are kept. *)
(* Other processes index and remove projects and change the selection      *)
(* while requests are served.                                              *)
(*                                                                         *)
(* A step is what a request does between two awaits that other requests    *)
(* can run in: reading the selection, one lock of the cache, one load of   *)
(* the project's index, one ranking, one lock of the latencies.            *)
(***************************************************************************)
EXTENDS Naturals

CONSTANTS
    Projects,
    Queries,       \* a query text together with its top_k
    Requests,      \* requests that are served at the same time
    Revisions,     \* contents a project's index can have
    Matches,       \* <<revision, query>> when the revision has results for it
    Capacity,      \* MCP_QUERY_CACHE_CAPACITY, 512 by default
    MaxLatencies,  \* latencies that are kept: 1024
    NoProject,     \* no selection
    NoQuery,       \* the query of an idle request
    NoIndex        \* the content of a project that has no index

ASSUME SearchAssumption ==
    /\ Matches \subseteq Revisions \X Queries
    /\ Capacity \in Nat \ {0}
    /\ MaxLatencies \in Nat
    /\ NoProject \notin Projects
    /\ NoQuery \notin Queries
    /\ NoIndex \notin Revisions

VARIABLES
    index,      \* the stored index of every project
    selected,   \* selected-project.txt
    cache,      \* query_cache: the items of every cached key
    age,        \* how many keys were used after a key; Capacity: not cached
    request,
    latencies   \* the length of search_latencies_ms

(* History: the contents the index of a request's project had since the     *)
(* request resolved its scope.                                              *)
VARIABLE seen

vars == <<index, selected, cache, age, request, latencies, seen>>

-----------------------------------------------------------------------------
(* Values *)

Content == Revisions \union {NoIndex}
Scopes == Projects \union {NoProject}
Keys == Projects \X Queries

(* Items are told apart by the content of the index they were found in.     *)
Items == [project : Projects, query : Queries, content : Revisions]
NoItems == [project |-> NoProject, query |-> NoQuery, content |-> NoIndex]
Answers == Items \union {NoItems}

Endpoints == {"rpc", "sse"}
Phases == {"idle", "lookup", "load", "rank", "store", "record", "answered"}
Request == [pc : Phases, endpoint : Endpoints, scope : Scopes,
            query : Queries \union {NoQuery}, loaded : Content,
            items : Answers, cached : BOOLEAN]
NoRequest == [pc |-> "idle", endpoint |-> "rpc", scope |-> NoProject,
              query |-> NoQuery, loaded |-> NoIndex, items |-> NoItems,
              cached |-> FALSE]

TypeOK ==
    /\ index \in [Projects -> Content]
    /\ selected \in Scopes
    /\ cache \in [Keys -> Answers]
    /\ age \in [Keys -> 0..Capacity]
    /\ request \in [Requests -> Request]
    /\ latencies \in 0..MaxLatencies
    /\ seen \in [Requests -> SUBSET Content]

At(r, pc) == request[r].pc = pc

-----------------------------------------------------------------------------
(* The query cache *)

(* Mutant: a key without the project, for which any project's entry is      *)
(* taken.                                                                   *)
AnyScope(r) == CHOOSE k \in Keys : k[2] = request[r].query

(* cache_key: the resolved scope, the query and top_k.                      *)
Key(r) == <<request[r].scope, request[r].query>>

(* LruCache: a used key becomes the youngest and those that were younger    *)
(* grow older by one.  A key that is put was as old as can be, so that the  *)
(* oldest of a full cache reaches that age and is evicted.                  *)
Use(k) ==
    age' = [j \in Keys |-> IF j = k THEN 0
                           ELSE IF age[j] < age[k] THEN age[j] + 1 ELSE age[j]]

Put(k, items) ==
    /\ Use(k)
    /\ cache' = [j \in Keys |-> IF j = k THEN items
                                ELSE IF age'[j] = Capacity THEN NoItems
                                ELSE cache[j]]

-----------------------------------------------------------------------------
(* Requests *)

(* The scope a request names, or else the selected project; a request       *)
(* without either is rejected before it changes anything.                   *)
ResolveScope(r, endpoint, named, q) ==
    LET scope == IF named # NoProject THEN named ELSE selected
    IN  /\ At(r, "idle")
        /\ scope # NoProject
        /\ request' = [request EXCEPT ![r] =
                [NoRequest EXCEPT
                    !.pc = IF endpoint = "sse" THEN "load" ELSE "lookup",
                    !.endpoint = endpoint, !.scope = scope, !.query = q]]
        /\ seen' = [seen EXCEPT ![r] = {index[scope]}]
        /\ UNCHANGED <<index, selected, cache, age, latencies>>

(* cache_lookup of searchCode, called directly or through tools/call.       *)
Lookup(r) ==
    /\ At(r, "lookup")
    /\ \/ /\ cache[Key(r)] # NoItems
          /\ Use(Key(r))
          /\ request' = [request EXCEPT ![r].pc = "record",
                            ![r].items = cache[Key(r)], ![r].cached = TRUE]
       \/ /\ cache[Key(r)] = NoItems
          /\ request' = [request EXCEPT ![r].pc = "load"]
          /\ UNCHANGED age
    /\ UNCHANGED <<index, selected, cache, latencies, seen>>

(* Mutant: the project selected by now searched instead of the scope.       *)
LoadSelected(r) ==
    /\ At(r, "load")
    /\ request' = [request EXCEPT ![r].pc = "rank",
            ![r].loaded = IF selected = NoProject THEN NoIndex
                          ELSE index[selected]]
    /\ UNCHANGED <<index, selected, cache, age, latencies, seen>>

(* scoped_project_results works on the chunks it loaded: whatever the       *)
(* lexical index or Qdrant answer later is resolved through these.          *)
Load(r) ==
    /\ At(r, "load")
    /\ request' = [request EXCEPT ![r].pc = "rank",
                                  ![r].loaded = index[request[r].scope]]
    /\ UNCHANGED <<index, selected, cache, age, latencies, seen>>

(* What the rankings may find.  A failed one counts as empty, and so does   *)
(* an error of the whole search.                                            *)
Found(r) ==
    IF <<request[r].loaded, request[r].query>> \in Matches
    THEN {NoItems, [project |-> request[r].scope, query |-> request[r].query,
                    content |-> request[r].loaded]}
    ELSE {NoItems}

(* Mutant: an empty answer cached like any other.                           *)
RankStoresEmpty(r) ==
    /\ At(r, "rank")
    /\ \E items \in Found(r) :
            request' = [request EXCEPT ![r].items = items,
                ![r].pc = IF request[r].endpoint = "sse" THEN "record"
                          ELSE "store"]
    /\ UNCHANGED <<index, selected, cache, age, latencies, seen>>

(* searchCode caches and counts only what it found; the event stream does   *)
(* not use the cache and counts every answer.                               *)
Rank(r) ==
    /\ At(r, "rank")
    /\ \E items \in Found(r) :
            request' = [request EXCEPT ![r].items = items,
                ![r].pc = IF request[r].endpoint = "sse" THEN "record"
                          ELSE IF items = NoItems THEN "answered" ELSE "store"]
    /\ UNCHANGED <<index, selected, cache, age, latencies, seen>>

(* cache_store of a non-empty answer.                                        *)
Store(r) ==
    /\ At(r, "store")
    /\ Put(Key(r), request[r].items)
    /\ request' = [request EXCEPT ![r].pc = "record"]
    /\ UNCHANGED <<index, selected, latencies, seen>>

(* record_search_latency_ms pushes one and pops one above the limit.        *)
Record(r) ==
    /\ At(r, "record")
    /\ latencies' = IF latencies + 1 > MaxLatencies THEN latencies
                    ELSE latencies + 1
    /\ request' = [request EXCEPT ![r].pc = "answered"]
    /\ UNCHANGED <<index, selected, cache, age, seen>>

Finish(r) ==
    /\ At(r, "answered")
    /\ request' = [request EXCEPT ![r] = NoRequest]
    /\ seen' = [seen EXCEPT ![r] = {}]
    /\ UNCHANGED <<index, selected, cache, age, latencies>>

-----------------------------------------------------------------------------
(* Other processes *)

(* Somebody indexes, updates or removes a project: nothing tells the cache. *)
IndexChanges(p) ==
    /\ \E c \in Content \ {index[p]} :
        /\ index' = [index EXCEPT ![p] = c]
        /\ seen' = [r \in Requests |->
                IF request[r].scope = p THEN seen[r] \union {c} ELSE seen[r]]
    /\ UNCHANGED <<selected, cache, age, request, latencies>>

SelectionChanges ==
    /\ selected' \in Scopes \ {selected}
    /\ UNCHANGED <<index, cache, age, request, latencies, seen>>

-----------------------------------------------------------------------------
(* The specification *)

Init ==
    /\ index \in [Projects -> Content]
    /\ selected \in Scopes
    /\ cache = [k \in Keys |-> NoItems]
    /\ age = [k \in Keys |-> Capacity]
    /\ request = [r \in Requests |-> NoRequest]
    /\ latencies = 0
    /\ seen = [r \in Requests |-> {}]

Serve(r) ==
    Lookup(r) \/ Load(r) \/ Rank(r) \/ Store(r) \/ Record(r) \/ Finish(r)

Next ==
    \/ \E r \in Requests, e \in Endpoints, named \in Scopes, q \in Queries :
            ResolveScope(r, e, named, q)
    \/ \E r \in Requests : Serve(r)
    \/ \E p \in Projects : IndexChanges(p)
    \/ SelectionChanges

Spec == Init /\ [][Next]_vars

-----------------------------------------------------------------------------
(* Safety *)

Cached(k) == age[k] < Capacity

(* The cache holds at most Capacity keys, whose ages are all different, and *)
(* the items of exactly these: concurrent hits and puts of the same key by  *)
(* requests that missed it together never grow it or lose its order.        *)
CacheIsBounded ==
    /\ \A k \in Keys : Cached(k) <=> cache[k] # NoItems
    /\ \A j, k \in Keys : j # k /\ Cached(j) => age[j] # age[k]

(* "Search indexed code in exactly one project": an answer is one of the    *)
(* project and the query the request was resolved to, whatever is selected  *)
(* by then and whoever filled the cache.                                    *)
AnswersInScope ==
    \A r \in Requests : request[r].items # NoItems =>
        /\ request[r].items.project = request[r].scope
        /\ request[r].items.query = request[r].query

(* An answer that did not come from the cache was found in what the index   *)
(* of the project held at some moment of the request.                       *)
SearchesAreCurrent ==
    \A r \in Requests :
        (~request[r].cached /\ request[r].items # NoItems) =>
            request[r].items.content \in seen[r]

(* What these rest on: active requests are resolved, what is cached or      *)
(* loaded belongs to its key or its request, and only found items are put.  *)
RequestsResolved ==
    \A r \in Requests : ~At(r, "idle") =>
        request[r].scope \in Projects /\ request[r].query \in Queries

CacheKeyed ==
    \A k \in Keys : cache[k] # NoItems =>
        cache[k].project = k[1] /\ cache[k].query = k[2]

LoadedIsSeen ==
    \A r \in Requests :
        /\ ~At(r, "idle") => index[request[r].scope] \in seen[r]
        /\ At(r, "rank") => request[r].loaded \in seen[r]
        /\ At(r, "store") => request[r].items # NoItems

SearchInv ==
    /\ TypeOK
    /\ CacheIsBounded
    /\ AnswersInScope
    /\ SearchesAreCurrent
    /\ RequestsResolved
    /\ CacheKeyed
    /\ LoadedIsSeen

-----------------------------------------------------------------------------
(* What the documentation says and the code does not do *)

(* "Modify a file in indexed repo and validate incremental re-index         *)
(* behavior": an answer, cached or not, is of a content the index had while *)
(* the request was served.                                                  *)
AnswersAreCurrent ==
    \A r \in Requests :
        (At(r, "answered") /\ request[r].items # NoItems) =>
            request[r].items.content \in seen[r]
=============================================================================
